---------------------------- MODULE PeerProofs -----------------------------
(***************************************************************************)
(* Proofs about what the two ends of a connection agree on.                *)
(*                                                                         *)
(* The login, for any set of versions and options.  What either end is     *)
(* waiting for and what is under way to it are known together: the pairs   *)
(* of phases that occur are few, and each says which frames may be under   *)
(* way.  Ends, lost connections and silent sessions only take frames away. *)
(*                                                                         *)
(* A packet, for every width of the numbers, every list of fields and      *)
(* every value in a new buffer: what one side writes is what the other     *)
(* side reads.  The sizes say where each field begins, so the cells of one *)
(* field are there when those before and behind it have been written.      *)
(***************************************************************************)
EXTENDS Login, Codecs, FiniteSetTheorems, SequenceTheorems, TLAPS

-----------------------------------------------------------------------------
(* The phases of the client *)

Client(s, c, e, waits) ==
    /\ state["client"] = s /\ comp["client"] = c /\ ciph["client"] = e
    /\ once["client"] = waits

(* An encryption_begin that never comes keeps its handler. *)
Unasked == IF mode.online THEN {} ELSE {"encryption_begin"}

Idle == crypto = "idle"

Begins == {"encryption_begin", "compress", "success"}

Greeting == Client("handshaking", FALSE, FALSE, Begins) /\ Idle
Asking == Client("login", FALSE, FALSE, Begins) /\ Idle
Encrypting == Client("login", FALSE, FALSE, {"compress", "success"}) /\ mode.online
Encrypted == Client("login", FALSE, TRUE, {"compress", "success"}) /\ mode.online /\ Idle
Compressed == Client("login", TRUE, mode.online, {"success"} \cup Unasked) /\ Idle
Configuring ==
    /\ Client("configuration", TRUE, mode.online, {"finish_configuration"} \cup Unasked)
    /\ mode.config /\ Idle
Playing == Client("play", TRUE, mode.online, Unasked) /\ Idle

(* The client has all it needs to be logged in. *)
Ready == IF mode.online THEN Encrypted ELSE Asking

-----------------------------------------------------------------------------
(* The phases of the server *)

Server(s, c, e, waits) ==
    /\ state["server"] = s /\ comp["server"] = c /\ ciph["server"] = e
    /\ once["server"] = waits

Unverified == verify = "idle" /\ ~logged

Listening ==
    Server("handshaking", FALSE, FALSE, {"set_protocol", "login_start"}) /\ Unverified
Awaiting == Server("login", FALSE, FALSE, {"login_start"}) /\ Unverified
TurnedAway == Server("login", FALSE, FALSE, {}) /\ Unverified
Challenged ==
    Server("login", FALSE, FALSE, {"encryption_begin"}) /\ Unverified /\ mode.online
Verifying == Server("login", FALSE, TRUE, {}) /\ ~logged /\ mode.online

Counted == verify = "idle" /\ logged

Acknowledging ==
    Server("login", TRUE, mode.online, {"login_acknowledged"}) /\ Counted /\ mode.config
Finishing ==
    Server("configuration", TRUE, mode.online, {"finish_configuration"})
        /\ Counted /\ mode.config
Joined == Server("play", TRUE, mode.online, {}) /\ Counted

LoggedIn == IF mode.config THEN Acknowledging ELSE Joined

-----------------------------------------------------------------------------
(* What is under way: nothing, or one of a few sequences of frames.  Behind *)
(* what the server wrote there may be the disconnect of its end().          *)

Hello == Encoded("set_protocol", "handshaking", FALSE, FALSE)
Clear(name) == Encoded(name, "login", FALSE, FALSE)
Compress == Encoded("compress", "login", FALSE, mode.online)
InLogin(name) == Encoded(name, "login", TRUE, mode.online)
InConfiguration(name) == Encoded(name, "configuration", TRUE, mode.online)
Kick == Encoded("kick_disconnect", "play", TRUE, mode.online)

Answers ==
    {<<InConfiguration("custom_payload"), InConfiguration("settings")>>,
     <<InConfiguration("settings")>>}
LastAnswers ==
    {<<InConfiguration("custom_payload"), InConfiguration("settings"),
       InConfiguration("finish_configuration")>>,
     <<InConfiguration("settings"), InConfiguration("finish_configuration")>>,
     <<InConfiguration("finish_configuration")>>}

Disconnects == {Encoded("disconnect", "login", c, e) : c, e \in BOOLEAN}

Farewell(d) == d \in Disconnects \/ (d = Kick /\ state["server"] = "play")

ToServer(some) == inbox["server"] \in {<<>>} \cup some

ToClient(some) ==
    \E said \in {<<>>} \cup some :
        \/ inbox["client"] = said
        \/ ~out["server"] /\ \E d : Farewell(d) /\ inbox["client"] = Append(said, d)

(***************************************************************************)
(* The phases of the dialogue.                                             *)
(***************************************************************************)
Dialogue ==
    \/ Greeting /\ Listening /\ ToServer({}) /\ ToClient({})
    \/ Asking /\ Listening /\ ToServer({<<Hello, Clear("login_start")>>}) /\ ToClient({})
    \/ Asking /\ Awaiting /\ ToServer({<<Clear("login_start")>>}) /\ ToClient({})
    \/ Asking /\ TurnedAway /\ ToServer({}) /\ ToClient({})
    \/ Asking /\ Challenged /\ ToServer({}) /\ ToClient({<<Clear("encryption_begin")>>})
    \/ Encrypting /\ Challenged /\ ToServer({}) /\ ToClient({})
    \/ Encrypted /\ Challenged /\ ToServer({<<Clear("encryption_begin")>>}) /\ ToClient({})
    \/ Encrypted /\ TurnedAway /\ ToServer({}) /\ ToClient({})
    \/ Encrypted /\ Verifying /\ ToServer({}) /\ ToClient({})
    \/ Ready /\ LoggedIn /\ ToServer({}) /\ ToClient({<<Compress, InLogin("success")>>})
    \/ Compressed /\ LoggedIn /\ ToServer({}) /\ ToClient({<<InLogin("success")>>})
    \/ /\ Configuring /\ Acknowledging /\ ToClient({})
       /\ ToServer({<<InLogin("login_acknowledged"), InConfiguration("custom_payload"),
                      InConfiguration("settings")>>})
    \/ /\ Configuring /\ Finishing /\ ToServer(Answers)
       /\ ToClient({<<InConfiguration("registry_data"), InConfiguration("finish_configuration")>>,
                    <<InConfiguration("finish_configuration")>>})
    \/ Playing /\ Finishing /\ ToServer(Answers \cup LastAnswers) /\ ToClient({})
    \/ Playing /\ Joined /\ ToServer({}) /\ ToClient({})

(***************************************************************************)
(* A server in PLAY without CONFIGURATION has said so to a client that is  *)
(* there, and its kick comes behind that.                                  *)
(***************************************************************************)
Told ==
    ~ended["client"] /\ state["client"] # "play" /\ state["server"] = "play" =>
        /\ CanSend("server") => inbox["client"] # <<>>
        /\ inbox["client"] # <<>> => Head(inbox["client"]) # Kick

(* A session server that answers behind the end counts a player too late. *)
TooLate ==
    /\ ended["server"] /\ Ready
    /\ inbox["client"] # <<>> => Head(inbox["client"]) # Compress

Count ==
    /\ ~logged => playerCount = 0
    /\ logged => \/ playerCount = IF ended["server"] THEN 0 ELSE 1
                 \/ playerCount = 1 /\ TooLate

InGame ==
    \A p \in Peer : ingame[p] <=> state[p] = "play"

IInv == TypeOK /\ Dialogue /\ Told /\ Count /\ InGame /\ CodecAgreement

-----------------------------------------------------------------------------
(* Frames and their sequences *)

LEMMA FrameType ==
    ASSUME NEW n \in PacketName, NEW s \in State, NEW c \in BOOLEAN, NEW e \in BOOLEAN
    PROVE  /\ Encoded(n, s, c, e) \in Frame
           /\ Encoded(n, s, c, e).name = n /\ Encoded(n, s, c, e).state = s
           /\ Encoded(n, s, c, e).comp = c /\ Encoded(n, s, c, e).ciph = e
BY DEF Encoded, Frame

LEMMA Names ==
    /\ \A n \in {"set_protocol", "login_start", "encryption_begin", "login_acknowledged",
                 "custom_payload", "settings", "finish_configuration", "compress",
                 "success", "registry_data", "disconnect", "kick_disconnect"} :
           n \in PacketName
    /\ \A s \in {"handshaking", "login", "configuration", "play"} : s \in State
    /\ Peer = {"client", "server"} /\ Other("client") = "server"
    /\ Other("server") = "client"
BY DEF PacketName, ClientPacket, ServerPacket, State, Peer, Other

LEMMA ModeType ==
    ASSUME TypeOK
    PROVE  mode.online \in BOOLEAN /\ mode.config \in BOOLEAN /\ mode.wrongVersion \in BOOLEAN
BY ModesAssumption DEF TypeOK

LEMMA Joins ==
    ASSUME NEW s \in Seq(Frame), NEW a \in Frame
    PROVE  /\ s \o <<a>> = Append(s, a) /\ Append(s, a) \in Seq(Frame)
           /\ <<>> \o s = s /\ s \o <<>> = s
           /\ Append(s, a) # <<>>
           /\ s = <<>> => Append(s, a) = <<a>> /\ Head(Append(s, a)) = a
           /\ s # <<>> => /\ Head(Append(s, a)) = Head(s)
                          /\ Tail(Append(s, a)) = Append(Tail(s), a)
                          /\ Tail(s) \in Seq(Frame) /\ Head(s) \in Frame
<1>1. s \o <<a>> = Append(s, a)
  BY ConcatProperties
<1>2. s = <<>> => Append(s, a) = <<a>> /\ Head(Append(s, a)) = a
  OBVIOUS
<1>3. ASSUME s # <<>>
      PROVE  /\ Head(Append(s, a)) = Head(s)
             /\ Tail(Append(s, a)) = Append(Tail(s), a)
             /\ Tail(s) \in Seq(Frame) /\ Head(s) \in Frame
  <2>1. Len(s) \in Nat /\ Len(s) >= 1
    BY <1>3
  <2> QED BY <1>3, <2>1
<1> QED BY <1>1, <1>2, <1>3

LEMMA Pairs ==
    ASSUME NEW a \in Frame, NEW b \in Frame, NEW c \in Frame
    PROVE  /\ Tail(<<a>>) = <<>> /\ Tail(<<a, b>>) = <<b>> /\ Tail(<<a, b, c>>) = <<b, c>>
           /\ Head(<<a>>) = a /\ Head(<<a, b>>) = a /\ Head(<<a, b, c>>) = a
           /\ <<a>> \o <<b>> = <<a, b>> /\ <<a, b>> \o <<c>> = <<a, b, c>>
           /\ <<a>> # <<>> /\ <<a, b>> # <<>> /\ <<a, b, c>> # <<>>
           /\ {<<a>>, <<a, b>>, <<a, b, c>>} \subseteq Seq(Frame)
<1>1. <<a>> \in Seq(Frame) /\ <<a, b>> \in Seq(Frame) /\ <<a, b, c>> \in Seq(Frame)
  OBVIOUS
<1>2. Append(<<a>>, b) = <<a, b>> /\ Append(<<a, b>>, c) = <<a, b, c>>
  <2>1. /\ Append(<<a>>, b) \in Seq(Frame) /\ Append(<<a, b>>, c) \in Seq(Frame)
        /\ Len(Append(<<a>>, b)) = 2 /\ Len(Append(<<a, b>>, c)) = 3
    BY <1>1, AppendProperties
  <2>2. \A i \in 1..2 : Append(<<a>>, b)[i] = <<a, b>>[i]
    OBVIOUS
  <2>3. \A i \in 1..3 : Append(<<a, b>>, c)[i] = <<a, b, c>>[i]
    OBVIOUS
  <2>4. Len(<<a, b>>) = 2 /\ Len(<<a, b, c>>) = 3
    OBVIOUS
  <2> QED BY <1>1, <2>1, <2>2, <2>3, <2>4, SeqEqual
<1>3. <<a>> \o <<b>> = <<a, b>> /\ <<a, b>> \o <<c>> = <<a, b, c>>
  BY <1>1, <1>2, Joins
<1> QED BY <1>1, <1>3

(***************************************************************************)
(* What Exchange does to either inbox.                                     *)
(***************************************************************************)
LEMMA Exchanged ==
    ASSUME TypeOK, NEW p \in Peer, NEW consumed \in BOOLEAN, NEW frames \in Seq(Frame),
           consumed => inbox[p] # <<>>, Exchange(p, consumed, frames)
    PROVE  /\ inbox' \in [Peer -> Seq(Frame)]
           /\ inbox'[p] = IF consumed THEN Tail(inbox[p]) ELSE inbox[p]
           /\ inbox'[Other(p)]
                = IF CanSend(p) THEN inbox[Other(p)] \o frames ELSE inbox[Other(p)]
<1>1. /\ inbox \in [Peer -> Seq(Frame)] /\ Other(p) \in Peer /\ Other(p) # p
  BY DEF TypeOK, Peer, Other
<1>2. inbox[p] \in Seq(Frame) /\ inbox[Other(p)] \in Seq(Frame)
  BY <1>1
<1> DEFINE mine == IF consumed THEN Tail(inbox[p]) ELSE inbox[p]
           theirs == IF CanSend(p) THEN inbox[Other(p)] \o frames ELSE inbox[Other(p)]
<1>3. mine \in Seq(Frame)
  BY <1>2
<1>4. theirs \in Seq(Frame)
  BY <1>2, ConcatProperties
<1>5. inbox' = [inbox EXCEPT ![p] = mine, ![Other(p)] = theirs]
  BY <1>1 DEF Exchange
<1> HIDE DEF mine, theirs
<1>6. inbox' \in [Peer -> Seq(Frame)] /\ inbox'[p] = mine /\ inbox'[Other(p)] = theirs
  BY <1>1, <1>3, <1>4, <1>5
<1> QED BY <1>6 DEF mine, theirs

LEMMA ClientExchanges ==
    ASSUME TypeOK, NEW consumed \in BOOLEAN, NEW frames \in Seq(Frame),
           consumed => inbox["client"] # <<>>, Exchange("client", consumed, frames)
    PROVE  /\ inbox' \in [Peer -> Seq(Frame)]
           /\ consumed => inbox'["client"] = Tail(inbox["client"])
           /\ ~consumed => inbox'["client"] = inbox["client"]
           /\ inbox'["server"] \in {inbox["server"], inbox["server"] \o frames}
           /\ frames = <<>> => inbox'["server"] = inbox["server"]
<1>1. "client" \in Peer /\ Other("client") = "server" /\ "server" \in Peer
  BY Names
<1>2. /\ inbox' \in [Peer -> Seq(Frame)]
      /\ inbox'["client"] = IF consumed THEN Tail(inbox["client"]) ELSE inbox["client"]
      /\ inbox'["server"] = IF CanSend("client") THEN inbox["server"] \o frames
                                                  ELSE inbox["server"]
  BY <1>1, Exchanged
<1>3. frames = <<>> => inbox["server"] \o frames = inbox["server"]
  <2>1. inbox["server"] \in Seq(Frame)
    BY <1>1 DEF TypeOK
  <2> QED BY <2>1, ConcatEmptySeq
<1>4. CASE consumed
  BY <1>2, <1>3, <1>4
<1>5. CASE ~consumed
  BY <1>2, <1>3, <1>5
<1> QED BY <1>4, <1>5

LEMMA ServerExchanges ==
    ASSUME TypeOK, NEW consumed \in BOOLEAN, NEW frames \in Seq(Frame),
           consumed => inbox["server"] # <<>>, Exchange("server", consumed, frames)
    PROVE  /\ inbox' \in [Peer -> Seq(Frame)]
           /\ consumed => inbox'["server"] = Tail(inbox["server"])
           /\ ~consumed => inbox'["server"] = inbox["server"]
           /\ inbox'["client"] = IF CanSend("server") THEN inbox["client"] \o frames
                                                      ELSE inbox["client"]
           /\ frames = <<>> => inbox'["client"] = inbox["client"]
<1>1. "client" \in Peer /\ Other("server") = "client" /\ "server" \in Peer
  BY Names
<1>2. /\ inbox' \in [Peer -> Seq(Frame)]
      /\ inbox'["server"] = IF consumed THEN Tail(inbox["server"]) ELSE inbox["server"]
      /\ inbox'["client"] = IF CanSend("server") THEN inbox["client"] \o frames
                                                  ELSE inbox["client"]
  BY <1>1, Exchanged
<1>3. frames = <<>> => inbox["client"] \o frames = inbox["client"]
  <2>1. inbox["client"] \in Seq(Frame)
    BY <1>1 DEF TypeOK
  <2> QED BY <2>1, ConcatEmptySeq
<1>4. CASE consumed
  BY <1>2, <1>3, <1>4
<1>5. CASE ~consumed
  BY <1>2, <1>3, <1>5
<1> QED BY <1>4, <1>5

-----------------------------------------------------------------------------
(* The frames the client may find *)

LEMMA FarewellType ==
    ASSUME TypeOK, NEW d, Farewell(d)
    PROVE  /\ d \in Frame /\ d.name \in {"disconnect", "kick_disconnect"}
           /\ d.name = "kick_disconnect" => d = Kick /\ state["server"] = "play"
<1>1. CASE d \in Disconnects
  <2>1. PICK c \in BOOLEAN, e \in BOOLEAN : d = Encoded("disconnect", "login", c, e)
    BY <1>1 DEF Disconnects
  <2>2. "disconnect" \in PacketName /\ "login" \in State
    BY Names
  <2>3. Encoded("disconnect", "login", c, e) \in Frame
    BY <2>2, FrameType
  <2>4. Encoded("disconnect", "login", c, e).name = "disconnect"
    BY <2>2, FrameType
  <2>5. d \in Frame /\ d.name = "disconnect"
    BY <2>1, <2>3, <2>4, Zenon
  <2> QED BY <2>5
<1>2. CASE d = Kick /\ state["server"] = "play"
  <2>1. "kick_disconnect" \in PacketName /\ "play" \in State /\ mode.online \in BOOLEAN
    BY Names, ModeType
  <2>2. Kick \in Frame /\ Kick.name = "kick_disconnect"
    BY <2>1, FrameType DEF Kick
  <2> QED BY <1>2, <2>2
<1> QED BY <1>1, <1>2 DEF Farewell

(***************************************************************************)
(* The client reads what was said, or else the farewell alone.             *)
(***************************************************************************)
LEMMA ClientReads ==
    ASSUME TypeOK, NEW some \in SUBSET Seq(Frame), <<>> \notin some, ToClient(some),
           inbox["client"] # <<>>, inbox'["client"] = Tail(inbox["client"]),
           out' = out, state'["server"] = state["server"], mode' = mode
    PROVE  \/ \E said \in some :
                  /\ Head(inbox["client"]) = Head(said)
                  /\ ToClient({Tail(said)})'
                  /\ out["server"] => inbox'["client"] = Tail(said)
                  /\ inbox'["client"] = <<>> => Tail(said) = <<>>
                  /\ Tail(said) # <<>> => Head(inbox'["client"]) = Head(Tail(said))
           \/ /\ Farewell(Head(inbox["client"])) /\ ~out["server"]
              /\ inbox["client"] = <<Head(inbox["client"])>> /\ inbox'["client"] = <<>>
<1>1. PICK said \in {<<>>} \cup some :
          \/ inbox["client"] = said
          \/ ~out["server"] /\ \E d : Farewell(d) /\ inbox["client"] = Append(said, d)
  BY DEF ToClient
<1>2. \A d : Farewell(d)' <=> Farewell(d)
  BY DEF Farewell, Kick
<1>3. said \in Seq(Frame)
  <2>1. <<>> \in Seq(Frame)
    OBVIOUS
  <2> QED BY <2>1
<1>4. CASE inbox["client"] = said
  BY <1>1, <1>4 DEF ToClient
<1>5. CASE ~out["server"] /\ \E d : Farewell(d) /\ inbox["client"] = Append(said, d)
  <2>1. PICK d : Farewell(d) /\ inbox["client"] = Append(said, d)
    BY <1>5
  <2>2. d \in Frame
    BY <2>1, FarewellType
  <2>3. CASE said = <<>>
    BY <1>3, <1>5, <2>1, <2>2, <2>3, Joins
  <2>4. CASE said # <<>>
    <3>1. /\ Head(inbox["client"]) = Head(said)
          /\ inbox'["client"] = Append(Tail(said), d) /\ Tail(said) \in Seq(Frame)
      BY <1>3, <2>1, <2>2, <2>4, Joins
    <3>2. ToClient({Tail(said)})'
      BY <1>2, <1>5, <2>1, <3>1 DEF ToClient
    <3>3. /\ inbox'["client"] # <<>>
          /\ Tail(said) # <<>> => Head(inbox'["client"]) = Head(Tail(said))
      <4> DEFINE rest == Tail(said)
      <4>1. rest \in Seq(Frame) /\ inbox'["client"] = Append(rest, d)
        BY <3>1
      <4> HIDE DEF rest
      <4>2. Append(rest, d) # <<>> /\ (rest # <<>> => Head(Append(rest, d)) = Head(rest))
        BY <2>2, <4>1, Joins
      <4>3. inbox'["client"] # <<>> /\ (rest # <<>> => Head(inbox'["client"]) = Head(rest))
        BY <4>1, <4>2
      <4> QED BY <4>3 DEF rest
    <3>4. said \in some
      BY <2>4
    <3> QED BY <1>5, <3>1, <3>2, <3>3, <3>4
  <2> QED BY <2>3, <2>4
<1> QED BY <1>1, <1>4, <1>5

(***************************************************************************)
(* The server writes to a client that was told nothing.                    *)
(***************************************************************************)
LEMMA ServerWrites ==
    ASSUME TypeOK, ToClient({}), NEW frames \in Seq(Frame),
           inbox'["client"]
             = IF CanSend("server") THEN inbox["client"] \o frames ELSE inbox["client"],
           out' = out, state["server"] = "play" => state'["server"] = "play", mode' = mode
    PROVE  /\ ToClient({frames})'
           /\ CanSend("server") => inbox'["client"] = frames
           /\ ~CanSend("server") => inbox'["client"] = inbox["client"]
           /\ inbox["client"] # <<>> =>
                 Farewell(Head(inbox["client"])) /\ ~out["server"]
<1>1. \/ inbox["client"] = <<>>
      \/ ~out["server"] /\ \E d : Farewell(d) /\ inbox["client"] = Append(<<>>, d)
  BY DEF ToClient
<1>2. \A d : Farewell(d) => Farewell(d)'
  BY DEF Farewell, Kick
<1>3. CASE CanSend("server")
  <2>1. inbox["client"] = <<>>
    BY <1>1, <1>3 DEF CanSend
  <2>2. inbox'["client"] = frames
    BY <1>3, <2>1, Joins
  <2> QED BY <1>3, <2>1, <2>2 DEF ToClient
<1>4. CASE ~CanSend("server")
  <2>1. inbox'["client"] = inbox["client"]
    BY <1>4
  <2>2. ToClient({})'
    BY <1>1, <1>2, <2>1 DEF ToClient
  <2>3. ToClient({frames})'
    BY <2>2 DEF ToClient
  <2>4. ASSUME NEW d, Farewell(d), inbox["client"] = Append(<<>>, d)
        PROVE  Head(inbox["client"]) = d
    <3>1. d \in Frame /\ <<>> \in Seq(Frame)
      BY <2>4, FarewellType
    <3> QED BY <2>4, <3>1, Joins
  <2> QED BY <1>1, <1>4, <2>1, <2>3, <2>4
<1> QED BY <1>3, <1>4

(***************************************************************************)
(* end() of the server, and any step that leaves the inbox of the client.  *)
(***************************************************************************)
LEMMA ServerQuiet ==
    ASSUME TypeOK, NEW some \in SUBSET Seq(Frame), ToClient(some),
           state'["server"] = state["server"], mode' = mode,
           out'["server"] => out["server"],
           \/ inbox'["client"] \in {inbox["client"], <<>>}
           \/ /\ out["server"] /\ ~out'["server"]
              /\ \E d : Farewell(d) /\ inbox'["client"] = inbox["client"] \o <<d>>
    PROVE  ToClient(some)'
<1>1. PICK said \in {<<>>} \cup some :
          \/ inbox["client"] = said
          \/ ~out["server"] /\ \E d : Farewell(d) /\ inbox["client"] = Append(said, d)
  BY DEF ToClient
<1>2. \A d : Farewell(d)' <=> Farewell(d)
  BY DEF Farewell, Kick
<1>3. CASE inbox'["client"] = <<>>
  BY <1>3 DEF ToClient
<1>4. CASE inbox'["client"] = inbox["client"]
  BY <1>1, <1>2, <1>4 DEF ToClient
<1>5. ASSUME out["server"], ~out'["server"],
             NEW d, Farewell(d), inbox'["client"] = inbox["client"] \o <<d>>
      PROVE  ToClient(some)'
  <2>1. inbox["client"] = said /\ said \in Seq(Frame) /\ d \in Frame
    <3>1. <<>> \in Seq(Frame)
      OBVIOUS
    <3> QED BY <1>1, <1>5, <3>1, FarewellType
  <2>2. inbox'["client"] = Append(said, d)
    BY <1>5, <2>1, Joins
  <2> QED BY <1>1, <1>2, <1>5, <2>2 DEF ToClient
<1> QED BY <1>3, <1>4, <1>5

-----------------------------------------------------------------------------
(* What a frame that arrives says of the phases *)

LEMMA FrameNames ==
    ASSUME TypeOK
    PROVE  /\ Hello \in Frame /\ Hello.name = "set_protocol"
           /\ Compress \in Frame /\ Compress.name = "compress"
           /\ \A n \in {"login_start", "encryption_begin"} :
                 Clear(n) \in Frame /\ Clear(n).name = n
           /\ \A n \in {"success", "login_acknowledged"} :
                 InLogin(n) \in Frame /\ InLogin(n).name = n
           /\ \A n \in {"custom_payload", "settings", "finish_configuration",
                        "registry_data"} :
                 InConfiguration(n) \in Frame /\ InConfiguration(n).name = n
<1> DEFINE Right(f, n) == f \in Frame /\ f.name = n
<1>1. ASSUME NEW n \in PacketName, NEW s \in State, NEW c \in BOOLEAN, NEW e \in BOOLEAN
      PROVE  Right(Encoded(n, s, c, e), n)
  BY FrameType
<1>2. mode.online \in BOOLEAN
  BY ModeType
<1> HIDE DEF Right
<1>3. Right(Hello, "set_protocol")
  BY <1>1, Names DEF Hello
<1>4. Right(Compress, "compress")
  BY <1>1, <1>2, Names DEF Compress
<1>5. \A n \in {"login_start", "encryption_begin"} : Right(Clear(n), n)
  BY <1>1, Names DEF Clear
<1>6. \A n \in {"success", "login_acknowledged"} : Right(InLogin(n), n)
  BY <1>1, <1>2, Names DEF InLogin
<1>7. \A n \in {"custom_payload", "settings", "finish_configuration", "registry_data"} :
          Right(InConfiguration(n), n)
  BY <1>1, <1>2, Names DEF InConfiguration
<1> QED BY <1>3, <1>4, <1>5, <1>6, <1>7 DEF Right

LEMMA ServerHears ==
    ASSUME TypeOK, Dialogue, inbox["server"] # <<>>,
           NEW n, n = Head(inbox["server"]).name
    PROVE  /\ n = "set_protocol" =>
                 /\ Asking /\ Listening /\ ToClient({})
                 /\ inbox["server"] = <<Hello, Clear("login_start")>>
           /\ n = "login_start" =>
                 /\ Asking /\ Awaiting /\ ToClient({})
                 /\ inbox["server"] = <<Clear("login_start")>>
           /\ n = "encryption_begin" =>
                 /\ Encrypted /\ Challenged /\ ToClient({})
                 /\ inbox["server"] = <<Clear("encryption_begin")>>
           /\ n = "login_acknowledged" =>
                 /\ Configuring /\ Acknowledging /\ ToClient({})
                 /\ inbox["server"] = <<InLogin("login_acknowledged"),
                         InConfiguration("custom_payload"), InConfiguration("settings")>>
           /\ n = "finish_configuration" =>
                 /\ Playing /\ Finishing /\ ToClient({})
                 /\ inbox["server"] = <<InConfiguration("finish_configuration")>>
           /\ n \in {"custom_payload", "settings"} =>
                 /\ (Configuring \/ Playing) /\ Finishing
                 /\ inbox["server"] \in Answers \cup LastAnswers
           /\ n \in {"set_protocol", "login_start", "encryption_begin",
                     "login_acknowledged", "finish_configuration", "custom_payload",
                     "settings"}
<1> DEFINE head == Head(inbox["server"])
<1> HIDE DEF head
<1>1. n = head.name
  BY DEF head
<1>2. ASSUME NEW a \in Frame, NEW b \in Frame, NEW c \in Frame
      PROVE  /\ inbox["server"] = <<a>> => head = a
             /\ inbox["server"] = <<a, b>> => head = a
             /\ inbox["server"] = <<a, b, c>> => head = a
  BY DEF head
<1>3. inbox["server"] = <<Hello, Clear("login_start")>> => n = "set_protocol"
  BY <1>1, <1>2, FrameNames
<1>4. inbox["server"] = <<Clear("login_start")>> => n = "login_start"
  BY <1>1, <1>2, FrameNames
<1>5. inbox["server"] = <<Clear("encryption_begin")>> => n = "encryption_begin"
  BY <1>1, <1>2, FrameNames
<1>6. inbox["server"] = <<InLogin("login_acknowledged"),
          InConfiguration("custom_payload"), InConfiguration("settings")>>
      => n = "login_acknowledged"
  BY <1>1, <1>2, FrameNames
<1>7. inbox["server"] \in Answers => n \in {"custom_payload", "settings"}
  BY <1>1, <1>2, FrameNames DEF Answers
<1>8. inbox["server"] \in LastAnswers =>
          \/ n \in {"custom_payload", "settings"}
          \/ /\ n = "finish_configuration"
             /\ inbox["server"] = <<InConfiguration("finish_configuration")>>
  BY <1>1, <1>2, FrameNames DEF LastAnswers
<1> QED BY <1>3, <1>4, <1>5, <1>6, <1>7, <1>8 DEF Dialogue, ToServer

LEMMA ClientHears ==
    ASSUME TypeOK, Dialogue, inbox["client"] # <<>>,
           inbox'["client"] = Tail(inbox["client"]),
           out' = out, state'["server"] = state["server"], mode' = mode,
           NEW n, n = Head(inbox["client"]).name
    PROVE  /\ n = "encryption_begin" =>
                 /\ Asking /\ Challenged /\ ToServer({}) /\ ToClient({})'
                 /\ Head(inbox["client"]) = Clear("encryption_begin")
           /\ n = "compress" =>
                 /\ Ready /\ LoggedIn /\ ToServer({}) /\ ToClient({<<InLogin("success")>>})'
                 /\ Head(inbox["client"]) = Compress
                 /\ inbox'["client"] # <<>> /\ Head(inbox'["client"]) = InLogin("success")
           /\ n = "success" =>
                 /\ Compressed /\ LoggedIn /\ ToServer({}) /\ ToClient({})'
                 /\ Head(inbox["client"]) = InLogin("success")
           /\ n = "registry_data" =>
                 /\ Configuring /\ Finishing /\ ToServer(Answers)
                 /\ ToClient({<<InConfiguration("finish_configuration")>>})'
                 /\ Head(inbox["client"]) = InConfiguration("registry_data")
           /\ n = "finish_configuration" =>
                 /\ Configuring /\ Finishing /\ ToServer(Answers) /\ ToClient({})'
                 /\ Head(inbox["client"]) = InConfiguration("finish_configuration")
           /\ n \in {"disconnect", "kick_disconnect"} =>
                 /\ Farewell(Head(inbox["client"])) /\ ~out["server"]
                 /\ inbox'["client"] = <<>>
           /\ n \in {"encryption_begin", "compress", "success", "registry_data",
                     "finish_configuration", "disconnect", "kick_disconnect"}
<1> DEFINE head == Head(inbox["client"])
           Bye == /\ Farewell(head) /\ ~out["server"] /\ inbox'["client"] = <<>>
                  /\ n \in {"disconnect", "kick_disconnect"}
           Said(said) == /\ head = Head(said) /\ ToClient({Tail(said)})'
                         /\ inbox'["client"] = <<>> => Tail(said) = <<>>
                         /\ Tail(said) # <<>> =>
                               Head(inbox'["client"]) = Head(Tail(said))
           Reads(some) == ToClient(some) => Bye \/ \E said \in some : Said(said)
<1>1. ASSUME NEW some \in SUBSET Seq(Frame), <<>> \notin some
      PROVE  Reads(some)
  BY <1>1, ClientReads, FarewellType
<1>2. ToClient({<<>>})' => ToClient({})'
  BY DEF ToClient
<1>3. /\ InLogin("success")' = InLogin("success")
      /\ InConfiguration("finish_configuration")' = InConfiguration("finish_configuration")
  BY DEF InLogin, InConfiguration
<1>4. n = head.name
  OBVIOUS
<1> HIDE DEF head, Bye, Said, Reads
<1>5. ToClient({}) => Bye
  <2>1. {} \in SUBSET Seq(Frame) /\ <<>> \notin {}
    OBVIOUS
  <2> QED BY <1>1, <2>1 DEF Reads
<1>6. ASSUME NEW a \in Frame
      PROVE  /\ ToClient({<<a>>}) => Bye \/ (head = a /\ ToClient({})')
             /\ <<a>> \in Seq(Frame) /\ <<a>> # <<>>
  <2>1. <<a>> \in Seq(Frame) /\ <<a>> # <<>> /\ Head(<<a>>) = a /\ Tail(<<a>>) = <<>>
    OBVIOUS
  <2>2. {<<a>>} \in SUBSET Seq(Frame) /\ <<>> \notin {<<a>>}
    BY <2>1
  <2>3. Reads({<<a>>})
    BY <1>1, <2>2
  <2> QED BY <1>2, <2>1, <2>3 DEF Said, Reads
<1>7. ASSUME NEW a \in Frame, NEW b \in Frame
      PROVE  /\ <<a, b>> \in Seq(Frame) /\ <<a, b>> # <<>>
             /\ Said(<<a, b>>) =>
                  /\ head = a /\ ToClient({<<b>>})' /\ inbox'["client"] # <<>>
                  /\ Head(inbox'["client"]) = b
             /\ ToClient({<<a, b>>}) =>
                  \/ Bye
                  \/ /\ head = a /\ ToClient({<<b>>})' /\ inbox'["client"] # <<>>
                     /\ Head(inbox'["client"]) = b
  <2>1. /\ <<a, b>> \in Seq(Frame) /\ <<a, b>> # <<>> /\ Head(<<a, b>>) = a
        /\ Tail(<<a, b>>) = <<b>> /\ <<b>> # <<>> /\ Head(<<b>>) = b
    OBVIOUS
  <2>2. {<<a, b>>} \in SUBSET Seq(Frame) /\ <<>> \notin {<<a, b>>}
    BY <2>1
  <2>3. Reads({<<a, b>>})
    BY <1>1, <2>2
  <2> QED BY <2>1, <2>3 DEF Said, Reads
<1>8. ToClient({<<Clear("encryption_begin")>>}) =>
         \/ Bye
         \/ /\ n = "encryption_begin" /\ head = Clear("encryption_begin")
            /\ ToClient({})'
  BY <1>4, <1>6, FrameNames
<1>9. ToClient({<<InLogin("success")>>}) =>
         \/ Bye
         \/ n = "success" /\ head = InLogin("success") /\ ToClient({})'
  BY <1>4, <1>6, FrameNames
<1>10. ToClient({<<Compress, InLogin("success")>>}) =>
          \/ Bye
          \/ /\ n = "compress" /\ head = Compress /\ ToClient({<<InLogin("success")>>})'
             /\ inbox'["client"] # <<>> /\ Head(inbox'["client"]) = InLogin("success")
  BY <1>3, <1>4, <1>7, FrameNames
<1>11. ToClient({<<InConfiguration("registry_data"), InConfiguration("finish_configuration")>>,
                 <<InConfiguration("finish_configuration")>>}) =>
          \/ Bye
          \/ /\ n = "registry_data" /\ head = InConfiguration("registry_data")
             /\ ToClient({<<InConfiguration("finish_configuration")>>})'
          \/ /\ n = "finish_configuration" /\ ToClient({})'
             /\ head = InConfiguration("finish_configuration")
  <2> DEFINE r == InConfiguration("registry_data")
             f == InConfiguration("finish_configuration")
  <2>1. r \in Frame /\ f \in Frame /\ r.name = "registry_data"
        /\ f.name = "finish_configuration" /\ f' = f
    BY <1>3, FrameNames
  <2> HIDE DEF r, f
  <2>2. Reads({<<r, f>>, <<f>>})
    BY <1>1, <1>6, <1>7, <2>1
  <2>3. Said(<<f>>) => head = f /\ ToClient({})'
    BY <1>2, <2>1 DEF Said
  <2>4. ToClient({<<r, f>>, <<f>>}) =>
           \/ Bye
           \/ n = "registry_data" /\ head = r /\ ToClient({<<f>>})'
           \/ n = "finish_configuration" /\ ToClient({})' /\ head = f
    BY <1>4, <1>7, <2>1, <2>2, <2>3 DEF Reads
  <2> QED BY <2>1, <2>4 DEF r, f
<1> QED BY <1>5, <1>8, <1>9, <1>10, <1>11 DEF Dialogue, Bye, head

-----------------------------------------------------------------------------
(* A peer whose variables are left alone stays in its phase *)

LEMMA ClientStays ==
    ASSUME TypeOK, mode' = mode, crypto' \in {crypto, "idle"},
           state'["client"] = state["client"], comp'["client"] = comp["client"],
           ciph'["client"] = ciph["client"], once'["client"] = once["client"]
    PROVE  /\ Greeting => Greeting'
           /\ Asking => Asking'
           /\ Encrypting => Encrypting'
           /\ Encrypted => Encrypted'
           /\ Compressed => Compressed'
           /\ Configuring => Configuring'
           /\ Playing => Playing'
           /\ Ready => Ready'
BY DEF Greeting, Asking, Encrypting, Encrypted, Compressed, Configuring, Playing, Ready,
       Client, Idle, Unasked

LEMMA ServerStays ==
    ASSUME TypeOK, mode' = mode, logged' = logged, verify' \in {verify, "idle"},
           state'["server"] = state["server"], comp'["server"] = comp["server"],
           ciph'["server"] = ciph["server"], once'["server"] = once["server"]
    PROVE  /\ Listening => Listening'
           /\ Awaiting => Awaiting'
           /\ TurnedAway => TurnedAway'
           /\ Challenged => Challenged'
           /\ Verifying => Verifying'
           /\ Acknowledging => Acknowledging'
           /\ Finishing => Finishing'
           /\ Joined => Joined'
           /\ LoggedIn => LoggedIn'
BY DEF Listening, Awaiting, TurnedAway, Challenged, Verifying, Acknowledging, Finishing, Joined,
       LoggedIn, Server, Unverified, Counted

LEMMA SameFrames ==
    ASSUME mode' = mode
    PROVE  /\ Hello' = Hello /\ Compress' = Compress /\ Kick' = Kick
           /\ \A n : Clear(n)' = Clear(n) /\ InLogin(n)' = InLogin(n)
           /\ \A n : InConfiguration(n)' = InConfiguration(n)
           /\ Answers' = Answers /\ LastAnswers' = LastAnswers
BY DEF Hello, Compress, Kick, Clear, InLogin, InConfiguration, Answers, LastAnswers

(***************************************************************************)
(* The phases exclude each other.                                          *)
(***************************************************************************)
LEMMA Exclusive ==
    ASSUME TypeOK
    PROVE  /\ (Greeting \/ Asking \/ Encrypting \/ Encrypted \/ Compressed) =>
                 state["client"] # "play" /\ state["client"] # "configuration"
           /\ Configuring => state["client"] = "configuration"
           /\ Playing => state["client"] = "play" /\ ~Ready
           /\ Greeting => state["client"] = "handshaking" /\ ~Ready
           /\ state["client"] = "handshaking" =>
                 ~(Asking \/ Encrypting \/ Encrypted \/ Compressed)
           /\ Ready => state["client"] = "login"
           /\ Ready => ~(Encrypting \/ Compressed \/ Configuring)
           /\ ~Idle => ~(Greeting \/ Asking \/ Encrypted \/ Compressed \/ Configuring
                          \/ Playing \/ Ready)
           /\ (Listening \/ Awaiting \/ TurnedAway \/ Challenged \/ Verifying) =>
                 ~logged /\ state["server"] # "play"
           /\ (Acknowledging \/ Finishing \/ Joined) => logged /\ verify = "idle"
           /\ (Acknowledging \/ Finishing) => state["server"] # "play" /\ mode.config
           /\ Joined => state["server"] = "play"
           /\ Finishing => state["server"] = "configuration"
           /\ (Acknowledging \/ Joined \/ LoggedIn) => state["server"] # "configuration"
           /\ LoggedIn => logged /\ (state["server"] = "play" <=> ~mode.config)
           /\ verify = "pending" => ~(Listening \/ Awaiting \/ TurnedAway \/ Challenged)
BY DEF Greeting, Asking, Encrypting, Encrypted, Compressed, Configuring, Playing, Ready,
       Client, Idle, Unasked, Listening, Awaiting, TurnedAway, Challenged, Verifying,
       Acknowledging, Finishing, Joined, LoggedIn, Server, Unverified, Counted

-----------------------------------------------------------------------------
(* The steps of the client *)

LEMMA ConnectStep ==
    ASSUME IInv, Connect
    PROVE  IInv'
<1> USE DEF IInv
<1>1. /\ Greeting /\ Listening /\ inbox["server"] = <<>> /\ ToClient({})
  BY Exclusive DEF Dialogue, Connect, ToServer
<1> DEFINE frames == <<Hello, Clear("login_start")>>
<1>2. frames \in Seq(Frame) /\ <<>> \o frames = frames
  <2>1. Hello \in Frame /\ Clear("login_start") \in Frame
    BY FrameNames
  <2>2. frames \in Seq(Frame)
    BY <2>1
  <2> QED BY <2>2, ConcatEmptySeq
<1> Exchange("client", FALSE, frames)
  BY Zenon DEF Connect, Hello, Clear
<1>3. /\ inbox' \in [Peer -> Seq(Frame)] /\ inbox'["client"] = inbox["client"]
      /\ inbox'["server"] \in {<<>>, frames}
  <2> HIDE DEF frames
  <2> QED BY <1>1, <1>2, ClientExchanges
<1>4. TypeOK'
  BY <1>3, Names DEF TypeOK, Connect, streamVars, loginVars
<1>5. /\ state'["client"] = "login" /\ state'["server"] = state["server"]
      /\ mode' = mode /\ comp' = comp /\ ciph' = ciph /\ once' = once /\ out' = out
      /\ crypto' = crypto /\ verify' = verify /\ logged' = logged
      /\ ended' = ended /\ playerCount' = playerCount /\ ingame' = ingame
      /\ misread' = misread
  BY Names DEF TypeOK, Connect, streamVars, loginVars
<1>6. Asking'
  BY <1>1, <1>5 DEF Greeting, Asking, Client, Idle
<1>7. Listening' /\ ToClient({})'
  BY <1>1, <1>3, <1>5, ServerStays, ServerQuiet
<1>8. ToServer({<<Hello, Clear("login_start")>>})'
  BY <1>3, <1>5, SameFrames DEF ToServer
<1>9. Dialogue'
  BY <1>6, <1>7, <1>8 DEF Dialogue
<1>10. Told'
  BY <1>1, <1>5, Exclusive DEF Told
<1>11. Count'
  BY <1>1, <1>5, Exclusive DEF Count
<1>12. InGame' /\ CodecAgreement'
  BY <1>1, <1>5, Exclusive, Names DEF InGame, CodecAgreement, Greeting, Client
<1> QED BY <1>4, <1>9, <1>10, <1>11, <1>12

LEMMA EncryptionKeyRequestStep ==
    ASSUME IInv, OnEncryptionKeyRequest
    PROVE  IInv'
<1> USE DEF IInv
<1> DEFINE n == Head(inbox["client"]).name
<1>1. /\ inbox["client"] # <<>> /\ n = "encryption_begin" /\ "encryption_begin" \in once["client"]
  BY DEF OnEncryptionKeyRequest, Handles, Hears
<1>2. /\ mode' = mode /\ state' = state /\ comp' = comp /\ ciph' = ciph /\ out' = out
      /\ crypto' = "random" /\ verify' = verify /\ logged' = logged
      /\ ended' = ended /\ playerCount' = playerCount /\ ingame' = ingame
      /\ misread' = misread
      /\ once'["client"] = once["client"] \ {"encryption_begin"}
      /\ once'["server"] = once["server"]
  BY Names DEF TypeOK, OnEncryptionKeyRequest, Disarm, codecVars, streamVars
<1>3. <<>> \in Seq(Frame)
  OBVIOUS
<1> Exchange("client", TRUE, <<>>)
  BY Zenon DEF OnEncryptionKeyRequest
<1>4. /\ inbox' \in [Peer -> Seq(Frame)] /\ inbox'["client"] = Tail(inbox["client"])
      /\ inbox'["server"] = inbox["server"]
  BY <1>1, <1>3, ClientExchanges
<1>5. TypeOK'
  BY <1>4, Names DEF TypeOK, OnEncryptionKeyRequest, Disarm, codecVars, streamVars
<1>6. Asking /\ Challenged /\ ToServer({}) /\ ToClient({})'
  BY <1>1, <1>2, <1>4, ClientHears
<1>7. Encrypting' /\ Challenged' /\ ToServer({})'
  <2>1. Challenged'
    BY <1>2, <1>6, ServerStays
  <2>2. Encrypting'
    BY <1>2, <1>6 DEF Asking, Encrypting, Client, Challenged, Begins
  <2> QED BY <1>4, <1>6, <2>1, <2>2 DEF ToServer
<1>8. Dialogue'
  BY <1>6, <1>7 DEF Dialogue
<1>9. Told' /\ Count' /\ InGame' /\ CodecAgreement'
  BY <1>2, <1>6, Exclusive, Names DEF Told, Count, InGame, CodecAgreement
<1> QED BY <1>5, <1>8, <1>9

LEMMA SharedSecretStep ==
    ASSUME IInv, GotSharedSecret
    PROVE  IInv'
<1> USE DEF IInv
<1>1. Encrypting /\ Challenged /\ ToServer({}) /\ ToClient({})
  <2>1. ~Idle
    BY DEF GotSharedSecret, Idle
  <2> QED BY <2>1, Exclusive DEF Dialogue
<1>2. /\ mode' = mode /\ state' = state /\ comp' = comp /\ ciph' = ciph /\ once' = once
      /\ out' = out /\ inbox' = inbox /\ crypto' = "join" /\ verify' = verify
      /\ logged' = logged /\ ended' = ended /\ playerCount' = playerCount
      /\ ingame' = ingame /\ misread' = misread
  BY DEF GotSharedSecret, codecVars, streamVars
<1>3. TypeOK'
  BY DEF TypeOK, GotSharedSecret, codecVars, streamVars
<1>4. Encrypting' /\ Challenged' /\ ToServer({})' /\ ToClient({})'
  <2>1. Challenged' /\ ToClient({})'
    BY <1>1, <1>2, ServerStays, ServerQuiet
  <2>2. Encrypting' /\ ToServer({})'
    BY <1>1, <1>2 DEF Encrypting, Client, ToServer
  <2> QED BY <2>1, <2>2
<1>5. Dialogue'
  BY <1>4 DEF Dialogue
<1>6. Told' /\ Count' /\ InGame' /\ CodecAgreement'
  BY <1>1, <1>2, Exclusive DEF Told, Count, InGame, CodecAgreement
<1> QED BY <1>3, <1>5, <1>6

LEMMA EncryptionKeyResponseStep ==
    ASSUME IInv, SendEncryptionKeyResponse
    PROVE  IInv'
<1> USE DEF IInv
<1>1. Encrypting /\ Challenged /\ inbox["server"] = <<>> /\ ToClient({})
  <2>1. ~Idle
    BY DEF SendEncryptionKeyResponse, Idle
  <2> QED BY <2>1, Exclusive DEF Dialogue, ToServer
<1> DEFINE frames == <<Clear("encryption_begin")>>
<1>2. frames \in Seq(Frame) /\ <<>> \o frames = frames
  <2>1. Clear("encryption_begin") \in Frame
    BY FrameNames
  <2>2. frames \in Seq(Frame)
    BY <2>1
  <2> QED BY <2>2, ConcatEmptySeq
<1>3. Exchange("client", FALSE, frames)
  <2>1. state["client"] = "login" /\ comp["client"] = FALSE /\ ciph["client"] = FALSE
    BY <1>1 DEF Encrypting, Client
  <2> QED BY <2>1, Zenon DEF SendEncryptionKeyResponse, Clear
<1>4. /\ inbox' \in [Peer -> Seq(Frame)] /\ inbox'["client"] = inbox["client"]
      /\ inbox'["server"] \in {<<>>, frames}
  <2> HIDE DEF frames
  <2> QED BY <1>1, <1>2, <1>3, ClientExchanges
<1>5. /\ mode' = mode /\ state' = state /\ comp' = comp /\ once' = once /\ out' = out
      /\ ciph'["client"] = TRUE /\ ciph'["server"] = ciph["server"]
      /\ crypto' = "idle" /\ verify' = verify /\ logged' = logged
      /\ ended' = ended /\ playerCount' = playerCount /\ ingame' = ingame
      /\ misread' = misread
  BY Names DEF TypeOK, SendEncryptionKeyResponse, streamVars
<1>6. TypeOK'
  BY <1>4, Names DEF TypeOK, SendEncryptionKeyResponse, streamVars
<1>7. Encrypted' /\ Challenged' /\ ToClient({})' /\ ToServer({frames})'
  <2>1. Challenged' /\ ToClient({})'
    BY <1>1, <1>4, <1>5, ServerStays, ServerQuiet
  <2>2. Encrypted'
    BY <1>1, <1>5 DEF Encrypting, Encrypted, Client, Idle
  <2>3. ToServer({frames})'
    BY <1>4, <1>5, SameFrames DEF ToServer
  <2> QED BY <2>1, <2>2, <2>3
<1>8. Dialogue'
  BY <1>7 DEF Dialogue
<1>9. Told' /\ Count' /\ InGame' /\ CodecAgreement'
  BY <1>1, <1>5, Exclusive DEF Told, Count, InGame, CodecAgreement
<1> QED BY <1>6, <1>8, <1>9

LEMMA CompressionStep ==
    ASSUME IInv, OnCompressionRequest
    PROVE  IInv'
<1> USE DEF IInv
<1> DEFINE n == Head(inbox["client"]).name
<1>1. inbox["client"] # <<>> /\ n = "compress"
  BY DEF OnCompressionRequest, Handles, Hears
<1>2. /\ mode' = mode /\ state' = state /\ ciph' = ciph /\ out' = out
      /\ comp'["client"] = TRUE /\ comp'["server"] = comp["server"]
      /\ crypto' = crypto /\ verify' = verify /\ logged' = logged
      /\ ended' = ended /\ playerCount' = playerCount /\ ingame' = ingame
      /\ misread' = misread
      /\ once'["client"] = once["client"] \ {"compress"}
      /\ once'["server"] = once["server"]
  BY Names DEF TypeOK, OnCompressionRequest, Disarm, streamVars, loginVars
<1>3. <<>> \in Seq(Frame)
  OBVIOUS
<1> Exchange("client", TRUE, <<>>)
  BY Zenon DEF OnCompressionRequest
<1>4. /\ inbox' \in [Peer -> Seq(Frame)] /\ inbox'["client"] = Tail(inbox["client"])
      /\ inbox'["server"] = inbox["server"]
  BY <1>1, <1>3, ClientExchanges
<1>5. TypeOK'
  BY <1>4, Names DEF TypeOK, OnCompressionRequest, Disarm, streamVars, loginVars
<1>6. /\ Ready /\ LoggedIn /\ ToServer({}) /\ ToClient({<<InLogin("success")>>})'
      /\ Head(inbox["client"]) = Compress
      /\ inbox'["client"] # <<>> /\ Head(inbox'["client"]) = InLogin("success")
  BY <1>1, <1>2, <1>4, ClientHears
<1>7. Compressed' /\ LoggedIn' /\ ToServer({})'
  <2>1. LoggedIn'
    BY <1>2, <1>6, ServerStays
  <2>2. Compressed'
    BY <1>2, <1>6, ModeType
       DEF Ready, Asking, Encrypted, Compressed, Client, Idle, Unasked, Begins
  <2> QED BY <1>4, <1>6, <2>1, <2>2 DEF ToServer
<1>8. Dialogue'
  BY <1>2, <1>6, <1>7, SameFrames DEF Dialogue
<1>9. Told'
  <2>1. InLogin("success") # Kick /\ Kick' = Kick
    BY <1>2, FrameNames, FrameType, ModeType, Names, SameFrames DEF Kick, InLogin, Encoded
  <2> QED BY <1>6, <2>1 DEF Told
<1>10. Count'
  BY <1>1, <1>2, <1>6, Exclusive DEF Count, TooLate
<1>11. InGame' /\ CodecAgreement'
  BY <1>2 DEF InGame, CodecAgreement
<1> QED BY <1>5, <1>8, <1>9, <1>10, <1>11

(* From the configuration on the client acknowledges the login. *)
LEMMA SuccessStep ==
    ASSUME IInv, OnSuccess
    PROVE  IInv'
<1> USE DEF IInv
<1> DEFINE n == Head(inbox["client"]).name
<1>1. inbox["client"] # <<>> /\ n = "success" /\ ~ended["client"]
  BY DEF OnSuccess, Handles, Hears
<1>2. /\ mode' = mode /\ comp' = comp /\ ciph' = ciph /\ out' = out
      /\ crypto' = crypto /\ verify' = verify /\ logged' = logged
      /\ ended' = ended /\ playerCount' = playerCount /\ misread' = misread
      /\ state'["server"] = state["server"] /\ ingame'["server"] = ingame["server"]
      /\ once'["server"] = once["server"]
  BY Names DEF TypeOK, OnSuccess, Disarm, streamVars
<1> DEFINE acks == <<InLogin("login_acknowledged"), InConfiguration("custom_payload"),
                     InConfiguration("settings")>>
           frames == IF mode.config THEN acks ELSE <<>>
<1>3. acks \in Seq(Frame) /\ frames \in Seq(Frame)
  <2>1. /\ InLogin("login_acknowledged") \in Frame
        /\ InConfiguration("custom_payload") \in Frame /\ InConfiguration("settings") \in Frame
    BY FrameNames
  <2>2. acks \in Seq(Frame)
    BY <2>1
  <2> QED BY <2>2
<1>4. /\ inbox["client"] \in Seq(Frame) /\ Tail(inbox["client"]) \in Seq(Frame)
      /\ Exchange("client", TRUE, frames) =>
          /\ inbox' \in [Peer -> Seq(Frame)] /\ inbox'["client"] = Tail(inbox["client"])
          /\ inbox'["server"] \in {inbox["server"], inbox["server"] \o frames}
          /\ frames = <<>> => inbox'["server"] = inbox["server"]
  <2>1. inbox["client"] \in Seq(Frame) /\ Tail(inbox["client"]) \in Seq(Frame)
    BY <1>1, Names DEF TypeOK
  <2> HIDE DEF frames
  <2> QED BY <1>1, <1>3, <2>1, ClientExchanges
<1>5. Exchange("client", TRUE, frames) =>
        /\ Compressed /\ LoggedIn /\ inbox["server"] = <<>> /\ ToClient({})'
        /\ inbox'["server"] \in {<<>>, frames}
  <2>1. Exchange("client", TRUE, frames) =>
          /\ Compressed /\ LoggedIn /\ ToServer({}) /\ ToClient({})'
    BY <1>1, <1>2, <1>4, ClientHears
  <2>2. <<>> \o frames = frames
    BY <1>3, ConcatEmptySeq
  <2> HIDE DEF frames
  <2> QED BY <1>4, <2>1, <2>2 DEF ToServer
<1>6. Compressed
  <2>1. /\ \E m : Exchange("client", TRUE, m) /\ m \in Seq(Frame)
    <3>1. CASE mode.config
      <4> DEFINE In(s, name) == Encoded(name, s, comp["client"], ciph["client"])
                 written == <<In("login", "login_acknowledged"),
                              In("configuration", "custom_payload"),
                              In("configuration", "settings")>>
      <4>1. Exchange("client", TRUE, written)
        BY <3>1, Zenon DEF OnSuccess
      <4>2. comp["client"] \in BOOLEAN /\ ciph["client"] \in BOOLEAN
        BY Names DEF TypeOK
      <4>3. /\ In("login", "login_acknowledged") \in Frame
            /\ In("configuration", "custom_payload") \in Frame
            /\ In("configuration", "settings") \in Frame
        BY <4>2, Names, FrameType
      <4>4. written \in Seq(Frame)
        BY <4>3
      <4> QED BY <4>1, <4>4
    <3>2. CASE ~mode.config
      <4>1. Exchange("client", TRUE, <<>>)
        BY <3>2, Zenon DEF OnSuccess
      <4>2. <<>> \in Seq(Frame)
        OBVIOUS
      <4> QED BY <4>1, <4>2
    <3> QED BY <3>1, <3>2
  <2>2. inbox'["client"] = Tail(inbox["client"])
    BY <1>1, <2>1, ClientExchanges
  <2> QED BY <1>1, <1>2, <2>2, ClientHears
<1>7. Exchange("client", TRUE, frames)
  <2>1. state["client"] = "login" /\ comp["client"] = TRUE /\ ciph["client"] = mode.online
    BY <1>6 DEF Compressed, Client
  <2>2. CASE mode.config
    BY <2>1, <2>2, Zenon DEF OnSuccess, InLogin, InConfiguration
  <2>3. CASE ~mode.config
    BY <2>1, <2>3, Zenon DEF OnSuccess
  <2> QED BY <2>2, <2>3
<1> HIDE DEF frames, acks
<1>8. TypeOK'
  <2>1. /\ state' \in [Peer -> State] /\ ingame' \in [Peer -> BOOLEAN]
        /\ once' \in [Peer -> SUBSET PacketName]
    <3>1. CASE mode.config
      <4>1. ingame' = ingame /\ state' = [state EXCEPT !["client"] = "configuration"]
        BY <3>1, Zenon DEF OnSuccess
      <4>2. once' = [once EXCEPT !["client"] = (@ \ {"success"}) \union {"finish_configuration"}]
        BY <3>1, Zenon DEF OnSuccess, Disarm
      <4> QED BY <4>1, <4>2, Names DEF TypeOK
    <3>2. CASE ~mode.config
      <4>1. /\ ingame' = [ingame EXCEPT !["client"] = TRUE]
            /\ state' = [state EXCEPT !["client"] = "play"]
        BY <3>2, Zenon DEF OnSuccess
      <4>2. once' = [once EXCEPT !["client"] = (@ \ {"success"}) \union {}]
        BY <3>2, Zenon DEF OnSuccess, Disarm
      <4> QED BY <4>1, <4>2, Names DEF TypeOK
    <3> QED BY <3>1, <3>2
  <2>2. inbox' \in [Peer -> Seq(Frame)]
    BY <1>4, <1>7
  <2> QED BY <2>1, <2>2 DEF TypeOK, OnSuccess, streamVars
<1>9. CASE mode.config
  <2>1. /\ state'["client"] = "configuration" /\ ingame' = ingame
        /\ once'["client"] = (once["client"] \ {"success"}) \cup {"finish_configuration"}
    BY <1>9, Names DEF TypeOK, OnSuccess, Disarm
  <2>2. Configuring'
    BY <1>2, <1>6, <1>9, <2>1 DEF Compressed, Configuring, Client, Idle, Unasked
  <2>3. LoggedIn' /\ Acknowledging'
    BY <1>2, <1>5, <1>7, <1>9, ServerStays DEF LoggedIn
  <2>4. ToServer({acks})'
    BY <1>2, <1>5, <1>7, <1>9, SameFrames DEF ToServer, frames, acks
  <2>5. Dialogue'
    BY <1>5, <1>7, <2>2, <2>3, <2>4 DEF Dialogue, acks
  <2>6. Told' /\ Count' /\ InGame' /\ CodecAgreement'
    BY <1>2, <1>5, <1>6, <1>7, <2>1, <2>3, Exclusive, Names
       DEF Told, Count, TooLate, InGame, CodecAgreement, LoggedIn, Acknowledging, Server
  <2> QED BY <1>8, <2>5, <2>6
<1>10. CASE ~mode.config
  <2>1. /\ state'["client"] = "play" /\ ingame'["client"] = TRUE
        /\ once'["client"] = once["client"] \ {"success"}
    <3>1. /\ ingame' = [ingame EXCEPT !["client"] = TRUE]
          /\ state' = [state EXCEPT !["client"] = "play"]
      BY <1>10, Zenon DEF OnSuccess
    <3>2. once' = [once EXCEPT !["client"] = (@ \ {"success"}) \union {}]
      BY <1>10, Zenon DEF OnSuccess, Disarm
    <3> QED BY <3>1, <3>2, Names DEF TypeOK
  <2>2. Playing'
    BY <1>2, <1>6, <2>1 DEF Compressed, Playing, Client, Idle, Unasked
  <2>3. LoggedIn' /\ Joined'
    BY <1>2, <1>5, <1>7, <1>10, ServerStays DEF LoggedIn
  <2>4. ToServer({})'
    BY <1>2, <1>5, <1>7, <1>10 DEF ToServer, frames
  <2>5. Dialogue'
    BY <1>5, <1>7, <2>2, <2>3, <2>4 DEF Dialogue
  <2>6. Told' /\ Count' /\ InGame' /\ CodecAgreement'
    BY <1>2, <1>5, <1>6, <1>7, <2>1, Exclusive, Names
       DEF Told, Count, TooLate, InGame, CodecAgreement
  <2> QED BY <1>8, <2>5, <2>6
<1> QED BY <1>9, <1>10

LEMMA FinishConfigurationStep ==
    ASSUME IInv, OnFinishConfiguration
    PROVE  IInv'
<1> USE DEF IInv
<1> DEFINE n == Head(inbox["client"]).name
           f == InConfiguration("finish_configuration")
           last == Encoded("finish_configuration", "configuration",
                           comp["client"], ciph["client"])
<1>1. inbox["client"] # <<>> /\ n = "finish_configuration"
  BY DEF OnFinishConfiguration, Handles, Hears
<1>2. /\ mode' = mode /\ comp' = comp /\ ciph' = ciph /\ out' = out
      /\ crypto' = crypto /\ verify' = verify /\ logged' = logged
      /\ ended' = ended /\ playerCount' = playerCount /\ misread' = misread
      /\ state'["client"] = "play" /\ state'["server"] = state["server"]
      /\ ingame'["client"] = TRUE /\ ingame'["server"] = ingame["server"]
      /\ once'["client"] = once["client"] \ {"finish_configuration"}
      /\ once'["server"] = once["server"]
  BY Names DEF TypeOK, OnFinishConfiguration, Disarm, streamVars
<1>3. <<last>> \in Seq(Frame)
  <2>1. comp["client"] \in BOOLEAN /\ ciph["client"] \in BOOLEAN
    BY Names DEF TypeOK
  <2>2. last \in Frame
    BY <2>1, Names, FrameType
  <2> QED BY <2>2
<1> Exchange("client", TRUE, <<last>>)
  BY Zenon DEF OnFinishConfiguration
<1> HIDE DEF last
<1>4. /\ inbox' \in [Peer -> Seq(Frame)] /\ inbox'["client"] = Tail(inbox["client"])
      /\ inbox'["server"] \in {inbox["server"], inbox["server"] \o <<last>>}
  BY <1>1, <1>3, ClientExchanges
<1>5. TypeOK'
  BY <1>4, Names DEF TypeOK, OnFinishConfiguration, Disarm, streamVars
<1>6. Configuring /\ Finishing /\ ToServer(Answers) /\ ToClient({})'
  BY <1>1, <1>2, <1>4, ClientHears
<1>7. last = f
  BY <1>6 DEF last, Configuring, Client, InConfiguration
<1>8. Playing' /\ Finishing'
  <2>1. Finishing'
    BY <1>2, <1>6, ServerStays
  <2>2. Playing'
    BY <1>2, <1>6 DEF Configuring, Playing, Client, Idle, Unasked
  <2> QED BY <2>1, <2>2
<1>9. ToServer(Answers \cup LastAnswers)'
  <2> DEFINE c == InConfiguration("custom_payload")
             s == InConfiguration("settings")
  <2>1. c \in Frame /\ s \in Frame /\ f \in Frame
    BY FrameNames
  <2>2. /\ <<>> \o <<f>> = <<f>> /\ <<s>> \o <<f>> = <<s, f>>
        /\ <<c, s>> \o <<f>> = <<c, s, f>>
    <3>1. <<>> \o <<f>> = <<f>>
      BY <1>3, <1>7, ConcatEmptySeq
    <3> QED BY <2>1, <3>1, Pairs
  <2>3. inbox["server"] \in {<<>>, <<s>>, <<c, s>>}
    BY <1>6 DEF ToServer, Answers
  <2>4. inbox'["server"] \in {<<>>} \cup Answers \cup LastAnswers
    BY <1>4, <1>7, <2>2, <2>3 DEF Answers, LastAnswers
  <2> QED BY <1>2, <2>4, SameFrames DEF ToServer
<1>10. Dialogue'
  BY <1>6, <1>8, <1>9 DEF Dialogue
<1>11. Told' /\ Count' /\ InGame' /\ CodecAgreement'
  BY <1>2, <1>6, Exclusive, Names DEF Told, Count, TooLate, InGame, CodecAgreement
<1> QED BY <1>5, <1>10, <1>11

-----------------------------------------------------------------------------
(* Ends of streams and sockets *)

LEMMA Quiet ==
    ASSUME IInv, mode' = mode, state' = state, comp' = comp, ciph' = ciph, once' = once,
           logged' = logged, ingame' = ingame,
           misread' \in {misread, misread \cup {<<"client", "disconnect">>}},
           crypto' \in {crypto, "idle"}, verify' \in {verify, "idle"},
           inbox'["server"] \in {inbox["server"], <<>>},
           out'["server"] => out["server"],
           ended["client"] => ended'["client"],
           \/ inbox'["client"] = inbox["client"]
           \/ inbox'["client"] = <<>> /\ (ended'["client"] \/ ~CanSend("server"))
           \/ /\ CanSend("server") /\ ~out'["server"]
              /\ \E d : Farewell(d) /\ inbox'["client"] = inbox["client"] \o <<d>>,
           \/ ended'["server"] = ended["server"] /\ playerCount' = playerCount
           \/ /\ ~ended["server"] /\ ended'["server"]
              /\ playerCount' = IF logged THEN playerCount - 1 ELSE playerCount
    PROVE  Dialogue' /\ Told' /\ Count' /\ InGame' /\ CodecAgreement'
<1> USE DEF IInv
<1>1. ASSUME NEW some \in SUBSET Seq(Frame), ToClient(some)
      PROVE  ToClient(some)'
  BY <1>1, ServerQuiet DEF CanSend
<1>2. ASSUME NEW some, ToServer(some)
      PROVE  ToServer(some)'
  BY <1>2 DEF ToServer
<1> DEFINE r == InConfiguration("registry_data")
           f == InConfiguration("finish_configuration")
<1>3. /\ Compress \in Frame /\ Clear("encryption_begin") \in Frame
      /\ InLogin("success") \in Frame /\ r \in Frame /\ f \in Frame
  BY FrameNames
<1>4. /\ {} \in SUBSET Seq(Frame)
      /\ {<<Clear("encryption_begin")>>} \in SUBSET Seq(Frame)
      /\ {<<InLogin("success")>>} \in SUBSET Seq(Frame)
      /\ {<<Compress, InLogin("success")>>} \in SUBSET Seq(Frame)
      /\ {<<r, f>>, <<f>>} \in SUBSET Seq(Frame)
  BY <1>3
<1>5. /\ ToClient({}) => ToClient({})'
      /\ ToClient({<<Clear("encryption_begin")>>})
            => ToClient({<<Clear("encryption_begin")>>})'
      /\ ToClient({<<InLogin("success")>>}) => ToClient({<<InLogin("success")>>})'
      /\ ToClient({<<Compress, InLogin("success")>>})
            => ToClient({<<Compress, InLogin("success")>>})'
      /\ ToClient({<<r, f>>, <<f>>}) => ToClient({<<r, f>>, <<f>>})'
  <2>1. ToClient({}) => ToClient({})'
    BY <1>1, <1>4
  <2>2. ToClient({<<Clear("encryption_begin")>>})
            => ToClient({<<Clear("encryption_begin")>>})'
    BY <1>1, <1>4, SameFrames DEF ToClient
  <2>3. ToClient({<<InLogin("success")>>}) => ToClient({<<InLogin("success")>>})'
    BY <1>1, <1>4, SameFrames DEF ToClient
  <2>4. ToClient({<<Compress, InLogin("success")>>})
            => ToClient({<<Compress, InLogin("success")>>})'
    BY <1>1, <1>4, SameFrames DEF ToClient
  <2>5. ToClient({<<r, f>>, <<f>>}) => ToClient({<<r, f>>, <<f>>})'
    <3>1. r' = r /\ f' = f
      BY SameFrames
    <3> HIDE DEF r, f
    <3>2. {<<r, f>>, <<f>>} \in SUBSET Seq(Frame)
      BY <1>4
    <3>3. \A some \in SUBSET Seq(Frame) : ToClient(some) => ToClient(some)'
      BY <1>1
    <3> QED BY <3>1, <3>2, <3>3 DEF ToClient
  <2> QED BY <2>1, <2>2, <2>3, <2>4, <2>5
<1>6. /\ ToServer({}) => ToServer({})'
      /\ ToServer({<<Hello, Clear("login_start")>>})
            => ToServer({<<Hello, Clear("login_start")>>})'
      /\ ToServer({<<Clear("login_start")>>}) => ToServer({<<Clear("login_start")>>})'
      /\ ToServer({<<Clear("encryption_begin")>>})
            => ToServer({<<Clear("encryption_begin")>>})'
      /\ ToServer({<<InLogin("login_acknowledged"), InConfiguration("custom_payload"),
                     InConfiguration("settings")>>})
            => ToServer({<<InLogin("login_acknowledged"), InConfiguration("custom_payload"),
                           InConfiguration("settings")>>})'
      /\ ToServer(Answers) => ToServer(Answers)'
      /\ ToServer(Answers \cup LastAnswers) => ToServer(Answers \cup LastAnswers)'
  BY <1>2, SameFrames DEF ToServer
<1>7. Dialogue'
  BY <1>5, <1>6, ClientStays, ServerStays DEF Dialogue
<1>8. inbox["client"] \in Seq(Frame)
  BY Names DEF TypeOK
<1>9. ASSUME NEW d, Farewell(d), inbox'["client"] = inbox["client"] \o <<d>>
      PROVE  /\ inbox'["client"] # <<>>
             /\ inbox["client"] # <<>> => Head(inbox'["client"]) = Head(inbox["client"])
  <2>1. d \in Frame
    BY <1>9, FarewellType
  <2> QED BY <1>8, <1>9, <2>1, Joins
<1>10. Told'
  BY <1>9, SameFrames DEF Told, CanSend
<1>11. Count'
  BY ClientStays, SameFrames DEF Count, TooLate, CanSend
<1> QED BY <1>7, <1>10, <1>11 DEF InGame, CodecAgreement

LEMMA ClientEnds ==
    ASSUME TypeOK, EndStream("client", FALSE)
    PROVE  /\ inbox' = inbox /\ out'["server"] = out["server"]
           /\ fin' \in [Peer -> BOOLEAN] /\ out' \in [Peer -> BOOLEAN]
           /\ closing' \in [Peer -> BOOLEAN]
<1>1. <<>> \in Seq(Frame)
  OBVIOUS
<1> Exchange("client", FALSE, <<>>)
  BY DEF EndStream, LastWords
<1>2. /\ inbox' \in [Peer -> Seq(Frame)] /\ inbox'["client"] = inbox["client"]
      /\ inbox'["server"] = inbox["server"]
  BY <1>1, ClientExchanges
<1>3. /\ out'["server"] = out["server"] /\ fin' \in [Peer -> BOOLEAN]
      /\ out' \in [Peer -> BOOLEAN] /\ closing' \in [Peer -> BOOLEAN]
  BY Names DEF TypeOK, EndStream, CanSend
<1> QED BY <1>2, <1>3, Names DEF TypeOK

LEMMA ServerEnds ==
    ASSUME TypeOK, Dialogue, NEW consumed \in BOOLEAN, consumed => inbox["server"] # <<>>,
           EndStream("server", consumed)
    PROVE  /\ inbox' \in [Peer -> Seq(Frame)] /\ fin' \in [Peer -> BOOLEAN]
           /\ out' \in [Peer -> BOOLEAN] /\ closing' \in [Peer -> BOOLEAN]
           /\ consumed => inbox'["server"] = Tail(inbox["server"])
           /\ ~consumed => inbox'["server"] = inbox["server"]
           /\ ~out'["server"]
           /\ \/ inbox'["client"] = inbox["client"]
              \/ /\ CanSend("server")
                 /\ \E d : Farewell(d) /\ inbox'["client"] = inbox["client"] \o <<d>>
<1>1. /\ ~out'["server"] /\ fin' \in [Peer -> BOOLEAN]
      /\ out' \in [Peer -> BOOLEAN] /\ closing' \in [Peer -> BOOLEAN]
  BY Names DEF TypeOK, EndStream, CanSend
<1>2. comp["server"] \in BOOLEAN /\ ciph["server"] \in BOOLEAN
  BY Names DEF TypeOK
<1>3. \/ LastWords("server") = <<>>
      \/ \E d : Farewell(d) /\ LastWords("server") = <<d>>
  <2>1. CASE state["server"] = "play"
    <3>1. comp["server"] = TRUE /\ ciph["server"] = mode.online
      BY <2>1, Exclusive DEF Dialogue, LoggedIn, Joined, Server
    <3>2. LastWords("server") = <<Kick>>
      BY <2>1, <3>1 DEF LastWords, Kick
    <3> QED BY <2>1, <3>2 DEF Farewell
  <2>2. CASE state["server"] = "login"
    <3> DEFINE d == Encoded("disconnect", "login", comp["server"], ciph["server"])
    <3>1. d \in Disconnects
      BY <1>2 DEF Disconnects
    <3>2. LastWords("server") = <<d>>
      BY <2>2 DEF LastWords
    <3> QED BY <3>1, <3>2 DEF Farewell
  <2>3. CASE state["server"] \notin {"play", "login"}
    BY <2>3 DEF LastWords
  <2> QED BY <2>1, <2>2, <2>3
<1>4. LastWords("server") \in Seq(Frame)
  <2>1. <<>> \in Seq(Frame)
    OBVIOUS
  <2>2. ASSUME NEW d, Farewell(d)
        PROVE  <<d>> \in Seq(Frame)
    <3>1. d \in Frame
      BY <2>2, FarewellType
    <3> QED BY <3>1
  <2> QED BY <1>3, <2>1, <2>2, Zenon
<1>5. Exchange("server", consumed, LastWords("server"))
  BY DEF EndStream
<1> DEFINE words == LastWords("server")
<1> HIDE DEF words
<1>6. /\ inbox' \in [Peer -> Seq(Frame)]
      /\ consumed => inbox'["server"] = Tail(inbox["server"])
      /\ ~consumed => inbox'["server"] = inbox["server"]
      /\ inbox'["client"] = IF CanSend("server") THEN inbox["client"] \o words
                                                 ELSE inbox["client"]
      /\ words = <<>> => inbox'["client"] = inbox["client"]
  BY <1>4, <1>5, ServerExchanges DEF words
<1>7. \/ inbox'["client"] = inbox["client"]
      \/ /\ CanSend("server")
         /\ \E d : Farewell(d) /\ inbox'["client"] = inbox["client"] \o <<d>>
  BY <1>3, <1>6 DEF words
<1> QED BY <1>1, <1>6, <1>7

LEMMA EncryptionFailsStep ==
    ASSUME IInv, EncryptionFails
    PROVE  IInv'
<1> USE DEF IInv
<1>1. /\ inbox' = inbox /\ out'["server"] = out["server"]
      /\ fin' \in [Peer -> BOOLEAN] /\ out' \in [Peer -> BOOLEAN]
      /\ closing' \in [Peer -> BOOLEAN]
  BY ClientEnds DEF EncryptionFails
<1>2. TypeOK'
  BY <1>1 DEF TypeOK, EncryptionFails, codecVars
<1>3. Dialogue' /\ Told' /\ Count' /\ InGame' /\ CodecAgreement'
  BY <1>1, Quiet DEF EncryptionFails, codecVars
<1> QED BY <1>2, <1>3

LEMMA HasNotJoinedStep ==
    ASSUME IInv, HasNotJoined
    PROVE  IInv'
<1> USE DEF IInv
<1>1. EndStream("server", FALSE)
  BY DEF HasNotJoined
<1>2. /\ inbox' \in [Peer -> Seq(Frame)] /\ fin' \in [Peer -> BOOLEAN]
      /\ out' \in [Peer -> BOOLEAN] /\ closing' \in [Peer -> BOOLEAN]
      /\ inbox'["server"] = inbox["server"]
      /\ ~out'["server"]
      /\ \/ inbox'["client"] = inbox["client"]
         \/ /\ CanSend("server")
            /\ \E d : Farewell(d) /\ inbox'["client"] = inbox["client"] \o <<d>>
  BY <1>1, ServerEnds
<1>3. TypeOK'
  BY <1>2 DEF TypeOK, HasNotJoined, codecVars
<1>4. Dialogue' /\ Told' /\ Count' /\ InGame' /\ CodecAgreement'
  BY <1>2, Quiet DEF HasNotJoined, codecVars
<1> QED BY <1>3, <1>4

LEMMA KickStep ==
    ASSUME IInv, KickForNotLoggingIn
    PROVE  IInv'
<1> USE DEF IInv
<1>1. EndStream("server", FALSE)
  BY DEF KickForNotLoggingIn
<1>2. /\ inbox' \in [Peer -> Seq(Frame)] /\ fin' \in [Peer -> BOOLEAN]
      /\ out' \in [Peer -> BOOLEAN] /\ closing' \in [Peer -> BOOLEAN]
      /\ inbox'["server"] = inbox["server"]
      /\ ~out'["server"]
      /\ \/ inbox'["client"] = inbox["client"]
         \/ /\ CanSend("server")
            /\ \E d : Farewell(d) /\ inbox'["client"] = inbox["client"] \o <<d>>
  BY <1>1, ServerEnds
<1>3. TypeOK'
  BY <1>2 DEF TypeOK, KickForNotLoggingIn, codecVars
<1>4. Dialogue' /\ Told' /\ Count' /\ InGame' /\ CodecAgreement'
  BY <1>2, Quiet DEF KickForNotLoggingIn, codecVars
<1> QED BY <1>3, <1>4

LEMMA UserEndsStep ==
    ASSUME IInv, NEW p \in Peer, UserEnds(p)
    PROVE  IInv'
<1> USE DEF IInv
<1>1. CASE p = "client"
  <2>1. /\ inbox' = inbox /\ out'["server"] = out["server"]
        /\ fin' \in [Peer -> BOOLEAN] /\ out' \in [Peer -> BOOLEAN]
        /\ closing' \in [Peer -> BOOLEAN]
    BY <1>1, ClientEnds DEF UserEnds
  <2>2. TypeOK'
    BY <2>1 DEF TypeOK, UserEnds, codecVars, loginVars
  <2>3. Dialogue' /\ Told' /\ Count' /\ InGame' /\ CodecAgreement'
    BY <2>1, Quiet DEF UserEnds, codecVars, loginVars
  <2> QED BY <2>2, <2>3
<1>2. CASE p = "server"
  <2>1. EndStream("server", FALSE)
    BY <1>2 DEF UserEnds
  <2>2. /\ inbox' \in [Peer -> Seq(Frame)] /\ fin' \in [Peer -> BOOLEAN]
        /\ out' \in [Peer -> BOOLEAN] /\ closing' \in [Peer -> BOOLEAN]
        /\ inbox'["server"] = inbox["server"]
        /\ ~out'["server"]
        /\ \/ inbox'["client"] = inbox["client"]
           \/ /\ CanSend("server")
              /\ \E d : Farewell(d) /\ inbox'["client"] = inbox["client"] \o <<d>>
    BY <2>1, ServerEnds
  <2>3. TypeOK'
    BY <2>2 DEF TypeOK, UserEnds, codecVars, loginVars
  <2>4. Dialogue' /\ Told' /\ Count' /\ InGame' /\ CodecAgreement'
    BY <2>2, Quiet DEF UserEnds, codecVars, loginVars
  <2> QED BY <2>3, <2>4
<1> QED BY <1>1, <1>2, Names

LEMMA EndSocketStep ==
    ASSUME IInv, NEW p \in Peer, ~ended[p], EndSocket(p)
    PROVE  IInv'
<1> USE DEF IInv
<1>1. /\ mode' = mode /\ state' = state /\ comp' = comp /\ ciph' = ciph /\ once' = once
      /\ out' = out /\ logged' = logged /\ ingame' = ingame /\ misread' = misread
      /\ crypto' = crypto /\ verify' = verify
      /\ inbox'[p] = <<>> /\ inbox'[Other(p)] = inbox[Other(p)]
      /\ ended'[p] = TRUE /\ ended'[Other(p)] = ended[Other(p)]
      /\ p = "client" => playerCount' = playerCount
      /\ p = "server" => playerCount' = IF logged THEN playerCount - 1 ELSE playerCount
  BY Names DEF TypeOK, EndSocket, codecVars
<1>2. p = "server" /\ logged => playerCount = 1
  BY DEF Count
<1>3. playerCount' \in Nat /\ kickTimer' \in BOOLEAN
  <2>1. playerCount' \in Nat
    BY <1>1, <1>2, Names DEF TypeOK
  <2>2. kickTimer' \in {kickTimer, FALSE}
    BY DEF EndSocket
  <2> QED BY <2>1, <2>2 DEF TypeOK
<1>4. /\ inbox' \in [Peer -> Seq(Frame)] /\ ended' \in [Peer -> BOOLEAN]
      /\ closing' \in [Peer -> BOOLEAN] /\ fin' \in [Peer -> BOOLEAN]
  <2>1. <<>> \in Seq(Frame) /\ (~ended[Other(p)]) \in BOOLEAN
    OBVIOUS
  <2>2. inbox' \in [Peer -> Seq(Frame)]
    BY <2>1 DEF TypeOK, EndSocket
  <2>3. ended' \in [Peer -> BOOLEAN] /\ closing' \in [Peer -> BOOLEAN]
    BY DEF TypeOK, EndSocket
  <2>4. fin' \in [Peer -> BOOLEAN]
    BY <2>1, Names DEF TypeOK, EndSocket
  <2> QED BY <2>2, <2>3, <2>4
<1>5. TypeOK'
  BY <1>1, <1>3, <1>4 DEF TypeOK
<1>6. Dialogue' /\ Told' /\ Count' /\ InGame' /\ CodecAgreement'
  <2>1. CASE p = "client"
    BY <1>1, <2>1, Quiet, Names
  <2>2. CASE p = "server"
    BY <1>1, <2>2, Quiet, Names
  <2> QED BY <2>1, <2>2, Names
<1> QED BY <1>5, <1>6

-----------------------------------------------------------------------------
(* Frames nobody waits for *)

LEMMA SkipClientStep ==
    ASSUME IInv, Skip("client")
    PROVE  IInv'
<1> USE DEF IInv
<1> DEFINE f == Head(inbox["client"])
           n == f.name
<1>1. /\ inbox["client"] # <<>> /\ ~ended["client"]
      /\ ~Readable("client", f) \/ n \notin once["client"]
      /\ misread' = IF Readable("client", f) THEN misread
                    ELSE misread \union {<<"client", n>>}
  BY Zenon DEF Skip
<1>2. <<>> \in Seq(Frame)
  OBVIOUS
<1> Exchange("client", TRUE, <<>>)
  BY DEF Skip
<1>3. /\ inbox' \in [Peer -> Seq(Frame)] /\ inbox'["client"] = Tail(inbox["client"])
      /\ inbox'["server"] = inbox["server"]
  BY <1>1, <1>2, ClientExchanges
<1>4. /\ mode' = mode /\ state' = state /\ comp' = comp /\ ciph' = ciph /\ once' = once
      /\ out' = out /\ closing' = closing /\ ended' = ended /\ fin' = fin
      /\ crypto' = crypto /\ verify' = verify /\ kickTimer' = kickTimer
      /\ logged' = logged /\ ingame' = ingame /\ playerCount' = playerCount
  BY DEF Skip, codecVars, streamVars, loginVars
<1>5. inbox["client"] \in Seq(Frame) /\ f \in Frame
  BY <1>1, Names DEF TypeOK
<1>6. TypeOK'
  <2>1. n \in PacketName
    BY <1>5 DEF Frame
  <2>2. misread' \in SUBSET (Peer \X PacketName)
    BY <1>1, <2>1, Names DEF TypeOK
  <2> QED BY <1>3, <1>4, <2>2 DEF TypeOK
<1> HIDE DEF f
<1>7. n \notin {"encryption_begin", "compress", "success", "finish_configuration"}
  <2>1. CASE n = "encryption_begin"
    <3>1. Asking /\ f = Clear("encryption_begin")
      BY <1>1, <1>3, <1>4, <2>1, ClientHears DEF f
    <3>2. /\ f.state = "login" /\ f.comp = FALSE /\ f.ciph = FALSE
      BY <3>1 DEF Clear, Encoded
    <3> QED BY <1>1, <2>1, <3>1, <3>2 DEF Readable, Asking, Client, Begins
  <2>2. CASE n = "compress"
    <3>1. Ready /\ f = Compress
      BY <1>1, <1>3, <1>4, <2>2, ClientHears DEF f
    <3>2. /\ f.state = "login" /\ f.comp = FALSE /\ f.ciph = mode.online
      BY <3>1 DEF Compress, Encoded
    <3>3. /\ state["client"] = "login" /\ comp["client"] = FALSE
          /\ ciph["client"] = mode.online /\ "compress" \in once["client"]
      BY <3>1, ModeType DEF Ready, Asking, Encrypted, Client, Begins
    <3> QED BY <1>1, <2>2, <3>2, <3>3 DEF Readable
  <2>3. CASE n = "success"
    <3>1. Compressed /\ f = InLogin("success")
      BY <1>1, <1>3, <1>4, <2>3, ClientHears DEF f
    <3>2. /\ f.state = "login" /\ f.comp = TRUE /\ f.ciph = mode.online
      BY <3>1 DEF InLogin, Encoded
    <3> QED BY <1>1, <2>3, <3>1, <3>2 DEF Readable, Compressed, Client
  <2>4. CASE n = "finish_configuration"
    <3>1. Configuring /\ f = InConfiguration("finish_configuration")
      BY <1>1, <1>3, <1>4, <2>4, ClientHears DEF f
    <3>2. /\ f.state = "configuration" /\ f.comp = TRUE /\ f.ciph = mode.online
      BY <3>1 DEF InConfiguration, Encoded
    <3> QED BY <1>1, <2>4, <3>1, <3>2 DEF Readable, Configuring, Client
  <2> QED BY <2>1, <2>2, <2>3, <2>4
<1>8. CASE n = "registry_data"
  <2>1. /\ Configuring /\ Finishing /\ ToServer(Answers)
        /\ ToClient({<<InConfiguration("finish_configuration")>>})'
        /\ f = InConfiguration("registry_data")
    BY <1>1, <1>3, <1>4, <1>8, ClientHears DEF f
  <2>2. misread' = misread
    <3>1. /\ f.state = "configuration" /\ f.comp = TRUE /\ f.ciph = mode.online
      BY <2>1 DEF InConfiguration, Encoded
    <3> QED BY <1>1, <2>1, <3>1 DEF Readable, Configuring, Client
  <2>3. Configuring' /\ Finishing' /\ ToServer(Answers)'
    BY <1>3, <1>4, <2>1, ClientStays, ServerStays, SameFrames DEF ToServer
  <2>4. ToClient({<<InConfiguration("registry_data"), InConfiguration("finish_configuration")>>,
                  <<InConfiguration("finish_configuration")>>})'
    BY <2>1 DEF ToClient
  <2>5. Dialogue'
    BY <2>3, <2>4 DEF Dialogue
  <2>6. Told' /\ Count' /\ InGame' /\ CodecAgreement'
    BY <1>4, <2>1, <2>2, Exclusive DEF Told, Count, TooLate, InGame, CodecAgreement
  <2> QED BY <1>6, <2>5, <2>6
<1>9. CASE n \in {"disconnect", "kick_disconnect"}
  <2>1. Farewell(f) /\ ~out["server"] /\ inbox'["client"] = <<>>
    BY <1>1, <1>3, <1>4, <1>9, ClientHears DEF f
  <2>2. misread' \in {misread, misread \cup {<<"client", "disconnect">>}}
    <3>1. CASE n = "kick_disconnect"
      <4>1. f = Kick /\ state["server"] = "play"
        BY <2>1, <3>1, FarewellType
      <4>2. state["client"] = "play"
        BY <1>1, <4>1 DEF Told, f
      <4>3. Playing
        BY <4>2, Exclusive DEF Dialogue
      <4>4. f.state = "play" /\ f.comp = TRUE /\ f.ciph = mode.online
        BY <4>1 DEF Kick, Encoded
      <4> QED BY <1>1, <4>3, <4>4 DEF Readable, Playing, Client
    <3>2. CASE n = "disconnect"
      BY <1>1, <3>2
    <3> QED BY <1>9, <3>1, <3>2
  <2>3. Dialogue' /\ Told' /\ Count' /\ InGame' /\ CodecAgreement'
    BY <1>3, <1>4, <2>1, <2>2, Quiet DEF CanSend
  <2> QED BY <1>6, <2>3
<1>10. n \in {"encryption_begin", "compress", "success", "registry_data",
              "finish_configuration", "disconnect", "kick_disconnect"}
  BY <1>1, <1>3, <1>4, ClientHears DEF f
<1> QED BY <1>7, <1>8, <1>9, <1>10

LEMMA SkipServerStep ==
    ASSUME IInv, Skip("server")
    PROVE  IInv'
<1> USE DEF IInv
<1> DEFINE f == Head(inbox["server"])
           n == f.name
<1>1. /\ inbox["server"] # <<>> /\ ~ended["server"]
      /\ ~Readable("server", f) \/ n \notin once["server"]
      /\ misread' = IF Readable("server", f) THEN misread
                    ELSE misread \union {<<"server", n>>}
  BY Zenon DEF Skip
<1>2. <<>> \in Seq(Frame)
  OBVIOUS
<1> Exchange("server", TRUE, <<>>)
  BY DEF Skip
<1>3. /\ inbox' \in [Peer -> Seq(Frame)] /\ inbox'["server"] = Tail(inbox["server"])
      /\ inbox'["client"] = inbox["client"]
  BY <1>1, <1>2, ServerExchanges
<1>4. /\ mode' = mode /\ state' = state /\ comp' = comp /\ ciph' = ciph /\ once' = once
      /\ out' = out /\ closing' = closing /\ ended' = ended /\ fin' = fin
      /\ crypto' = crypto /\ verify' = verify /\ kickTimer' = kickTimer
      /\ logged' = logged /\ ingame' = ingame /\ playerCount' = playerCount
  BY DEF Skip, codecVars, streamVars, loginVars
<1>5. inbox["server"] \in Seq(Frame) /\ f \in Frame
  BY <1>1, Names DEF TypeOK
<1>6. TypeOK'
  <2>1. n \in PacketName
    BY <1>5 DEF Frame
  <2>2. misread' \in SUBSET (Peer \X PacketName)
    BY <1>1, <2>1, Names DEF TypeOK
  <2> QED BY <1>3, <1>4, <2>2 DEF TypeOK
<1> DEFINE c == InConfiguration("custom_payload")
           s == InConfiguration("settings")
           e == InConfiguration("finish_configuration")
<1>7. /\ c \in Frame /\ s \in Frame /\ e \in Frame
      /\ c.name = "custom_payload" /\ s.name = "settings" /\ e.name = "finish_configuration"
  BY FrameNames
<1>8. /\ Hello \in Frame /\ Clear("login_start") \in Frame
      /\ Clear("encryption_begin") \in Frame /\ InLogin("login_acknowledged") \in Frame
  BY FrameNames
<1>9. n \notin {"set_protocol", "login_start", "encryption_begin", "login_acknowledged",
                "finish_configuration"}
  <2>1. CASE n = "set_protocol"
    <3>1. Listening /\ f = Hello
      BY <1>1, <1>8, <2>1, ServerHears
    <3>2. /\ f.state = "handshaking" /\ f.comp = FALSE /\ f.ciph = FALSE
      BY <3>1 DEF Hello, Encoded
    <3> HIDE DEF f
    <3> QED BY <1>1, <2>1, <3>1, <3>2 DEF Readable, Listening, Server
  <2>2. CASE n = "login_start"
    <3>1. Awaiting /\ f = Clear("login_start")
      BY <1>1, <1>8, <2>2, ServerHears
    <3>2. /\ f.state = "login" /\ f.comp = FALSE /\ f.ciph = FALSE
      BY <3>1 DEF Clear, Encoded
    <3> HIDE DEF f
    <3> QED BY <1>1, <2>2, <3>1, <3>2 DEF Readable, Awaiting, Server
  <2>3. CASE n = "encryption_begin"
    <3>1. Challenged /\ f = Clear("encryption_begin")
      BY <1>1, <1>8, <2>3, ServerHears
    <3>2. /\ f.state = "login" /\ f.comp = FALSE /\ f.ciph = FALSE
      BY <3>1 DEF Clear, Encoded
    <3> HIDE DEF f
    <3> QED BY <1>1, <2>3, <3>1, <3>2 DEF Readable, Challenged, Server
  <2>4. CASE n = "login_acknowledged"
    <3>1. Acknowledging /\ f = InLogin("login_acknowledged")
      BY <1>1, <1>7, <1>8, <2>4, ServerHears
    <3>2. /\ f.state = "login" /\ f.comp = TRUE /\ f.ciph = mode.online
      BY <3>1 DEF InLogin, Encoded
    <3> HIDE DEF f
    <3> QED BY <1>1, <2>4, <3>1, <3>2 DEF Readable, Acknowledging, Server
  <2>5. CASE n = "finish_configuration"
    <3>1. Finishing /\ f = e
      BY <1>1, <1>7, <2>5, ServerHears
    <3>2. /\ f.state = "configuration" /\ f.comp = TRUE /\ f.ciph = mode.online
      BY <3>1 DEF InConfiguration, Encoded
    <3> HIDE DEF f
    <3> QED BY <1>1, <2>5, <3>1, <3>2 DEF Readable, Finishing, Server
  <2> QED BY <2>1, <2>2, <2>3, <2>4, <2>5
<1>10. n \in {"custom_payload", "settings"}
  BY <1>1, <1>9, ServerHears
<1>11. /\ (Configuring \/ Playing) /\ Finishing
       /\ inbox["server"] \in Answers \cup LastAnswers
  BY <1>1, <1>10, ServerHears
<1>12. f \in {c, s}
  <2>1. /\ inbox["server"] \in {<<c, s>>, <<s>>, <<c, s, e>>, <<s, e>>, <<e>>}
    BY <1>11 DEF Answers, LastAnswers
  <2>2. inbox["server"] # <<e>>
    BY <1>7, <1>10
  <2> HIDE DEF c, s, e
  <2> QED BY <1>7, <2>1, <2>2
<1>13. misread' = misread
  <2>1. /\ f.state = "configuration" /\ f.comp = TRUE /\ f.ciph = mode.online
    BY <1>12 DEF InConfiguration, Encoded
  <2> HIDE DEF f
  <2> QED BY <1>1, <1>11, <2>1 DEF Readable, Finishing, Server
<1>14. /\ inbox["server"] \in Answers => inbox'["server"] \in {<<>>} \cup Answers
       /\ inbox'["server"] \in {<<>>} \cup Answers \cup LastAnswers
  <2>1. /\ Tail(<<c, s>>) = <<s>> /\ Tail(<<s>>) = <<>> /\ Tail(<<s, e>>) = <<e>>
        /\ Tail(<<c, s, e>>) = <<s, e>> /\ Tail(<<e>>) = <<>>
    BY <1>7, Pairs
  <2>2. inbox["server"] \in Answers => inbox["server"] \in {<<c, s>>, <<s>>}
    BY DEF Answers
  <2>3. inbox["server"] \in LastAnswers =>
            inbox["server"] \in {<<c, s, e>>, <<s, e>>, <<e>>}
    BY DEF LastAnswers
  <2>4. {<<s>>} \subseteq Answers /\ {<<s, e>>, <<e>>} \subseteq LastAnswers
    BY DEF Answers, LastAnswers
  <2> HIDE DEF c, s, e
  <2> QED BY <1>3, <1>11, <2>1, <2>2, <2>3, <2>4
<1>15. ToClient({})' \/ ~ToClient({})
  <2>1. {} \in SUBSET Seq(Frame)
    OBVIOUS
  <2> QED BY <1>3, <1>4, <2>1, ServerQuiet
<1>16. Dialogue'
  <2>1. CASE Configuring
    <3> DEFINE more == {<<InConfiguration("registry_data"), e>>, <<e>>}
    <3>1. ToServer(Answers) /\ ToClient(more)
      BY <1>11, <2>1, Exclusive DEF Dialogue
    <3>2. more \in SUBSET Seq(Frame)
      BY <1>7, FrameNames
    <3>3. ToClient(more)'
      <4>1. more' = more
        BY <1>4, SameFrames
      <4> HIDE DEF more
      <4>2. \A some \in SUBSET Seq(Frame) : ToClient(some) => ToClient(some)'
        BY <1>3, <1>4, ServerQuiet
      <4> QED BY <3>1, <3>2, <4>1, <4>2 DEF ToClient
    <3>4. ToServer(Answers)'
      <4>1. inbox["server"] \in Answers
        BY <1>1, <3>1 DEF ToServer
      <4> QED BY <1>4, <1>14, <4>1, SameFrames DEF ToServer
    <3>5. Configuring' /\ Finishing'
      BY <1>4, <1>11, <2>1, ClientStays, ServerStays
    <3> QED BY <3>3, <3>4, <3>5 DEF Dialogue
  <2>2. CASE Playing
    <3>1. ToClient({})
      BY <1>11, <2>2, Exclusive DEF Dialogue
    <3>2. ToServer(Answers \cup LastAnswers)'
      BY <1>4, <1>14, SameFrames DEF ToServer
    <3>3. Playing' /\ Finishing'
      BY <1>4, <1>11, <2>2, ClientStays, ServerStays
    <3> QED BY <1>15, <3>1, <3>2, <3>3 DEF Dialogue
  <2> QED BY <1>11, <2>1, <2>2
<1>17. Told' /\ Count' /\ InGame' /\ CodecAgreement'
  BY <1>3, <1>4, <1>11, <1>13, Exclusive DEF Told, Count, TooLate, InGame, CodecAgreement
<1> QED BY <1>6, <1>16, <1>17

-----------------------------------------------------------------------------
(* The steps of the server *)

LEMMA HandshakeStep ==
    ASSUME IInv, OnHandshake
    PROVE  IInv'
<1> USE DEF IInv
<1>1. inbox["server"] # <<>> /\ Head(inbox["server"]).name = "set_protocol"
  BY DEF OnHandshake, Handles, Hears
<1>2. /\ Asking /\ Listening /\ ToClient({})
      /\ inbox["server"] = <<Hello, Clear("login_start")>>
  BY <1>1, ServerHears
<1>3. /\ mode' = mode /\ comp' = comp /\ ciph' = ciph /\ out' = out
      /\ crypto' = crypto /\ verify' = verify /\ logged' = logged
      /\ ended' = ended /\ playerCount' = playerCount /\ ingame' = ingame
      /\ misread' = misread
      /\ state'["server"] = "login" /\ state'["client"] = state["client"]
      /\ once'["server"] = once["server"] \ {"set_protocol"}
      /\ once'["client"] = once["client"]
  BY Names DEF TypeOK, OnHandshake, Disarm, loginVars
<1>4. <<>> \in Seq(Frame) /\ Tail(<<Hello, Clear("login_start")>>) = <<Clear("login_start")>>
  BY FrameNames
<1> Exchange("server", TRUE, <<>>)
  BY Zenon DEF OnHandshake
<1>5. /\ inbox' \in [Peer -> Seq(Frame)] /\ inbox'["server"] = <<Clear("login_start")>>
      /\ inbox'["client"] = inbox["client"]
      /\ inbox'["client"] = IF CanSend("server") THEN inbox["client"] \o <<>>
                                                 ELSE inbox["client"]
  BY <1>1, <1>2, <1>4, ServerExchanges
<1>6. TypeOK'
  <2>1. closing' \in [Peer -> BOOLEAN]
    BY ModeType, Names DEF TypeOK, OnHandshake
  <2>2. /\ state' \in [Peer -> State] /\ once' \in [Peer -> SUBSET PacketName]
    BY Names DEF TypeOK, OnHandshake, Disarm
  <2> QED BY <1>5, <2>1, <2>2 DEF TypeOK, OnHandshake, loginVars
<1>7. ToClient({})'
  <2>1. ToClient({<<>>})'
    BY <1>2, <1>3, <1>4, <1>5, ServerWrites, Exclusive
  <2> QED BY <2>1 DEF ToClient
<1>8. Asking' /\ Awaiting'
  BY <1>2, <1>3, ClientStays DEF Listening, Awaiting, Server, Unverified
<1>9. ToServer({<<Clear("login_start")>>})'
  BY <1>3, <1>5, SameFrames DEF ToServer
<1>10. Dialogue'
  BY <1>7, <1>8, <1>9 DEF Dialogue
<1>11. Told' /\ Count' /\ InGame' /\ CodecAgreement'
  BY <1>2, <1>3, Exclusive, Names DEF Told, Count, TooLate, InGame, CodecAgreement
<1> QED BY <1>6, <1>10, <1>11

LEMMA VerifyStep ==
    ASSUME IInv, OnLoginVerify
    PROVE  IInv'
<1> USE DEF IInv
<1>1. /\ inbox["server"] # <<>> /\ Head(inbox["server"]).name = "login_start"
      /\ mode.online
  BY DEF OnLoginVerify, Handles, Hears
<1>2. /\ Asking /\ Awaiting /\ ToClient({})
      /\ inbox["server"] = <<Clear("login_start")>>
  BY <1>1, ServerHears
<1>3. /\ mode' = mode /\ state' = state /\ comp' = comp /\ ciph' = ciph /\ out' = out
      /\ crypto' = crypto /\ verify' = verify /\ logged' = logged
      /\ ended' = ended /\ playerCount' = playerCount /\ ingame' = ingame
      /\ misread' = misread
      /\ once'["server"] = (once["server"] \ {"login_start"}) \cup {"encryption_begin"}
      /\ once'["client"] = once["client"]
  BY Names DEF TypeOK, OnLoginVerify, Disarm, codecVars, streamVars, loginVars
<1> DEFINE frames == <<Clear("encryption_begin")>>
<1>4. /\ frames \in Seq(Frame) /\ Tail(<<Clear("login_start")>>) = <<>>
  BY FrameNames
<1>5. Exchange("server", TRUE, frames)
  <2>1. state["server"] = "login" /\ comp["server"] = FALSE /\ ciph["server"] = FALSE
    BY <1>2 DEF Awaiting, Server
  <2> QED BY <2>1, Zenon DEF OnLoginVerify, Clear
<1>6. /\ inbox' \in [Peer -> Seq(Frame)] /\ inbox'["server"] = <<>>
      /\ inbox'["client"] = IF CanSend("server") THEN inbox["client"] \o frames
                                                 ELSE inbox["client"]
  <2> HIDE DEF frames
  <2> QED BY <1>1, <1>2, <1>4, <1>5, ServerExchanges
<1>7. TypeOK'
  BY <1>6, Names DEF TypeOK, OnLoginVerify, Disarm, codecVars, streamVars, loginVars
<1>8. ToClient({frames})'
  <2>1. frames' = frames
    BY <1>3, SameFrames
  <2> HIDE DEF frames
  <2>2. \A fs : fs = frames => ToClient({fs})'
    BY <1>2, <1>3, <1>4, <1>6, ServerWrites
  <2> QED BY <2>1, <2>2 DEF ToClient
<1>9. Asking' /\ Challenged' /\ ToServer({})'
  BY <1>1, <1>2, <1>3, <1>6, ClientStays
     DEF Awaiting, Challenged, Server, Unverified, ToServer
<1>10. Dialogue'
  BY <1>8, <1>9 DEF Dialogue
<1>11. Told' /\ Count' /\ InGame' /\ CodecAgreement'
  BY <1>2, <1>3, Exclusive, Names DEF Told, Count, TooLate, InGame, CodecAgreement
<1> QED BY <1>7, <1>10, <1>11

LEMMA KeyResponseStep ==
    ASSUME IInv, OnEncryptionKeyResponse
    PROVE  IInv'
<1> USE DEF IInv
<1>1. inbox["server"] # <<>> /\ Head(inbox["server"]).name = "encryption_begin"
  BY DEF OnEncryptionKeyResponse, Handles, Hears
<1>2. /\ Encrypted /\ Challenged /\ ToClient({})
      /\ inbox["server"] = <<Clear("encryption_begin")>>
  BY <1>1, ServerHears
<1>3. /\ mode' = mode /\ state' = state /\ comp' = comp /\ out' = out
      /\ ciph'["server"] = TRUE /\ ciph'["client"] = ciph["client"]
      /\ crypto' = crypto /\ verify' = "pending" /\ logged' = logged
      /\ ended' = ended /\ playerCount' = playerCount /\ ingame' = ingame
      /\ misread' = misread
      /\ once'["server"] = once["server"] \ {"encryption_begin"}
      /\ once'["client"] = once["client"]
  BY Names DEF TypeOK, OnEncryptionKeyResponse, Disarm, streamVars
<1>4. <<>> \in Seq(Frame) /\ Tail(<<Clear("encryption_begin")>>) = <<>>
  BY FrameNames
<1> Exchange("server", TRUE, <<>>)
  BY Zenon DEF OnEncryptionKeyResponse
<1>5. /\ inbox' \in [Peer -> Seq(Frame)] /\ inbox'["server"] = <<>>
      /\ inbox'["client"] = inbox["client"]
  BY <1>1, <1>2, <1>4, ServerExchanges
<1>6. TypeOK'
  BY <1>5, Names DEF TypeOK, OnEncryptionKeyResponse, Disarm, streamVars
<1>7. ToClient({})'
  <2>1. {} \in SUBSET Seq(Frame)
    OBVIOUS
  <2> QED BY <1>2, <1>3, <1>5, <2>1, ServerQuiet
<1>8. Encrypted' /\ Verifying' /\ ToServer({})'
  BY <1>2, <1>3, <1>5, ClientStays
     DEF Challenged, Verifying, Server, Unverified, ToServer
<1>9. Dialogue'
  BY <1>7, <1>8 DEF Dialogue
<1>10. Told' /\ Count' /\ InGame' /\ CodecAgreement'
  BY <1>2, <1>3, Exclusive, Names DEF Told, Count, TooLate, InGame, CodecAgreement
<1> QED BY <1>6, <1>9, <1>10

LEMMA RefuseStep ==
    ASSUME IInv, Refuse
    PROVE  IInv'
<1> USE DEF IInv
<1>1. PICK n \in {"login_start", "encryption_begin"} :
          /\ Handles("server", n) /\ Disarm("server", n, {})
  BY Zenon DEF Refuse
<1>2. inbox["server"] # <<>> /\ Head(inbox["server"]).name = n
  BY <1>1 DEF Handles, Hears
<1>3. /\ ToClient({}) /\ Tail(inbox["server"]) = <<>>
      /\ \/ n = "login_start" /\ Asking /\ Awaiting
         \/ n = "encryption_begin" /\ Encrypted /\ Challenged
  <2>1. Tail(<<Clear("login_start")>>) = <<>> /\ Tail(<<Clear("encryption_begin")>>) = <<>>
    OBVIOUS
  <2> QED BY <1>2, <2>1, ServerHears
<1>4. /\ mode' = mode /\ state' = state /\ comp' = comp /\ ciph' = ciph
      /\ crypto' = crypto /\ verify' = verify /\ kickTimer' = kickTimer
      /\ logged' = logged /\ ended' = ended /\ playerCount' = playerCount
      /\ ingame' = ingame /\ misread' = misread
      /\ once'["server"] = once["server"] \ {n}
      /\ once'["client"] = once["client"]
      /\ once' \in [Peer -> SUBSET PacketName]
  BY <1>1, Names DEF TypeOK, Refuse, Disarm, codecVars, loginVars
<1>5. EndStream("server", TRUE)
  BY DEF Refuse
<1>6. /\ inbox' \in [Peer -> Seq(Frame)] /\ fin' \in [Peer -> BOOLEAN]
      /\ out' \in [Peer -> BOOLEAN] /\ closing' \in [Peer -> BOOLEAN]
      /\ inbox'["server"] = <<>>
      /\ ~out'["server"]
      /\ \/ inbox'["client"] = inbox["client"]
         \/ /\ CanSend("server")
            /\ \E d : Farewell(d) /\ inbox'["client"] = inbox["client"] \o <<d>>
  BY <1>2, <1>3, <1>5, ServerEnds
<1>7. TypeOK'
  BY <1>4, <1>6 DEF TypeOK
<1>8. ToClient({})'
  <2>1. {} \in SUBSET Seq(Frame)
    OBVIOUS
  <2> QED BY <1>3, <1>4, <1>6, <2>1, ServerQuiet DEF CanSend
<1>9. TurnedAway' /\ ToServer({})'
  BY <1>3, <1>4, <1>6 DEF Awaiting, Challenged, TurnedAway, Server, Unverified, ToServer
<1>10. Dialogue'
  BY <1>3, <1>4, <1>8, <1>9, ClientStays DEF Dialogue
<1>11. Told' /\ Count' /\ InGame' /\ CodecAgreement'
  BY <1>3, <1>4, Exclusive, Names DEF Told, Count, TooLate, InGame, CodecAgreement
<1> QED BY <1>7, <1>10, <1>11

LEMMA LoginAckStep ==
    ASSUME IInv, OnClientLoginAck
    PROVE  IInv'
<1> USE DEF IInv
<1> DEFINE r == InConfiguration("registry_data")
           e == InConfiguration("finish_configuration")
           c == InConfiguration("custom_payload")
           s == InConfiguration("settings")
<1>1. inbox["server"] # <<>> /\ Head(inbox["server"]).name = "login_acknowledged"
  BY DEF OnClientLoginAck, Handles, Hears
<1>2. /\ Configuring /\ Acknowledging /\ ToClient({})
      /\ inbox["server"] = <<InLogin("login_acknowledged"), c, s>>
  BY <1>1, ServerHears
<1>3. /\ mode' = mode /\ comp' = comp /\ ciph' = ciph /\ out' = out
      /\ crypto' = crypto /\ verify' = verify /\ logged' = logged
      /\ ended' = ended /\ playerCount' = playerCount /\ ingame' = ingame
      /\ misread' = misread
      /\ state'["server"] = "configuration" /\ state'["client"] = state["client"]
      /\ once'["server"]
           = (once["server"] \ {"login_acknowledged"}) \cup {"finish_configuration"}
      /\ once'["client"] = once["client"]
  BY Names DEF TypeOK, OnClientLoginAck, Disarm, streamVars, loginVars
<1> DEFINE frames == <<r, e>>
<1>4. frames \in Seq(Frame) /\ Tail(inbox["server"]) = <<c, s>>
  BY <1>2, FrameNames, Pairs
<1>5. Exchange("server", TRUE, frames)
  <2>1. comp["server"] = TRUE /\ ciph["server"] = mode.online
    BY <1>2 DEF Acknowledging, Server
  <2> QED BY <2>1, Zenon DEF OnClientLoginAck, InConfiguration
<1>6. /\ inbox' \in [Peer -> Seq(Frame)] /\ inbox'["server"] = <<c, s>>
      /\ inbox'["client"] = IF CanSend("server") THEN inbox["client"] \o frames
                                                 ELSE inbox["client"]
  <2> HIDE DEF frames, c, s
  <2> QED BY <1>1, <1>4, <1>5, ServerExchanges
<1>7. TypeOK'
  BY <1>6, Names DEF TypeOK, OnClientLoginAck, Disarm, streamVars, loginVars
<1>8. ToClient({<<r, e>>, <<e>>})'
  <2>1. frames' = frames
    BY <1>3, SameFrames
  <2> HIDE DEF frames
  <2>2. \A fs : fs = frames => ToClient({fs})'
    BY <1>2, <1>3, <1>4, <1>6, ServerWrites, Exclusive
  <2>3. ToClient({frames})'
    BY <2>1, <2>2 DEF ToClient
  <2> QED BY <2>3 DEF ToClient, frames
<1>9. Configuring' /\ Finishing' /\ ToServer(Answers)'
  <2>1. Configuring' /\ Finishing'
    BY <1>2, <1>3, ClientStays DEF Acknowledging, Finishing, Server, Counted
  <2>2. <<c, s>> \in Answers
    BY DEF Answers
  <2> QED BY <1>3, <1>6, <2>1, <2>2, SameFrames DEF ToServer
<1>10. Dialogue'
  BY <1>8, <1>9 DEF Dialogue
<1>11. Told' /\ Count' /\ InGame' /\ CodecAgreement'
  BY <1>2, <1>3, Exclusive, Names DEF Told, Count, TooLate, InGame, CodecAgreement
<1> QED BY <1>7, <1>10, <1>11

LEMMA ConfigurationFinishedStep ==
    ASSUME IInv, OnConfigurationFinished
    PROVE  IInv'
<1> USE DEF IInv
<1>1. inbox["server"] # <<>> /\ Head(inbox["server"]).name = "finish_configuration"
  BY DEF OnConfigurationFinished, Handles, Hears
<1>2. /\ Playing /\ Finishing /\ ToClient({})
      /\ inbox["server"] = <<InConfiguration("finish_configuration")>>
  BY <1>1, ServerHears
<1>3. /\ mode' = mode /\ comp' = comp /\ ciph' = ciph /\ out' = out
      /\ crypto' = crypto /\ verify' = verify /\ logged' = logged
      /\ ended' = ended /\ playerCount' = playerCount /\ misread' = misread
      /\ state'["server"] = "play" /\ state'["client"] = state["client"]
      /\ ingame'["server"] = TRUE /\ ingame'["client"] = ingame["client"]
      /\ once'["server"] = once["server"] \ {"finish_configuration"}
      /\ once'["client"] = once["client"]
  BY Names DEF TypeOK, OnConfigurationFinished, Disarm, streamVars
<1>4. <<>> \in Seq(Frame) /\ Tail(<<InConfiguration("finish_configuration")>>) = <<>>
  OBVIOUS
<1> Exchange("server", TRUE, <<>>)
  BY Zenon DEF OnConfigurationFinished
<1>5. /\ inbox' \in [Peer -> Seq(Frame)] /\ inbox'["server"] = <<>>
      /\ inbox'["client"] = inbox["client"]
      /\ inbox'["client"] = IF CanSend("server") THEN inbox["client"] \o <<>>
                                                 ELSE inbox["client"]
  BY <1>1, <1>2, <1>4, ServerExchanges
<1>6. TypeOK'
  BY <1>5, Names DEF TypeOK, OnConfigurationFinished, Disarm, streamVars
<1>7. ToClient({})'
  <2>1. ToClient({<<>>})'
    BY <1>2, <1>3, <1>4, <1>5, ServerWrites
  <2> QED BY <2>1 DEF ToClient
<1>8. Playing' /\ Joined' /\ ToServer({})'
  BY <1>2, <1>3, <1>5, ClientStays DEF Finishing, Joined, Server, Counted, ToServer
<1>9. Dialogue'
  BY <1>7, <1>8 DEF Dialogue
<1>10. Told' /\ Count' /\ InGame' /\ CodecAgreement'
  BY <1>2, <1>3, Exclusive, Names DEF Told, Count, TooLate, InGame, CodecAgreement
<1> QED BY <1>6, <1>9, <1>10

(***************************************************************************)
(* The login itself.  The session server may answer behind the end: then   *)
(* nothing is written, and the player is counted too late.                 *)
(***************************************************************************)
LEMMA LoginClientStep ==
    ASSUME IInv, NEW consumed \in BOOLEAN, NEW handled,
           Ready, ToClient({}), ~logged, state["server"] = "login",
           comp["server"] = FALSE, ciph["server"] = mode.online,
           once["server"] \ {handled} = {},
           consumed => /\ inbox["server"] # <<>> /\ Tail(inbox["server"]) = <<>>
                       /\ ~ended["server"],
           ~consumed => inbox["server"] = <<>>,
           LoginClient(consumed, handled), verify' = "idle",
           UNCHANGED <<mode, ciph, streamVars, crypto, misread>>
    PROVE  IInv'
<1> USE DEF IInv
<1>1. /\ mode' = mode /\ ciph' = ciph /\ out' = out /\ ended' = ended
      /\ crypto' = crypto /\ misread' = misread
      /\ logged' = TRUE /\ playerCount' = 1
      /\ comp'["server"] = TRUE /\ comp'["client"] = comp["client"]
      /\ ingame'["server"] = (ingame["server"] \/ ~mode.config)
      /\ ingame'["client"] = ingame["client"]
      /\ once'["server"] = IF mode.config THEN {"login_acknowledged"} ELSE {}
      /\ once'["client"] = once["client"]
      /\ state'["server"] = IF mode.config THEN "login" ELSE "play"
      /\ state'["client"] = state["client"]
  <2>1. playerCount' = 1
    BY DEF LoginClient, Count, TypeOK
  <2>2. once' = [once EXCEPT !["server"] = IF mode.config THEN {"login_acknowledged"} ELSE {}]
    BY DEF LoginClient, Disarm
  <2>3. /\ once'["server"] = IF mode.config THEN {"login_acknowledged"} ELSE {}
        /\ once'["client"] = once["client"]
    BY <2>2, Names DEF TypeOK
  <2>4. /\ ingame'["server"] = (ingame["server"] \/ ~mode.config)
        /\ ingame'["client"] = ingame["client"]
    BY Names DEF TypeOK, LoginClient
  <2>5. /\ state'["server"] = IF mode.config THEN "login" ELSE "play"
        /\ state'["client"] = state["client"]
    BY Names DEF TypeOK, LoginClient
  <2>6. comp'["server"] = TRUE /\ comp'["client"] = comp["client"]
    BY Names DEF TypeOK, LoginClient
  <2> QED BY <2>1, <2>3, <2>4, <2>5, <2>6 DEF LoginClient, streamVars
<1> DEFINE frames == <<Compress, InLogin("success")>>
<1>2. frames \in Seq(Frame) /\ Head(frames) = Compress /\ frames # <<>>
  BY FrameNames
<1>3. Exchange("server", consumed, frames)
  <2>1. ciph'["server"] = mode.online
    BY <1>1
  <2> QED BY <2>1, Zenon DEF LoginClient, Compress, InLogin
<1>4. /\ inbox' \in [Peer -> Seq(Frame)] /\ inbox'["server"] = <<>>
      /\ inbox'["client"] = IF CanSend("server") THEN inbox["client"] \o frames
                                                 ELSE inbox["client"]
  <2> HIDE DEF frames
  <2>1. consumed => inbox["server"] # <<>>
    OBVIOUS
  <2>2. /\ inbox' \in [Peer -> Seq(Frame)]
        /\ consumed => inbox'["server"] = Tail(inbox["server"])
        /\ ~consumed => inbox'["server"] = inbox["server"]
        /\ inbox'["client"] = IF CanSend("server") THEN inbox["client"] \o frames
                                                   ELSE inbox["client"]
    BY <1>2, <1>3, <2>1, ServerExchanges
  <2>3. CASE consumed
    BY <2>2, <2>3
  <2>4. CASE ~consumed
    BY <2>2, <2>4
  <2> QED BY <2>3, <2>4
<1>5. TypeOK'
  <2>1. /\ comp' \in [Peer -> BOOLEAN] /\ state' \in [Peer -> State]
        /\ ingame' \in [Peer -> BOOLEAN]
    <3>1. (ingame["server"] \/ ~mode.config) \in BOOLEAN
      OBVIOUS
    <3>2. ingame' = [ingame EXCEPT !["server"] = ingame["server"] \/ ~mode.config]
      BY DEF LoginClient
    <3>3. ingame' \in [Peer -> BOOLEAN]
      BY <3>1, <3>2 DEF TypeOK
    <3> QED BY <3>3, Names DEF TypeOK, LoginClient
  <2>2. once' \in [Peer -> SUBSET PacketName]
    <3>1. once' = [once EXCEPT !["server"]
                      = IF mode.config THEN {"login_acknowledged"} ELSE {}]
      BY DEF LoginClient, Disarm
    <3> QED BY <3>1, Names DEF TypeOK
  <2>3. /\ kickTimer' = FALSE /\ closing' = closing /\ fin' = fin
    BY DEF LoginClient, streamVars
  <2>4. playerCount' \in Nat /\ logged' \in BOOLEAN /\ verify' \in {"idle", "pending"}
    BY <1>1
  <2> HIDE DEF frames
  <2> QED BY <1>1, <1>4, <2>1, <2>2, <2>3, <2>4 DEF TypeOK
<1>6. /\ ToClient({frames})'
      /\ CanSend("server") => inbox'["client"] = frames
      /\ ~CanSend("server") => inbox'["client"] = inbox["client"]
      /\ inbox["client"] # <<>> => Farewell(Head(inbox["client"]))
  <2>1. frames' = frames
    BY <1>1, SameFrames
  <2> HIDE DEF frames
  <2>2. \A fs : fs = frames =>
            /\ ToClient({fs})'
            /\ CanSend("server") => inbox'["client"] = fs
            /\ ~CanSend("server") => inbox'["client"] = inbox["client"]
            /\ inbox["client"] # <<>> => Farewell(Head(inbox["client"]))
    BY <1>1, <1>2, <1>4, ServerWrites
  <2> QED BY <2>1, <2>2 DEF ToClient
<1>7. Ready' /\ LoggedIn' /\ ToServer({})'
  <2>1. Ready'
    BY <1>1, ClientStays
  <2>2. LoggedIn'
    BY <1>1 DEF LoggedIn, Acknowledging, Joined, Server, Counted
  <2> QED BY <1>4, <2>1, <2>2 DEF ToServer
<1>8. Dialogue'
  BY <1>6, <1>7 DEF Dialogue
<1>9. /\ Compress # Kick /\ Compress' = Compress /\ Kick' = Kick
      /\ inbox["client"] # <<>> =>
            Head(inbox["client"]) # Kick /\ Head(inbox["client"]) # Compress
  <2>1. Compress.name = "compress" /\ Kick.name = "kick_disconnect"
    BY FrameNames DEF Kick, Encoded
  <2>2. Compress' = Compress /\ Kick' = Kick
    BY <1>1, SameFrames
  <2> DEFINE d == Head(inbox["client"])
  <2> HIDE DEF d
  <2>3. inbox["client"] # <<>> => d # Kick /\ d # Compress
    <3>1. inbox["client"] # <<>> => Farewell(d)
      BY <1>6 DEF d
    <3>2. Farewell(d) => d.name # "kick_disconnect" /\ d.name # "compress"
      BY FarewellType
    <3> QED BY <2>1, <3>1, <3>2
  <2> QED BY <2>1, <2>2, <2>3 DEF d
<1>10. Told'
  BY <1>1, <1>2, <1>6, <1>9 DEF Told, CanSend
<1>11. Count'
  BY <1>1, <1>6, <1>7, <1>9 DEF Count, TooLate, CanSend
<1>12. InGame' /\ CodecAgreement'
  BY <1>1, Names DEF InGame, CodecAgreement
<1> QED BY <1>5, <1>8, <1>10, <1>11, <1>12

LEMMA OfflineStep ==
    ASSUME IInv, OnLoginOffline
    PROVE  IInv'
<1> USE DEF IInv
<1>1. /\ inbox["server"] # <<>> /\ Head(inbox["server"]).name = "login_start"
      /\ ~ended["server"] /\ ~mode.online
  BY DEF OnLoginOffline, Handles, Hears
<1>2. /\ Asking /\ Awaiting /\ ToClient({})
      /\ inbox["server"] = <<Clear("login_start")>>
  BY <1>1, ServerHears
<1>3. Tail(inbox["server"]) = <<>>
  BY <1>2
<1>4. /\ Ready /\ ~logged /\ state["server"] = "login" /\ comp["server"] = FALSE
      /\ ciph["server"] = mode.online /\ once["server"] \ {"login_start"} = {}
      /\ verify = "idle"
  BY <1>1, <1>2, ModeType DEF Ready, Awaiting, Server, Unverified
<1>5. /\ LoginClient(TRUE, "login_start") /\ verify' = "idle"
      /\ UNCHANGED <<mode, ciph, streamVars, crypto, misread>>
  BY <1>4 DEF OnLoginOffline
<1> QED BY <1>1, <1>2, <1>3, <1>4, <1>5, LoginClientStep

LEMMA HasJoinedStep ==
    ASSUME IInv, HasJoined
    PROVE  IInv'
<1> USE DEF IInv
<1>1. Encrypted /\ Verifying /\ ToServer({}) /\ ToClient({})
  BY Exclusive DEF HasJoined, Dialogue, LoggedIn
<1>2. /\ Ready /\ ~logged /\ state["server"] = "login" /\ comp["server"] = FALSE
      /\ ciph["server"] = mode.online /\ once["server"] \ {"encryption_begin"} = {}
      /\ inbox["server"] = <<>>
  BY <1>1 DEF Ready, Verifying, Server, ToServer
<1>3. /\ LoginClient(FALSE, "encryption_begin") /\ verify' = "idle"
      /\ UNCHANGED <<mode, ciph, streamVars, crypto, misread>>
  BY DEF HasJoined
<1> QED BY <1>1, <1>2, <1>3, LoginClientStep

-----------------------------------------------------------------------------
(* The invariant *)

LEMMA InitInv == Init => IInv
<1> SUFFICES ASSUME Init PROVE IInv
  OBVIOUS
<1>1. TypeOK
  <2>1. <<>> \in Seq(Frame)
    OBVIOUS
  <2> QED BY <2>1, Names DEF Init, TypeOK, State, PacketName, ServerPacket, ClientPacket
<1>2. Dialogue
  BY Names DEF Init, Dialogue, Greeting, Listening, Client, Server, Unverified, Idle, Begins,
               ToServer, ToClient
<1>3. Told /\ Count /\ InGame /\ CodecAgreement
  BY Names DEF Init, Told, Count, InGame, CodecAgreement
<1> QED BY <1>1, <1>2, <1>3 DEF IInv

LEMMA NextInv == IInv /\ [Next]_vars => IInv'
<1> SUFFICES ASSUME IInv, [Next]_vars PROVE IInv'
  OBVIOUS
<1>1. CASE UNCHANGED vars
  <2>1. Dialogue' /\ Told' /\ Count' /\ InGame' /\ CodecAgreement'
    BY <1>1, Quiet DEF vars
  <2> QED BY <1>1, <2>1 DEF IInv, TypeOK, vars
<1>2. CASE ClientStep
  BY <1>2, ConnectStep, EncryptionKeyRequestStep, SharedSecretStep, EncryptionKeyResponseStep,
     EncryptionFailsStep, CompressionStep, SuccessStep, FinishConfigurationStep, Zenon
     DEF ClientStep
<1>3. CASE ServerStep
  BY <1>3, HandshakeStep, VerifyStep, OfflineStep, KeyResponseStep, RefuseStep, HasJoinedStep,
     HasNotJoinedStep, LoginAckStep, ConfigurationFinishedStep, KickStep, Zenon
     DEF ServerStep
<1>4. CASE ConnectionStep
  <2>1. PICK p \in Peer :
            Skip(p) \/ UserEnds(p) \/ FinArrives(p) \/ CloseTimeout(p) \/ ConnectionLost(p)
    BY <1>4, Zenon DEF ConnectionStep
  <2>2. CASE Skip(p)
    BY <2>2, SkipClientStep, SkipServerStep, Names
  <2>3. CASE UserEnds(p)
    BY <2>3, UserEndsStep
  <2>4. CASE FinArrives(p) \/ CloseTimeout(p) \/ ConnectionLost(p)
    BY <2>4, EndSocketStep DEF FinArrives, CloseTimeout, ConnectionLost
  <2> QED BY <2>1, <2>2, <2>3, <2>4
<1> QED BY <1>1, <1>2, <1>3, <1>4 DEF Next

LEMMA Invariant == Spec => []IInv
  BY InitInv, NextInv, PTL DEF Spec

(***************************************************************************)
(* The variables of the login keep their types.                            *)
(***************************************************************************)
THEOREM LoginTypes == Spec => []TypeOK
<1>1. IInv => TypeOK
  BY DEF IInv
<1> QED BY <1>1, Invariant, PTL

(***************************************************************************)
(* Every frame is read in the codec it was written in, whoever switched    *)
(* compression, encryption or state while it was under way, but for the    *)
(* disconnect of server.js.                                                *)
(***************************************************************************)
THEOREM FramesAreRead == Spec => []CodecAgreement
<1>1. IInv => CodecAgreement
  BY DEF IInv
<1> QED BY <1>1, Invariant, PTL

(***************************************************************************)
(* The second 'playerJoin' finds both ends in PLAY with one codec and the  *)
(* player counted, and the end of the server's side counts him off.        *)
(***************************************************************************)
THEOREM JoinsTogether == Spec => []InGameTogether
<1>1. IInv => InGameTogether
  <2> SUFFICES ASSUME IInv, ingame[LastToJoin]
               PROVE  /\ \A p \in Peer : /\ ingame[p] /\ state[p] = "play"
                                          /\ comp[p] /\ ciph[p] = mode.online
                      /\ playerCount = IF ended["server"] THEN 0 ELSE 1
    BY DEF InGameTogether
  <2> USE DEF IInv
  <2>1. Playing /\ Joined
    <3>1. CASE mode.config
      <4>1. Joined
        BY <3>1, Exclusive, Names DEF LastToJoin, InGame, Dialogue, LoggedIn
      <4> QED BY <3>1, <4>1, Exclusive DEF Dialogue, LoggedIn
    <3>2. CASE ~mode.config
      <4>1. Playing
        BY <3>2, Exclusive, Names DEF LastToJoin, InGame, Dialogue
      <4> QED BY <3>2, <4>1, Exclusive DEF Dialogue
    <3> QED BY <3>1, <3>2
  <2>2. logged /\ ~TooLate
    BY <2>1, Exclusive DEF TooLate
  <2> QED BY <2>1, <2>2, Names DEF Playing, Joined, Client, Server, InGame, Count
<1> QED BY <1>1, Invariant, PTL

-----------------------------------------------------------------------------
(* Induction, and recursive functions *)

(* Induction over the naturals, for a property given as a set. *)
LEMMA Induction ==
    ASSUME NEW S, 0 \in S, \A n \in Nat : n \in S => n + 1 \in S
    PROVE  \A n \in Nat : n \in S
<1>1. SUFFICES ASSUME NEW n \in Nat, n \notin S PROVE FALSE
  OBVIOUS
<1> DEFINE T == {m \in 0..n : m \in S}
           next == [m \in T |-> m + 1]
<1>2. IsFiniteSet(T)
  BY FS_Interval, FS_Subset, n \in Int, 0 \in Int
<1>3. 0 \in T /\ IsFiniteSet(T \ {0}) /\ Cardinality(T \ {0}) = Cardinality(T) - 1 /\ Cardinality(T) \in Nat
  <2>1. 0 \in T
    OBVIOUS
  <2> HIDE DEF T
  <2> QED BY <1>2, <2>1, FS_RemoveElement, FS_CardinalityType
<1>4. \A m \in T : m # n /\ m + 1 \in T \ {0}
  BY <1>1
<1>5. next \in Injection(T, T \ {0})
  BY <1>4 DEF Injection, IsInjective
<1>6. Cardinality(T) <= Cardinality(T \ {0})
  <2> HIDE DEF T, next
  <2> QED BY <1>2, <1>3, <1>5, FS_Injection
<1> QED BY <1>3, <1>6

(* Induction from all smaller numbers, for a property given as a set. *)
LEMMA StrongInduction ==
    ASSUME NEW D, D \subseteq Nat, NEW S,
           \A n \in D : (\A m \in D : m < n => m \in S) => n \in S
    PROVE  \A n \in D : n \in S
<1> DEFINE T == {n \in Nat : \A m \in D : m < n => m \in S}
<1>1. 0 \in T
  OBVIOUS
<1>2. ASSUME NEW n \in Nat, n \in T PROVE n + 1 \in T
  <2>1. ASSUME NEW m \in D, m < n + 1 PROVE m \in S
    <3>1. \A k \in D : k < m => k \in S
      BY <1>2, <2>1
    <3> QED BY <3>1
  <2> QED BY <2>1
<1>3. \A n \in Nat : n \in T
  <2> HIDE DEF T
  <2> QED BY <1>1, <1>2, Induction
<1>4. ASSUME NEW n \in D PROVE n \in S
  <2>1. n \in Nat /\ n + 1 \in T
    BY <1>3
  <2> QED BY <2>1
<1> QED BY <1>4

(* A recursion over D that goes down, or stops. *)
GoesDown(D, S, Stop, down, base, step) ==
    /\ D \in SUBSET Nat
    /\ Stop \in SUBSET D
    /\ base \in [D -> S]
    /\ step \in [D \X S -> S]
    /\ \A n \in D \ Stop : down[n] \in D /\ down[n] < n

(* A recursive definition by smaller arguments defines a function. *)
LEMMA Recursion ==
    ASSUME NEW D, NEW S, NEW Stop, NEW down, NEW base, NEW step,
           GoesDown(D, S, Stop, down, base, step)
    PROVE  \E f \in [D -> S] : \A n \in D :
               f[n] = IF n \in Stop THEN base[n] ELSE step[<<n, f[down[n]]>>]
<1> USE DEF GoesDown
<1> DEFINE Below(m) == {n \in D : n < m}
           Right(f, n) == f[n] = IF n \in Stop THEN base[n] ELSE step[<<n, f[down[n]]>>]
           Approx(m) == {g \in [Below(m) -> S] : \A n \in Below(m) : Right(g, n)}
<1>21. \A n \in D : n \in Nat
  OBVIOUS
<1>0. \A n \in D : n \in Nat /\ (n \notin Stop => down[n] \in D /\ down[n] \in Nat /\ down[n] < n)
  OBVIOUS
<1>1. ASSUME NEW m \in Nat, NEW k \in Nat, NEW g \in Approx(m), NEW h \in Approx(k)
      PROVE  \A n \in Below(m) \cap Below(k) : g[n] = h[n]
  <2> DEFINE T == {n \in Nat : \A i \in Below(m) \cap Below(k) : i < n => g[i] = h[i]}
  <2>1. 0 \in T
    OBVIOUS
  <2>2. ASSUME NEW n \in Nat, n \in T PROVE n + 1 \in T
    <3>1. SUFFICES ASSUME n \in Below(m) \cap Below(k) PROVE g[n] = h[n]
      BY <2>2
    <3>2. CASE n \in Stop
      BY <3>1, <3>2, <1>1
    <3>3. CASE n \notin Stop
      <4>1. down[n] \in Below(m) \cap Below(k) /\ down[n] < n
        BY <1>0, <3>1, <3>3
      <4>2. g[down[n]] = h[down[n]]
        BY <4>1, <2>2
      <4> QED BY <4>2, <3>1, <3>3, <1>1
    <3> QED BY <3>2, <3>3
  <2>3. \A n \in Nat : n \in T
    <3> HIDE DEF T
    <3> QED BY <2>1, <2>2, Induction
  <2> QED
    <3>1. ASSUME NEW n \in Below(m) \cap Below(k) PROVE g[n] = h[n]
      <4>1. n + 1 \in T
        BY <2>3
      <4> QED BY <4>1
    <3> QED BY <3>1
<1>2. \A m \in Nat : Approx(m) # {}
  <2> DEFINE T == {m \in Nat : Approx(m) # {}}
  <2>1. 0 \in T
    <3>1. Below(0) = {}
      <4>1. ASSUME NEW n \in Below(0) PROVE FALSE
        <5>1. n \in Nat /\ n < 0
          BY <1>21
        <5> QED BY <5>1
      <4> HIDE DEF Below
      <4> QED BY <4>1
    <3>2. [n \in {} |-> 0] \in Approx(0)
      <4> HIDE DEF Below
      <4> QED BY <3>1
    <3> QED BY <3>2
  <2>2. ASSUME NEW m \in Nat, m \in T PROVE m + 1 \in T
    <3>1. PICK g \in Approx(m) : TRUE
      BY <2>2
    <3>2. CASE m \notin D
      <4>1. Below(m + 1) = Below(m)
        <5>1. \A n \in D : n < m + 1 <=> n < m
          BY <1>21, <3>2
        <5> QED BY <5>1
      <4>2. Approx(m + 1) = Approx(m)
        <5> HIDE DEF Below
        <5> QED BY <4>1
      <4> QED
        <5> HIDE DEF Approx
        <5> QED BY <4>2, <2>2
    <3>3. CASE m \in D
      <4> DEFINE last == IF m \in Stop THEN base[m] ELSE step[<<m, g[down[m]]>>]
                 h == [n \in Below(m + 1) |-> IF n < m THEN g[n] ELSE last]
      <4>1. last \in S
        BY <3>1, <3>3
      <4>2. \A n \in Below(m + 1) : n < m \/ n = m
        OBVIOUS
      <4>3. h \in [Below(m + 1) -> S]
        BY <4>1, <4>2, <3>1
      <4>4. ASSUME NEW n \in Below(m + 1) PROVE Right(h, n)
        <5>1. CASE n < m
          <6>1. g[n] = IF n \in Stop THEN base[n] ELSE step[<<n, g[down[n]]>>]
            BY <3>1, <5>1
          <6>2. n \notin Stop => down[n] \in Below(m) /\ down[n] \in Below(m + 1)
            BY <1>0, <5>1
          <6> QED BY <6>1, <6>2, <5>1
        <5>2. CASE n = m
          <6>1. n \notin Stop => down[n] \in Below(m) /\ down[n] \in Below(m + 1)
            BY <1>0, <5>2
          <6> QED BY <6>1, <5>2
        <5> QED BY <5>1, <5>2, <4>2
      <4>5. h \in Approx(m + 1)
        <5> HIDE DEF h
        <5> QED BY <4>3, <4>4
      <4> QED
        <5> HIDE DEF Approx
        <5> QED BY <4>5
    <3> QED BY <3>2, <3>3
  <2>3. \A m \in Nat : m \in T
    <3> HIDE DEF T
    <3> QED BY <2>1, <2>2, Induction
  <2> QED BY <2>3
<1> DEFINE G(n) == CHOOSE g : g \in Approx(n + 1)
           f == [n \in D |-> G(n)[n]]
<1>3. ASSUME NEW n \in D PROVE G(n) \in Approx(n + 1)
  <2>1. n + 1 \in Nat
    OBVIOUS
  <2> HIDE DEF Approx
  <2> QED BY <2>1, <1>2
<1>4. ASSUME NEW n \in D PROVE f[n] \in S
  <2>1. n \in Below(n + 1)
    OBVIOUS
  <2> HIDE DEF G
  <2> QED BY <2>1, <1>3
<1>5. ASSUME NEW n \in D PROVE Right(f, n)
  <2>1. n \in Below(n + 1)
    OBVIOUS
  <2>2. CASE n \in Stop
    <3> HIDE DEF G
    <3> QED BY <2>1, <1>3, <2>2
  <2>3. CASE n \notin Stop
    <3>1. down[n] \in D /\ down[n] \in Below(n + 1) /\ down[n] \in Below(down[n] + 1)
      BY <1>0, <2>3
    <3>2. G(n)[down[n]] = G(down[n])[down[n]]
      <4>1. G(n) \in Approx(n + 1) /\ G(down[n]) \in Approx(down[n] + 1)
        BY <3>1, <1>3
      <4>2. n + 1 \in Nat /\ down[n] + 1 \in Nat
        BY <1>0, <2>3
      <4>3. n + 1 \in Nat /\ down[n] \in Below(n + 1) \cap Below(down[n] + 1)
        BY <3>1
      <4> HIDE DEF G, Approx, Below
      <4> QED BY <4>1, <4>2, <4>3, <1>1
    <3>3. G(n)[n] = step[<<n, G(n)[down[n]]>>]
      <4> HIDE DEF G
      <4> QED BY <2>1, <1>3, <2>3
    <3> HIDE DEF G
    <3> QED BY <3>1, <3>2, <3>3, <2>3
  <2> QED BY <2>2, <2>3
<1>6. f \in [D -> S]
  <2> HIDE DEF G
  <2> QED BY <1>4
<1> HIDE DEF f
<1> QED BY <1>5, <1>6

-----------------------------------------------------------------------------
Largest == 2 * Half - 1

(* The largest unsigned number. *)
LEMMA LargestType == Largest \in Nat /\ Largest = 2 * Half - 1 /\ Half \in Nat \ {0}
BY CodecsAssumption DEF Largest

(* What is left of a number behind a group. *)
LEMMA Divided ==
    ASSUME NEW u \in 0..Largest, u >= Group
    PROVE  u \div Group \in 0..Largest /\ u \div Group < u
BY CodecsAssumption DEF Largest, Group

(* The groups of a number: one, or one and those of the rest. *)
LEMMA GroupsUnfold ==
    /\ GroupsOf \in [0..Largest -> Seq(Cells)]
    /\ \A u \in 0..Largest :
           GroupsOf[u] = IF u < Group THEN <<u>> ELSE <<(u % Group) + Top>> \o GroupsOf[u \div Group]
<1> DEFINE D == 0..Largest
           S == Seq(Cells)
           Stop == {u \in D : u < Group}
           down == [u \in D |-> u \div Group]
           base == [u \in D |-> IF u < Group THEN <<u>> ELSE <<>>]
           step == [p \in D \X S |-> <<(p[1] % Group) + Top>> \o p[2]]
           Right(g) == g = [u \in 0..2 * Half - 1 |-> IF u < Group THEN <<u>>
                            ELSE <<(u % Group) + Top>> \o g[u \div Group]]
<1>1. D \in SUBSET Nat /\ Stop \in SUBSET D
  OBVIOUS
<1>2. base \in [D -> S]
  <2>1. ASSUME NEW u \in D PROVE (IF u < Group THEN <<u>> ELSE <<>>) \in S
    <3>1. u < Group => u \in Cells
      BY LargestType DEF Group, Cells, Top
    <3> QED BY <3>1
  <2> QED BY <2>1
<1>3. step \in [D \X S -> S]
  <2>1. ASSUME NEW u \in D, NEW s \in S PROVE <<(u % Group) + Top>> \o s \in S
    <3>1. (u % Group) + Top \in Cells
      BY DEF Group, Top, Cells
    <3> QED BY <3>1
  <2> QED BY <2>1
<1>4. \A n \in D \ Stop : down[n] \in D /\ down[n] < n
  BY LargestType, Divided DEF Group
<1>5. PICK f \in [D -> S] : \A n \in D : f[n] = IF n \in Stop THEN base[n] ELSE step[<<n, f[down[n]]>>]
  <2>1. GoesDown(D, S, Stop, down, base, step)
    <3> HIDE DEF D, S, Stop, down, base, step
    <3> QED BY <1>1, <1>2, <1>3, <1>4 DEF GoesDown
  <2> HIDE DEF D, S, Stop, down, base, step
  <2> QED BY <2>1, Recursion
<1>6. Right(f)
  <2>1. ASSUME NEW u \in D PROVE f[u] = IF u < Group THEN <<u>> ELSE <<(u % Group) + Top>> \o f[u \div Group]
    <3>1. CASE u < Group
      BY <3>1, <1>5
    <3>2. CASE ~(u < Group)
      <4>1. u >= Group /\ u \div Group \in D
        BY <3>2, LargestType, Divided DEF Group
      <4>2. f[u] = step[<<u, f[u \div Group]>>] /\ f[u \div Group] \in S
        BY <3>2, <1>5, <4>1
      <4> QED BY <4>2, <3>2
    <3> QED BY <3>1, <3>2
  <2> QED BY <2>1, <1>5 DEF Largest
<1>7. Right(GroupsOf)
  <2>1. GroupsOf = CHOOSE g : Right(g)
    BY DEF GroupsOf
  <2> HIDE DEF Right
  <2> QED BY <1>6, <2>1
<1>8. \A u \in D : GroupsOf[u] = IF u < Group THEN <<u>> ELSE <<(u % Group) + Top>> \o GroupsOf[u \div Group]
  BY <1>7 DEF Largest
<1>9. \A u \in D : GroupsOf[u] \in S
  <2> DEFINE T == {u \in D : GroupsOf[u] \in S}
  <2>1. ASSUME NEW n \in D, \A m \in D : m < n => m \in T PROVE n \in T
    <3>1. CASE n < Group
      <4>1. base[n] \in S /\ base[n] = <<n>>
        BY <3>1, <1>2
      <4> QED BY <4>1, <3>1, <1>8
    <3>2. CASE ~(n < Group)
      <4>1. n \div Group \in D /\ n \div Group < n
        BY <3>2, LargestType, Divided DEF Group
      <4>2. GroupsOf[n \div Group] \in S
        BY <4>1, <2>1
      <4>3. step[<<n, GroupsOf[n \div Group]>>] \in S
        BY <4>2, <1>3
      <4> QED BY <4>2, <4>3, <3>2, <1>8
    <3> QED BY <3>1, <3>2
  <2>2. D \subseteq Nat
    BY <1>1
  <2>3. \A n \in D : n \in T
    <3> HIDE DEF D, T
    <3> QED BY <2>1, <2>2, StrongInduction
  <2> QED BY <2>3
<1>10. GroupsOf \in [D -> S]
  <2>1. GroupsOf = [u \in D |-> GroupsOf[u]]
    BY <1>7 DEF Largest
  <2> QED BY <2>1, <1>9
<1> QED BY <1>8, <1>10


(* A loop of m turns. *)
IsLoop(m, S, c, step) == m \in Nat /\ c \in S /\ step \in [(1..m) \X S -> S]

Runs(f, m, S, c, step) ==
    f \in [0..m -> S] /\ f[0] = c /\ \A n \in 1..m : f[n] = step[<<n, f[n - 1]>>]

(* The function of the turns of a loop is the one its definition says. *)
LEMMA Turns ==
    ASSUME NEW m, NEW S, NEW c, NEW step, IsLoop(m, S, c, step)
    PROVE  \E f : Runs(f, m, S, c, step)
<1> USE DEF IsLoop
<1> DEFINE D == 0..m
           Stop == {0}
           down == [n \in D |-> n - 1]
           base == [n \in D |-> c]
           next == [p \in D \X S |-> IF p[1] = 0 THEN c ELSE step[p]]
<1>1. next \in [D \X S -> S]
  <2>1. ASSUME NEW n \in D, NEW x \in S PROVE (IF n = 0 THEN c ELSE step[<<n, x>>]) \in S
    BY n = 0 \/ n \in 1..m
  <2>2. \A p \in D \X S : p = <<p[1], p[2]>> /\ p[1] \in D /\ p[2] \in S
    OBVIOUS
  <2>3. ASSUME NEW p \in D \X S PROVE (IF p[1] = 0 THEN c ELSE step[p]) \in S
    BY <2>1, <2>2
  <2> QED BY <2>3
<1>2. GoesDown(D, S, Stop, down, base, next)
  <2>1. D \in SUBSET Nat /\ Stop \in SUBSET D /\ base \in [D -> S]
    OBVIOUS
  <2>2. \A n \in D \ Stop : down[n] \in D /\ down[n] < n
    OBVIOUS
  <2> HIDE DEF D, Stop, down, base, next
  <2> QED BY <1>1, <2>1, <2>2 DEF GoesDown
<1>3. PICK f \in [D -> S] : \A n \in D : f[n] = IF n \in Stop THEN base[n] ELSE next[<<n, f[down[n]]>>]
  <2> HIDE DEF D, Stop, down, base, next
  <2> QED BY <1>2, Recursion
<1>4. f[0] = c
  <2>1. 0 \in D /\ 0 \in Stop /\ base[0] = c
    OBVIOUS
  <2> HIDE DEF D, Stop, base, next
  <2> QED BY <1>3, <2>1
<1>5. ASSUME NEW n \in 1..m PROVE f[n] = step[<<n, f[n - 1]>>]
  <2>1. n \in D /\ n # 0 /\ n - 1 \in D
    OBVIOUS
  <2>2. f[n] = next[<<n, f[n - 1]>>] /\ f[n - 1] \in S
    BY <1>3, <2>1
  <2> QED BY <2>1, <2>2
<1>6. f \in [0..m -> S]
  OBVIOUS
<1> HIDE DEF D, Stop, down, base, next
<1> QED BY <1>4, <1>5, <1>6 DEF Runs

(* A property of 0 that each step keeps holds up to a bound. *)
LEMMA UpTo ==
    ASSUME NEW m \in Nat, NEW S, 0 \in S, \A n \in 1..m : n - 1 \in S => n \in S
    PROVE  \A n \in 0..m : n \in S
<1> DEFINE T == {n \in Nat : n <= m => n \in S}
<1>1. 0 \in T
  OBVIOUS
<1>2. ASSUME NEW n \in Nat, n \in T PROVE n + 1 \in T
  BY <1>2
<1>3. \A n \in Nat : n \in T
  <2> HIDE DEF T
  <2> QED BY <1>1, <1>2, Induction
<1> QED BY <1>3

(* A sum, one summand after another. *)
LEMMA SumUnfold ==
    ASSUME NEW s \in Seq(Int)
    PROVE  /\ TotalTo(s, 0) = 0
           /\ \A k \in 1..Len(s) : TotalTo(s, k) = TotalTo(s, k - 1) + s[k]
           /\ \A k \in 0..Len(s) : TotalTo(s, k) \in Int
<1> DEFINE Right(g) == g = [i \in 0..Len(s) |-> IF i = 0 THEN 0 ELSE g[i - 1] + s[i]]
           sum == CHOOSE g : Right(g)
           step == [p \in (1..Len(s)) \X Int |-> p[2] + s[p[1]]]
<1>1. step \in [(1..Len(s)) \X Int -> Int]
  OBVIOUS
<1>2. PICK f \in [0..Len(s) -> Int] : f[0] = 0 /\ \A n \in 1..Len(s) : f[n] = step[<<n, f[n - 1]>>]
  <2>1. IsLoop(Len(s), Int, 0, step)
    BY <1>1 DEF IsLoop
  <2> HIDE DEF step
  <2>2. \E f : Runs(f, Len(s), Int, 0, step)
    BY <2>1, Turns
  <2> QED BY <2>2 DEF Runs
<1>3. Right(f)
  <2>1. ASSUME NEW i \in 0..Len(s) PROVE f[i] = IF i = 0 THEN 0 ELSE f[i - 1] + s[i]
    <3>1. CASE i # 0
      <4>1. i \in 1..Len(s) /\ i - 1 \in 0..Len(s)
        BY <3>1
      <4>2. f[i] = step[<<i, f[i - 1]>>] /\ f[i - 1] \in Int
        BY <4>1, <1>2
      <4> QED BY <4>1, <4>2
    <3> QED BY <3>1, <1>2
  <2> QED BY <2>1
<1>4. Right(sum)
  <2> HIDE DEF Right
  <2> QED BY <1>3
<1>5. \A k : TotalTo(s, k) = sum[k]
  BY DEF TotalTo
<1>6. sum[0] = 0 /\ \A k \in 1..Len(s) : sum[k] = sum[k - 1] + s[k]
  <2> HIDE DEF sum
  <2>1. Len(s) \in Nat
    OBVIOUS
  <2>2. \A k \in 0..Len(s) : sum[k] = IF k = 0 THEN 0 ELSE sum[k - 1] + s[k]
    BY <1>4
  <2> HIDE DEF Right
  <2> QED BY <2>1, <2>2
<1>7. \A k \in 0..Len(s) : sum[k] \in Int
  <2> DEFINE T == {k \in 0..Len(s) : sum[k] \in Int}
  <2> HIDE DEF sum, Right
  <2>1. 0 \in T
    BY <1>6
  <2>2. ASSUME NEW n \in 1..Len(s), n - 1 \in T PROVE n \in T
    <3>1. s[n] \in Int /\ sum[n - 1] \in Int /\ n \in 0..Len(s)
      BY <2>2
    <3>2. sum[n] = sum[n - 1] + s[n]
      BY <1>6
    <3> HIDE <1>6
    <3> QED BY <3>1, <3>2
  <2>3. \A n \in 0..Len(s) : n \in T
    <3> HIDE DEF T
    <3> QED BY <2>1, <2>2, UpTo, Len(s) \in Nat
  <2> QED BY <2>3
<1> HIDE DEF sum
<1> QED BY <1>5, <1>6, <1>7

(* A concatenation, one sequence after another. *)
LEMMA ConcatUnfold ==
    ASSUME NEW A, NEW s \in Seq(Seq(A))
    PROVE  /\ ConcatTo(s, 0) = <<>>
           /\ \A k \in 1..Len(s) : ConcatTo(s, k) = ConcatTo(s, k - 1) \o s[k]
           /\ \A k \in 0..Len(s) : ConcatTo(s, k) \in Seq(A)
<1> DEFINE Right(g) == g = [i \in 0..Len(s) |-> IF i = 0 THEN <<>> ELSE g[i - 1] \o s[i]]
           all == CHOOSE g : Right(g)
           step == [p \in (1..Len(s)) \X Seq(A) |-> p[2] \o s[p[1]]]
<1>1. step \in [(1..Len(s)) \X Seq(A) -> Seq(A)]
  <2>1. ASSUME NEW n \in 1..Len(s), NEW x \in Seq(A) PROVE x \o s[n] \in Seq(A)
    <3>1. s[n] \in Seq(A)
      OBVIOUS
    <3> QED BY <3>1
  <2>2. ASSUME NEW p \in (1..Len(s)) \X Seq(A) PROVE p[2] \o s[p[1]] \in Seq(A)
    BY <2>1
  <2> QED BY <2>2
<1>2. PICK f \in [0..Len(s) -> Seq(A)] : f[0] = <<>> /\ \A n \in 1..Len(s) : f[n] = step[<<n, f[n - 1]>>]
  <2>1. IsLoop(Len(s), Seq(A), <<>>, step)
    BY <1>1 DEF IsLoop
  <2> HIDE DEF step
  <2>2. \E f : Runs(f, Len(s), Seq(A), <<>>, step)
    BY <2>1, Turns
  <2> QED BY <2>2 DEF Runs
<1>3. Right(f)
  <2>1. ASSUME NEW i \in 0..Len(s) PROVE f[i] = IF i = 0 THEN <<>> ELSE f[i - 1] \o s[i]
    <3>1. CASE i # 0
      <4>1. i \in 1..Len(s) /\ i - 1 \in 0..Len(s)
        BY <3>1
      <4>2. f[i] = step[<<i, f[i - 1]>>] /\ f[i - 1] \in Seq(A)
        BY <4>1, <1>2
      <4> QED BY <4>1, <4>2
    <3> QED BY <3>1, <1>2
  <2> QED BY <2>1
<1>4. Right(all)
  <2> HIDE DEF Right
  <2> QED BY <1>3
<1>5. \A k : ConcatTo(s, k) = all[k]
  BY DEF ConcatTo
<1>6. all[0] = <<>> /\ \A k \in 1..Len(s) : all[k] = all[k - 1] \o s[k]
  <2> HIDE DEF all
  <2>1. Len(s) \in Nat
    OBVIOUS
  <2>2. \A k \in 0..Len(s) : all[k] = IF k = 0 THEN <<>> ELSE all[k - 1] \o s[k]
    BY <1>4
  <2> HIDE DEF Right, all
  <2>3. all[0] = <<>>
    BY <2>1, <2>2
  <2>4. ASSUME NEW k \in 1..Len(s) PROVE all[k] = all[k - 1] \o s[k]
    <3>1. k \in 0..Len(s) /\ k # 0
      BY <2>1
    <3> HIDE <2>1
    <3> QED BY <2>2, <3>1, Zenon
  <2> QED BY <2>3, <2>4
<1>7. \A k \in 0..Len(s) : all[k] \in Seq(A)
  <2> DEFINE T == {k \in 0..Len(s) : all[k] \in Seq(A)}
  <2> HIDE DEF all, Right
  <2>1. 0 \in T
    BY <1>6
  <2>2. ASSUME NEW n \in 1..Len(s), n - 1 \in T PROVE n \in T
    <3>1. s[n] \in Seq(A) /\ all[n - 1] \in Seq(A) /\ n \in 0..Len(s)
      BY <2>2
    <3>2. all[n] = all[n - 1] \o s[n]
      BY <1>6, Zenon
    <3>3. \A x, y \in Seq(A) : x \o y \in Seq(A)
      OBVIOUS
    <3>4. all[n] \in Seq(A)
      BY <3>1, <3>2, <3>3, Zenon
    <3> QED BY <3>1, <3>4
  <2>3. \A n \in 0..Len(s) : n \in T
    <3> HIDE DEF T
    <3> QED BY <2>1, <2>2, UpTo, Len(s) \in Nat
  <2> QED BY <2>3
<1> HIDE DEF all
<1> QED BY <1>5, <1>6, <1>7

(* The number in some cells, one cell after another. *)
LEMMA NumberUnfold ==
    ASSUME NEW b \in Seq(Int), NEW end \in 0..Len(b)
    PROVE  /\ Number(b, end, 0) = 0
           /\ \A k \in 1..end :
                  Number(b, end, k) = (b[end - k + 1] % Group) + Group * Number(b, end, k - 1)
           /\ \A k \in 0..end : Number(b, end, k) \in Nat
<1> DEFINE Right(g) == g = [i \in 0..end |-> IF i = 0 THEN 0 ELSE (b[end - i + 1] % Group) + Group * g[i - 1]]
           sum == CHOOSE g : Right(g)
           step == [p \in (1..end) \X Nat |-> (b[end - p[1] + 1] % Group) + Group * p[2]]
<1>1. \A i \in 1..end : b[end - i + 1] % Group \in Nat
  <2>1. ASSUME NEW i \in 1..end PROVE b[end - i + 1] % Group \in Nat
    <3>1. end - i + 1 \in 1..Len(b)
      OBVIOUS
    <3>2. b[end - i + 1] \in Int
      BY <3>1
    <3> QED BY <3>2 DEF Group
  <2> QED BY <2>1
<1>2. step \in [(1..end) \X Nat -> Nat]
  <2>1. ASSUME NEW p \in (1..end) \X Nat PROVE (b[end - p[1] + 1] % Group) + Group * p[2] \in Nat
    <3>1. b[end - p[1] + 1] % Group \in Nat /\ p[2] \in Nat
      BY <1>1
    <3> QED BY <3>1 DEF Group
  <2> QED BY <2>1
<1>3. PICK f \in [0..end -> Nat] : f[0] = 0 /\ \A n \in 1..end : f[n] = step[<<n, f[n - 1]>>]
  <2>1. IsLoop(end, Nat, 0, step)
    BY <1>2 DEF IsLoop
  <2> HIDE DEF step
  <2>2. \E f : Runs(f, end, Nat, 0, step)
    BY <2>1, Turns
  <2> QED BY <2>2 DEF Runs
<1>4. Right(f)
  <2>1. ASSUME NEW i \in 0..end PROVE f[i] = IF i = 0 THEN 0 ELSE (b[end - i + 1] % Group) + Group * f[i - 1]
    <3>1. CASE i # 0
      <4>1. i \in 1..end /\ i - 1 \in 0..end
        BY <3>1
      <4>2. f[i] = step[<<i, f[i - 1]>>] /\ f[i - 1] \in Nat
        BY <4>1, <1>3
      <4>3. step[<<i, f[i - 1]>>] = (b[end - i + 1] % Group) + Group * f[i - 1]
        BY <4>1, <4>2
      <4> QED BY <4>2, <4>3, <3>1
    <3> QED BY <3>1, <1>3
  <2> QED BY <2>1
<1>5. Right(sum)
  <2> HIDE DEF Right
  <2> QED BY <1>4
<1>6. \A k : Number(b, end, k) = sum[k]
  BY DEF Number
<1> HIDE DEF sum
<1>7. sum[0] = 0 /\ \A k \in 1..end : sum[k] = (b[end - k + 1] % Group) + Group * sum[k - 1]
  <2>1. \A k \in 0..end : sum[k] = IF k = 0 THEN 0 ELSE (b[end - k + 1] % Group) + Group * sum[k - 1]
    BY <1>5
  <2> HIDE DEF Right
  <2> QED BY <2>1
<1> HIDE DEF Right
<1>8. \A k \in 0..end : sum[k] \in Nat
  <2> DEFINE T == {k \in 0..end : sum[k] \in Nat}
  <2>1. 0 \in T
    BY <1>7
  <2>2. ASSUME NEW n \in 1..end, n - 1 \in T PROVE n \in T
    <3>1. b[end - n + 1] % Group \in Nat /\ sum[n - 1] \in Nat /\ n \in 0..end
      BY <2>2, <1>1
    <3>2. sum[n] = (b[end - n + 1] % Group) + Group * sum[n - 1]
      BY <1>7
    <3> HIDE DEF sum
    <3>3. \A x, y \in Nat : x + Group * y \in Nat
      BY DEF Group
    <3>4. sum[n] \in Nat
      BY <3>1, <3>2, <3>3, Zenon
    <3> QED BY <3>1, <3>4
  <2>3. \A n \in 0..end : n \in T
    <3> HIDE DEF T
    <3>1. end \in Nat
      OBVIOUS
    <3> QED BY <3>1, <2>1, <2>2, UpTo
  <2> QED BY <2>3
<1> QED BY <1>6, <1>7, <1>8

(* The number of groups: one, or one more than of the rest. *)
LEMMA CountUnfold ==
    /\ \A u \in 0..Largest :
           GroupCount[u] = IF u < Group THEN 1 ELSE 1 + GroupCount[u \div Group]
    /\ \A u \in 0..Largest : GroupCount[u] = Len(GroupsOf[u])
<1> DEFINE Right(g) == g = [u \in 0..2 * Half - 1 |-> IF u < Group THEN 1 ELSE 1 + g[u \div Group]]
           lens == [u \in 0..Largest |-> Len(GroupsOf[u])]
<1>1. \A u \in 0..Largest : lens[u] = IF u < Group THEN 1 ELSE 1 + lens[u \div Group]
  <2>1. ASSUME NEW u \in 0..Largest PROVE lens[u] = IF u < Group THEN 1 ELSE 1 + lens[u \div Group]
    <3>1. CASE u < Group
      <4>1. GroupsOf[u] = <<u>>
        BY <3>1, GroupsUnfold
      <4> QED BY <3>1, <4>1
    <3>2. CASE ~(u < Group)
      <4>1. u \div Group \in 0..Largest
        BY <3>2, LargestType, Divided DEF Group
      <4>2. GroupsOf[u \div Group] \in Seq(Cells)
        BY <4>1, GroupsUnfold
      <4>3. GroupsOf[u] = <<(u % Group) + Top>> \o GroupsOf[u \div Group]
        BY <3>2, GroupsUnfold
      <4>4. Len(GroupsOf[u]) = 1 + Len(GroupsOf[u \div Group])
        <5>1. \A x : \A y \in Seq(Cells) : Len(<<x>> \o y) = 1 + Len(y)
          OBVIOUS
        <5> QED BY <4>2, <4>3, <5>1, Zenon
      <4> QED BY <3>2, <4>1, <4>4
    <3> QED BY <3>1, <3>2
  <2> QED BY <2>1
<1>2. Right(lens)
  <2> HIDE DEF lens
  <2>1. lens = [u \in 0..Largest |-> lens[u]]
    BY DEF lens
  <2> QED BY <1>1, <2>1 DEF Largest
<1>3. Right(GroupCount)
  <2>1. GroupCount = CHOOSE g : Right(g)
    BY DEF GroupCount
  <2> HIDE DEF Right
  <2> QED BY <1>2, <2>1
<1>4. \A u \in 0..Largest : GroupCount[u] = IF u < Group THEN 1 ELSE 1 + GroupCount[u \div Group]
  BY <1>3 DEF Largest
<1>5. \A u \in 0..Largest : GroupCount[u] = lens[u]
  <2> DEFINE T == {u \in 0..Largest : GroupCount[u] = lens[u]}
  <2> HIDE DEF lens
  <2>1. ASSUME NEW n \in 0..Largest, \A m \in 0..Largest : m < n => m \in T PROVE n \in T
    <3>1. CASE n < Group
      BY <3>1, <1>1, <1>4
    <3>2. CASE ~(n < Group)
      <4>1. n \div Group \in 0..Largest /\ n \div Group < n
        BY <3>2, LargestType, Divided DEF Group
      <4>2. GroupCount[n \div Group] = lens[n \div Group]
        BY <4>1, <2>1
      <4> QED BY <4>1, <4>2, <3>2, <1>1, <1>4
    <3> QED BY <3>1, <3>2
  <2>2. 0..Largest \subseteq Nat
    BY LargestType
  <2>3. \A n \in 0..Largest : n \in T
    <3> HIDE DEF T
    <3> QED BY <2>1, <2>2, StrongInduction
  <2> QED BY <2>3
<1> QED BY <1>4, <1>5

(* Some cells are those of a sequence from an offset on. *)
Holds(b, at, cells) ==
    /\ b \in Seq(Int) /\ cells \in Seq(Int)
    /\ at \in Nat /\ at + Len(cells) <= Len(b)
    /\ \A i \in 1..Len(cells) : b[at + i] = cells[i]

(* The cells of two sequences, one behind the other. *)
LEMMA HoldsParts ==
    ASSUME NEW b, NEW at, NEW x \in Seq(Int), NEW y \in Seq(Int), Holds(b, at, x \o y)
    PROVE  Holds(b, at, x) /\ Holds(b, at + Len(x), y)
<1>1. Len(x \o y) = Len(x) + Len(y) /\ Len(x) \in Nat /\ Len(y) \in Nat
  OBVIOUS
<1>2. \A i \in 1..Len(x) : (x \o y)[i] = x[i]
  OBVIOUS
<1>3. \A i \in 1..Len(y) : (x \o y)[Len(x) + i] = y[i]
  OBVIOUS
<1>4. b \in Seq(Int) /\ at \in Nat /\ at + Len(x) + Len(y) <= Len(b)
  BY <1>1 DEF Holds
<1>5. \A i \in 1..Len(x) : b[at + i] = x[i]
  BY <1>1, <1>2 DEF Holds
<1>6. \A i \in 1..Len(y) : b[(at + Len(x)) + i] = y[i]
  <2>1. ASSUME NEW i \in 1..Len(y) PROVE b[(at + Len(x)) + i] = y[i]
    <3>1. Len(x) + i \in 1..Len(x \o y)
      BY <1>1
    <3>2. b[at + (Len(x) + i)] = (x \o y)[Len(x) + i]
      BY <3>1 DEF Holds
    <3>3. at + (Len(x) + i) = (at + Len(x)) + i
      BY <1>4, <1>1
    <3> QED BY <3>2, <3>3, <1>3
  <2> QED BY <2>1
<1> QED BY <1>1, <1>4, <1>5, <1>6 DEF Holds

(* A cell that is there is read. *)
LEMMA HoldsCell ==
    ASSUME NEW b, NEW at, NEW c \in Int, Holds(b, at, <<c>>)
    PROVE  b[at + 1] = c /\ ReadCell(b, at) = Read(Val("number", c, <<>>), 1)
<1>1. b \in Seq(Int) /\ at \in Nat /\ at + 1 <= Len(b) /\ b[at + 1] = c
  BY DEF Holds
<1> QED BY <1>1 DEF ReadCell

-----------------------------------------------------------------------------
(* Cells are numbers. *)
LEMMA CellSeqs == \A s \in Seq(Cells) : s \in Seq(Int) /\ Len(s) \in Nat
<1>1. Cells \subseteq Int
  BY DEF Cells, Top, Group
<1>2. ASSUME NEW s \in Seq(Cells) PROVE s \in Seq(Int) /\ Len(s) \in Nat
  <2>1. Len(s) \in Nat /\ s \in [1..Len(s) -> Cells]
    OBVIOUS
  <2>2. s \in [1..Len(s) -> Int]
    BY <1>1, <2>1
  <2> QED BY <2>1, <2>2
<1> QED BY <1>2

(* All groups but the last say that more follows. *)
Coded(g) ==
    /\ g \in Seq(Cells) /\ Len(g) >= 1
    /\ g[Len(g)] < Top
    /\ \A j \in 1..Len(g) - 1 : g[j] >= Top

LEMMA CodedMore ==
    ASSUME NEW c \in Cells, c >= Top, NEW g, Coded(g)
    PROVE  Coded(<<c>> \o g)
<1>1. g \in Seq(Cells) /\ Len(g) \in Nat /\ Len(g) >= 1
  BY DEF Coded
<1>2. <<c>> \o g \in Seq(Cells) /\ Len(<<c>> \o g) = Len(g) + 1
  BY <1>1
<1>3. (<<c>> \o g)[1] = c /\ \A j \in 1..Len(g) : (<<c>> \o g)[j + 1] = g[j]
  BY <1>1
<1>4. (<<c>> \o g)[Len(g) + 1] < Top
  BY <1>1, <1>3 DEF Coded
<1>5. ASSUME NEW j \in 1..Len(g) PROVE (<<c>> \o g)[j] >= Top
  <2>1. CASE j = 1
    BY <2>1, <1>3
  <2>2. CASE j # 1
    <3>1. j - 1 \in 1..Len(g) - 1 /\ j - 1 \in 1..Len(g) /\ (j - 1) + 1 = j
      BY <2>2, <1>1
    <3>2. g[j - 1] >= Top
      BY <3>1 DEF Coded
    <3>3. (<<c>> \o g)[(j - 1) + 1] = g[j - 1]
      BY <3>1, <1>3
    <3> QED BY <3>1, <3>2, <3>3
  <2> QED BY <2>1, <2>2
<1> HIDE <1>3
<1> QED BY <1>1, <1>2, <1>4, <1>5 DEF Coded

(* The groups of a number are coded. *)
LEMMA GroupsCoded == \A u \in 0..Largest : Coded(GroupsOf[u])
<1> DEFINE T == {u \in 0..Largest : Coded(GroupsOf[u])}
<1>1. ASSUME NEW n \in 0..Largest, \A m \in 0..Largest : m < n => m \in T PROVE n \in T
  <2>1. CASE n < Group
    <3>1. GroupsOf[n] = <<n>>
      BY <2>1, GroupsUnfold
    <3>2. n \in Cells /\ n < Top
      BY <2>1, LargestType DEF Cells, Top, Group
    <3>3. Coded(<<n>>)
      BY <3>2 DEF Coded
    <3> QED BY <3>1, <3>3
  <2>2. CASE ~(n < Group)
    <3>1. n \div Group \in 0..Largest /\ n \div Group < n
      BY <2>2, LargestType, Divided DEF Group
    <3>2. Coded(GroupsOf[n \div Group])
      BY <3>1, <1>1
    <3>3. (n % Group) + Top \in Cells /\ (n % Group) + Top >= Top
      BY LargestType DEF Cells, Top, Group
    <3>4. GroupsOf[n] = <<(n % Group) + Top>> \o GroupsOf[n \div Group]
      BY <2>2, GroupsUnfold
    <3> QED BY <3>2, <3>3, <3>4, CodedMore
  <2> QED BY <2>1, <2>2
<1>2. 0..Largest \subseteq Nat
  BY LargestType
<1>3. \A n \in 0..Largest : n \in T
  <2> HIDE DEF T
  <2> QED BY <1>1, <1>2, StrongInduction
<1> QED BY <1>3

(* A larger number has no fewer groups. *)
LEMMA GroupsLonger ==
    \A u \in 0..Largest : \A v \in 0..Largest : v <= u => Len(GroupsOf[v]) <= Len(GroupsOf[u])
<1> DEFINE T == {u \in 0..Largest : \A v \in 0..Largest : v <= u => Len(GroupsOf[v]) <= Len(GroupsOf[u])}
<1>0. \A u \in 0..Largest : GroupCount[u] = Len(GroupsOf[u]) /\ Len(GroupsOf[u]) \in Nat /\ Len(GroupsOf[u]) >= 1
  BY CountUnfold, GroupsCoded DEF Coded
<1>1. ASSUME NEW n \in 0..Largest, \A m \in 0..Largest : m < n => m \in T PROVE n \in T
  <2>1. ASSUME NEW v \in 0..Largest, v <= n PROVE Len(GroupsOf[v]) <= Len(GroupsOf[n])
    <3>1. CASE v < Group
      <4>1. GroupCount[v] = 1
        BY <3>1, CountUnfold
      <4> QED BY <4>1, <1>0
    <3>2. CASE ~(v < Group)
      <4>1. ~(n < Group) /\ n >= Group /\ v >= Group
        BY <3>2, <2>1, LargestType DEF Group
      <4>2. /\ v \div Group \in 0..Largest /\ n \div Group \in 0..Largest
            /\ n \div Group < n /\ v \div Group <= n \div Group
        BY <4>1, <2>1, Divided, LargestType DEF Group
      <4>3. Len(GroupsOf[v \div Group]) <= Len(GroupsOf[n \div Group])
        BY <4>2, <1>1
      <4>4. GroupCount[v] = 1 + GroupCount[v \div Group] /\ GroupCount[n] = 1 + GroupCount[n \div Group]
        BY <4>1, <3>2, CountUnfold
      <4> QED BY <4>2, <4>3, <4>4, <1>0
    <3> QED BY <3>1, <3>2
  <2> QED BY <2>1
<1>2. 0..Largest \subseteq Nat
  BY LargestType
<1>3. \A n \in 0..Largest : n \in T
  <2> HIDE DEF T
  <2> QED BY <1>1, <1>2, StrongInduction
<1> QED BY <1>3

(* A number and its unsigned form, there and back. *)
LEMMA UnsignedType ==
    /\ \A n \in Int : Unsigned(n) \in 0..Largest
    /\ \A u \in 0..Largest : Unsigned(u) = u
    /\ \A n \in Numbers : Signed(Unsigned(n)) = n
    /\ Unsigned(-1) = Largest
<1>1. Half \in Nat \ {0}
  BY LargestType
<1>2. \A n \in Int : n % (2 * Half) \in 0..2 * Half - 1
  BY <1>1
<1>3. \A n \in 0..2 * Half - 1 : n % (2 * Half) = n
  BY <1>1
<1>4. \A n \in -Half..-1 : n % (2 * Half) = n + 2 * Half
  BY <1>1
<1>5. \A n \in Numbers : Signed(Unsigned(n)) = n
  <2>1. ASSUME NEW n \in Numbers PROVE Signed(Unsigned(n)) = n
    <3>1. CASE n < 0
      <4>1. n \in -Half..-1
        BY <3>1, <1>1 DEF Numbers
      <4>2. Unsigned(n) = n + 2 * Half
        BY <4>1, <1>4 DEF Unsigned
      <4> QED BY <4>1, <4>2, <1>1 DEF Signed
    <3>2. CASE ~(n < 0)
      <4>1. n \in 0..Half - 1 /\ n \in 0..2 * Half - 1
        BY <3>2, <1>1 DEF Numbers
      <4>2. Unsigned(n) = n
        BY <4>1, <1>3 DEF Unsigned
      <4> QED BY <4>1, <4>2, <1>1 DEF Signed
    <3> QED BY <3>1, <3>2
  <2> QED BY <2>1
<1>6. Unsigned(-1) = Largest
  <2>1. -1 \in -Half..-1
    BY <1>1
  <2> QED BY <2>1, <1>4, <1>1 DEF Unsigned, Largest
<1> QED BY <1>1, <1>2, <1>3, <1>5, <1>6 DEF Unsigned, Largest

(* A varint is a coded sequence of cells. *)
LEMMA VarintType ==
    \A n \in Int : /\ Varint(n) \in Seq(Cells) /\ Coded(Varint(n))
                   /\ Len(Varint(n)) \in 1..MaxGroups
                   /\ Len(Varint(n)) = SizeOfVarint(n)
<1>1. ASSUME NEW n \in Int
      PROVE  /\ Varint(n) \in Seq(Cells) /\ Coded(Varint(n))
             /\ Len(Varint(n)) \in 1..MaxGroups /\ Len(Varint(n)) = SizeOfVarint(n)
  <2>1. Unsigned(n) \in 0..Largest /\ Unsigned(n) <= Largest /\ Largest \in 0..Largest
    BY UnsignedType, LargestType
  <2>2. Len(GroupsOf[Unsigned(n)]) <= Len(GroupsOf[Largest])
    BY <2>1, GroupsLonger
  <2>3. Len(GroupsOf[Largest]) <= MaxGroups /\ MaxGroups \in Nat
    BY UnsignedType, CodecsAssumption DEF Varint
  <2>4. Coded(GroupsOf[Unsigned(n)]) /\ Coded(GroupsOf[Largest])
    BY <2>1, GroupsCoded
  <2>5. Len(GroupsOf[Unsigned(n)]) \in 1..MaxGroups
    BY <2>2, <2>3, <2>4 DEF Coded
  <2> QED BY <2>1, <2>4, <2>5, CountUnfold DEF Varint, SizeOfVarint, Coded
<1> QED BY <1>1

(* The number in the groups of a number is that number. *)
LEMMA NumberOfGroups ==
    ASSUME NEW b \in Seq(Int)
    PROVE  \A u \in 0..Largest : \A at \in Nat :
               Holds(b, at, GroupsOf[u]) =>
                   Number(b, at + Len(GroupsOf[u]), Len(GroupsOf[u])) = u
<1> DEFINE T == {u \in 0..Largest : \A at \in Nat :
               Holds(b, at, GroupsOf[u]) =>
                   Number(b, at + Len(GroupsOf[u]), Len(GroupsOf[u])) = u}
<1>1. ASSUME NEW n \in 0..Largest, \A m \in 0..Largest : m < n => m \in T PROVE n \in T
  <2>1. ASSUME NEW at \in Nat, Holds(b, at, GroupsOf[n])
        PROVE Number(b, at + Len(GroupsOf[n]), Len(GroupsOf[n])) = n
    <3>1. CASE n < Group
      <4>1. GroupsOf[n] = <<n>>
        BY <3>1, GroupsUnfold
      <4>2. b[at + 1] = n /\ at + 1 \in 0..Len(b)
        BY <4>1, <2>1 DEF Holds
      <4>3. Number(b, at + 1, 0) = 0 /\ Number(b, at + 1, 1) = (b[(at + 1) - 1 + 1] % Group) + Group * Number(b, at + 1, 1 - 1)
        BY <4>2, NumberUnfold
      <4>4. n % Group = n
        BY <3>1, LargestType DEF Group
      <4>5. (at + 1) - 1 + 1 = at + 1 /\ 1 - 1 = 0 /\ Len(<<n>>) = 1
        OBVIOUS
      <4>6. Number(b, at + 1, 1) = n
        BY <4>2, <4>3, <4>4, <4>5, LargestType DEF Group
      <4> QED BY <4>6, <4>5, <4>1
    <3>2. CASE ~(n < Group)
      <4> DEFINE g == GroupsOf[n \div Group]
                 k == Len(g)
      <4>1. n \div Group \in 0..Largest /\ n \div Group < n
        BY <3>2, LargestType, Divided DEF Group
      <4>2. g \in Seq(Cells) /\ g \in Seq(Int) /\ k \in Nat
        <5>1. g \in Seq(Cells)
          BY <4>1, GroupsUnfold
        <5> HIDE DEF g
        <5> QED BY <5>1, CellSeqs
      <4>3. GroupsOf[n] = <<(n % Group) + Top>> \o g
        BY <3>2, GroupsUnfold
      <4>4. (n % Group) + Top \in Int
        BY LargestType DEF Group, Top
      <4>21. \A x : \A y \in Seq(Cells) : Len(<<x>> \o y) = Len(y) + 1
        OBVIOUS
      <4>5. Holds(b, at, <<(n % Group) + Top>>) /\ Holds(b, at + 1, g)
        <5> DEFINE c == (n % Group) + Top
        <5>1. <<c>> \in Seq(Int) /\ Len(<<c>>) = 1
          BY <4>4
        <5>2. Holds(b, at, <<c>> \o g)
          BY <4>3, <2>1
        <5> HIDE DEF c, g
        <5>3. Holds(b, at, <<c>>) /\ Holds(b, at + Len(<<c>>), g)
          BY <5>1, <5>2, <4>2, HoldsParts
        <5> QED BY <5>1, <5>3 DEF c
      <4>6. Number(b, (at + 1) + k, k) = n \div Group
        <5>1. n \div Group \in T
          <6> HIDE DEF T
          <6> QED BY <4>1, <1>1
        <5>2. at + 1 \in Nat
          OBVIOUS
        <5> QED BY <4>5, <5>1, <5>2
      <4>7. b[at + 1] = (n % Group) + Top
        BY <4>4, <4>5, HoldsCell
      <4>8. Len(GroupsOf[n]) = k + 1
        <5> QED BY <4>21, <4>2, <4>3, Zenon
      <4>9. (at + 1) + k \in 0..Len(b) /\ k + 1 \in 1..(at + 1) + k
        <5> HIDE DEF g
        <5> QED BY <4>5, <4>2 DEF Holds
      <4> DEFINE end == (at + 1) + k
      <4>10. Number(b, end, k + 1) = (b[end - (k + 1) + 1] % Group) + Group * Number(b, end, (k + 1) - 1)
        <5> HIDE DEF end, k
        <5> QED BY <4>9, NumberUnfold DEF end
      <4>11. end - (k + 1) + 1 = at + 1 /\ (k + 1) - 1 = k /\ end = at + (k + 1)
        <5> HIDE DEF g
        <5> QED BY <4>2
      <4>12. ((n % Group) + Top) % Group = n % Group /\ n = (n % Group) + Group * (n \div Group)
        BY LargestType DEF Group, Top
      <4> HIDE DEF end, k, g
      <4>13. Number(b, end, k + 1) = n
        BY <4>6, <4>7, <4>10, <4>11, <4>12 DEF end
      <4> QED BY <4>13, <4>8, <4>11 DEF k, g
    <3> QED BY <3>1, <3>2
  <2> QED BY <2>1
<1>2. 0..Largest \subseteq Nat
  BY LargestType
<1>3. \A n \in 0..Largest : n \in T
  <2> HIDE DEF T
  <2> QED BY <1>1, <1>2, StrongInduction
<1> QED BY <1>3

(***************************************************************************)
(* protodef's varint, of any number, at any offset of any buffer: it is    *)
(* read as the number that was written, and takes its size.                *)
(***************************************************************************)
THEOREM VarintReads ==
    ASSUME NEW b, NEW at, NEW n \in Numbers, Holds(b, at, Varint(n))
    PROVE  ReadVarint(b, at) = Read(Val("number", n, <<>>), SizeOfVarint(n))
<1> DEFINE g == Varint(n)
           L == Len(g)
           ends == {k \in 1..MaxGroups : at + k <= Len(b) /\ b[at + k] < Top
                                      /\ \A j \in 1..k - 1 : b[at + j] >= Top}
           e == CHOOSE k \in ends : TRUE
<1>1. n \in Int /\ b \in Seq(Int) /\ at \in Nat
  BY LargestType DEF Numbers, Holds
<1>2. Coded(g) /\ L \in 1..MaxGroups /\ L = SizeOfVarint(n) /\ MaxGroups \in Nat
  BY <1>1, VarintType, CodecsAssumption
<1>3. at + L <= Len(b) /\ \A i \in 1..L : b[at + i] = g[i]
  BY DEF Holds
<1>4. L \in ends
  <2> HIDE DEF g
  <2>1. b[at + L] < Top
    BY <1>2, <1>3 DEF Coded
  <2>2. \A j \in 1..L - 1 : b[at + j] >= Top
    BY <1>2, <1>3 DEF Coded
  <2> QED BY <1>2, <1>3, <2>1, <2>2
<1>5. ASSUME NEW k \in ends PROVE k = L
  <2> HIDE DEF g
  <2>1. k \in Nat /\ k >= 1 /\ L \in Nat /\ L >= 1
    BY <1>2
  <2>21. b[at + k] \in Int
    <3>1. at + k \in 1..Len(b)
      BY <1>1, <1>2
    <3> QED BY <3>1, <1>1
  <2>2. CASE k < L
    <3>1. k \in 1..L - 1 /\ k \in 1..L
      BY <2>1, <2>2
    <3>2. g[k] >= Top
      BY <3>1, <1>2 DEF Coded
    <3>3. b[at + k] = g[k]
      BY <3>1, <1>3
    <3>4. b[at + k] < Top
      OBVIOUS
    <3> QED BY <3>2, <3>3, <3>4, <2>21 DEF Top
  <2>3. CASE k > L
    <3>1. L \in 1..k - 1
      BY <2>1, <2>3
    <3>2. b[at + L] >= Top
      BY <3>1
    <3>3. b[at + L] = g[L] /\ g[L] < Top
      BY <2>1, <1>2, <1>3 DEF Coded
    <3>4. b[at + L] \in Int
      BY <1>1, <1>3, <2>1
    <3> QED BY <3>2, <3>3, <3>4 DEF Top
  <2> QED BY <2>1, <2>2, <2>3
<1>6. e = L /\ ends # {}
  <2> HIDE DEF ends, g, L
  <2> QED BY <1>4, <1>5
<1>7. Number(b, at + L, L) = Unsigned(n)
  BY <1>1, UnsignedType, NumberOfGroups DEF Varint
<1>8. Signed(Unsigned(Unsigned(n))) = n
  BY <1>1, UnsignedType
<1>9. ~(at < 0)
  BY <1>1
<1> HIDE DEF g
<1> QED BY <1>2, <1>6, <1>7, <1>8, <1>9 DEF ReadVarint

(* protodef's varint of any number is read as the signed number of its bits. *)
LEMMA VarintReadsAny ==
    ASSUME NEW b, NEW at, NEW n \in Int, Holds(b, at, Varint(n))
    PROVE  /\ ReadVarint(b, at) = Read(Val("number", Signed(Unsigned(n)), <<>>), SizeOfVarint(n))
           /\ Signed(Unsigned(n)) \in Numbers
           /\ Unsigned(Signed(Unsigned(n))) = Unsigned(n)
<1> DEFINE u == Unsigned(n)
           m == Signed(u)
<1>0. Half \in Nat \ {0}
  BY LargestType
<1>1. u \in 0..Largest /\ Largest = 2 * Half - 1
  BY UnsignedType, LargestType
<1>2. m \in Numbers /\ (m = u \/ (m = u - 2 * Half /\ u >= Half))
  <2> HIDE DEF u
  <2> QED BY <1>0, <1>1 DEF Numbers, Signed
<1>3. Unsigned(m) = u
  <2> HIDE DEF u, m
  <2>1. CASE m = u
    BY <2>1, <1>1, UnsignedType
  <2>2. CASE m = u - 2 * Half /\ u >= Half
    <3>1. m \in -Half..-1
      BY <2>2, <1>0, <1>1
    <3>2. \A x \in -Half..-1 : x % (2 * Half) = x + 2 * Half
      BY <1>0
    <3>3. m % (2 * Half) = m + 2 * Half
      BY <3>1, <3>2
    <3> QED BY <3>3, <2>2, <1>0, <1>1 DEF Unsigned
  <2> QED BY <1>2, <2>1, <2>2
<1>4. Varint(m) = Varint(n) /\ SizeOfVarint(m) = SizeOfVarint(n)
  <2> HIDE DEF m
  <2> QED BY <1>3 DEF Varint, SizeOfVarint
<1>5. ReadVarint(b, at) = Read(Val("number", m, <<>>), SizeOfVarint(m))
  <2> HIDE DEF m
  <2> QED BY <1>2, <1>4, VarintReads
<1> QED BY <1>2, <1>3, <1>4, <1>5

(* Where the parts of a concatenation are. *)
LEMMA ConcatHolds ==
    ASSUME NEW b, NEW at, NEW s \in Seq(Seq(Int)), Holds(b, at, Concat(s))
    PROVE  \A k \in 1..Len(s) : Holds(b, at + Len(ConcatTo(s, k - 1)), s[k])
<1> DEFINE T == {j \in 0..Len(s) : Holds(b, at, ConcatTo(s, Len(s) - j))}
<1>0. Len(s) \in Nat
  OBVIOUS
<1>1. 0 \in T
  <2>1. Len(s) - 0 = Len(s)
    BY <1>0
  <2> QED BY <2>1, <1>0 DEF Concat
<1>2. ASSUME NEW k \in 1..Len(s), Holds(b, at, ConcatTo(s, k))
      PROVE  Holds(b, at, ConcatTo(s, k - 1)) /\ Holds(b, at + Len(ConcatTo(s, k - 1)), s[k])
  <2>1. ConcatTo(s, k) = ConcatTo(s, k - 1) \o s[k]
    BY ConcatUnfold, Zenon
  <2>2. k - 1 \in 0..Len(s)
    BY <1>0
  <2>3. ConcatTo(s, k - 1) \in Seq(Int)
    BY <2>2, ConcatUnfold
  <2>4. s[k] \in Seq(Int)
    OBVIOUS
  <2> QED BY <2>1, <2>3, <2>4, <1>2, HoldsParts
<1>3. ASSUME NEW j \in 1..Len(s), j - 1 \in T PROVE j \in T
  <2>1. Len(s) - (j - 1) \in 1..Len(s) /\ (Len(s) - (j - 1)) - 1 = Len(s) - j /\ j \in 0..Len(s)
    BY <1>0
  <2>2. Holds(b, at, ConcatTo(s, Len(s) - (j - 1)))
    BY <1>3
  <2>3. Holds(b, at, ConcatTo(s, (Len(s) - (j - 1)) - 1))
    BY <2>1, <2>2, <1>2
  <2> QED BY <2>1, <2>3
<1>4. \A j \in 0..Len(s) : j \in T
  <2> HIDE DEF T
  <2> QED BY <1>0, <1>1, <1>3, UpTo
<1>5. ASSUME NEW k \in 1..Len(s) PROVE Holds(b, at + Len(ConcatTo(s, k - 1)), s[k])
  <2>1. Len(s) - k \in 0..Len(s) /\ Len(s) - (Len(s) - k) = k
    BY <1>0
  <2>2. Holds(b, at, ConcatTo(s, Len(s) - (Len(s) - k)))
    BY <2>1, <1>4
  <2>3. Holds(b, at, ConcatTo(s, k))
    BY <2>1, <2>2
  <2> QED BY <2>3, <1>2
<1> QED BY <1>5

(* The lengths add up. *)
LEMMA ConcatLength ==
    ASSUME NEW s \in Seq(Seq(Int)), NEW sizes \in Seq(Int), Len(sizes) = Len(s),
           \A i \in 1..Len(s) : Len(s[i]) = sizes[i]
    PROVE  \A k \in 0..Len(s) : Len(ConcatTo(s, k)) = TotalTo(sizes, k)
<1> DEFINE T == {k \in 0..Len(s) : Len(ConcatTo(s, k)) = TotalTo(sizes, k)}
<1>0. Len(s) \in Nat
  OBVIOUS
<1>1. 0 \in T
  <2>1. ConcatTo(s, 0) = <<>>
    BY ConcatUnfold
  <2>2. TotalTo(sizes, 0) = 0
    BY SumUnfold
  <2> QED BY <1>0, <2>1, <2>2
<1>2. ASSUME NEW k \in 1..Len(s), k - 1 \in T PROVE k \in T
  <2>1. ConcatTo(s, k) = ConcatTo(s, k - 1) \o s[k]
    BY ConcatUnfold, Zenon
  <2>2. k - 1 \in 0..Len(s) /\ k \in 0..Len(s)
    BY <1>0
  <2>3. ConcatTo(s, k - 1) \in Seq(Int)
    BY <2>2, ConcatUnfold
  <2>4. s[k] \in Seq(Int)
    OBVIOUS
  <2>5. \A x, y \in Seq(Int) : Len(x \o y) = Len(x) + Len(y)
    OBVIOUS
  <2>6. Len(ConcatTo(s, k)) = Len(ConcatTo(s, k - 1)) + Len(s[k])
    BY <2>1, <2>3, <2>4, <2>5, Zenon
  <2>7. TotalTo(sizes, k) = TotalTo(sizes, k - 1) + sizes[k]
    BY SumUnfold
  <2>8. Len(ConcatTo(s, k - 1)) = TotalTo(sizes, k - 1) /\ Len(s[k]) = sizes[k]
    BY <1>2
  <2>9. Len(ConcatTo(s, k)) = TotalTo(sizes, k)
    BY <2>6, <2>7, <2>8, Zenon
  <2> QED BY <2>2, <2>9
<1>3. \A k \in 0..Len(s) : k \in T
  <2> HIDE DEF T
  <2> QED BY <1>0, <1>1, <1>2, UpTo
<1> QED BY <1>3

(* Sums of naturals are naturals and grow. *)
LEMMA SumGrows ==
    ASSUME NEW s \in Seq(Nat)
    PROVE  /\ \A k \in 0..Len(s) : TotalTo(s, k) \in Nat
           /\ \A k \in 0..Len(s) : \A j \in 0..k : TotalTo(s, j) <= TotalTo(s, k)
<1>0. Len(s) \in Nat /\ s \in Seq(Int) /\ \A k \in 1..Len(s) : s[k] \in Nat
  <2>1. Len(s) \in Nat /\ s \in [1..Len(s) -> Nat]
    OBVIOUS
  <2>2. s \in [1..Len(s) -> Int]
    BY <2>1
  <2> QED BY <2>1, <2>2
<1> DEFINE T == {k \in 0..Len(s) : TotalTo(s, k) \in Nat /\ \A j \in 0..k : TotalTo(s, j) <= TotalTo(s, k)}
<1>1. 0 \in T
  <2>1. TotalTo(s, 0) = 0
    BY <1>0, SumUnfold
  <2>2. \A j \in 0..0 : j = 0
    OBVIOUS
  <2> QED BY <1>0, <2>1, <2>2
<1>2. ASSUME NEW k \in 1..Len(s), k - 1 \in T PROVE k \in T
  <2>1. TotalTo(s, k) = TotalTo(s, k - 1) + s[k]
    BY <1>0, SumUnfold
  <2>2. k - 1 \in 0..Len(s) /\ k \in 0..Len(s) /\ s[k] \in Nat /\ TotalTo(s, k - 1) \in Nat
    BY <1>0, <1>2
  <2>3. TotalTo(s, k) \in Nat /\ TotalTo(s, k - 1) <= TotalTo(s, k)
    BY <2>1, <2>2
  <2>4. ASSUME NEW j \in 0..k PROVE TotalTo(s, j) <= TotalTo(s, k)
    <3>1. CASE j = k
      BY <3>1, <2>3
    <3>2. CASE j # k
      <4>1. j \in 0..k - 1 /\ j \in 0..Len(s)
        BY <3>2, <1>0
      <4>2. TotalTo(s, j) <= TotalTo(s, k - 1)
        BY <4>1, <1>2
      <4>3. TotalTo(s, j) \in Int
        BY <4>1, <1>0, SumUnfold
      <4> QED BY <4>2, <4>3, <2>2, <2>3
    <3> QED BY <3>1, <3>2
  <2> QED BY <2>2, <2>3, <2>4
<1>3. \A k \in 0..Len(s) : k \in T
  <2> HIDE DEF T
  <2> QED BY <1>0, <1>1, <1>2, UpTo
<1> QED BY <1>3

(* A sum of positive numbers is at least their number. *)
LEMMA SumOfOnes ==
    ASSUME NEW s \in Seq(Nat \ {0})
    PROVE  \A k \in 0..Len(s) : k <= TotalTo(s, k)
<1>0. Len(s) \in Nat /\ s \in Seq(Int) /\ \A k \in 1..Len(s) : s[k] \in Nat \ {0}
  <2>1. Len(s) \in Nat /\ s \in [1..Len(s) -> Nat \ {0}]
    OBVIOUS
  <2>2. s \in [1..Len(s) -> Int]
    BY <2>1
  <2> QED BY <2>1, <2>2
<1> DEFINE T == {k \in 0..Len(s) : k <= TotalTo(s, k)}
<1>1. 0 \in T
  BY <1>0, SumUnfold
<1>2. ASSUME NEW k \in 1..Len(s), k - 1 \in T PROVE k \in T
  <2>1. TotalTo(s, k) = TotalTo(s, k - 1) + s[k]
    BY <1>0, SumUnfold
  <2>2. k - 1 \in 0..Len(s) /\ k \in 0..Len(s) /\ s[k] \in Nat \ {0} /\ k - 1 <= TotalTo(s, k - 1)
    BY <1>0, <1>2
  <2>3. TotalTo(s, k - 1) \in Int
    BY <2>2, <1>0, SumUnfold
  <2> QED BY <2>1, <2>2, <2>3
<1>3. \A k \in 0..Len(s) : k \in T
  <2> HIDE DEF T
  <2> QED BY <1>0, <1>1, <1>2, UpTo
<1> QED BY <1>3

(* What is written takes the cells of its size. *)
Fits(cells, size) == cells \in Seq(Cells) /\ size \in Nat /\ Len(cells) = size

(* The numbers of a varint are integers. *)
LEMMA NumbersInt == Numbers \subseteq Int /\ 0 \in Numbers /\ Half \in Nat \ {0}
BY LargestType DEF Numbers

(* sizeOf a varint is what its writer takes. *)
LEMMA VarintFits == \A n \in Int : Fits(Varint(n), SizeOfVarint(n)) /\ SizeOfVarint(n) >= 1
<1>1. ASSUME NEW n \in Int PROVE Fits(Varint(n), SizeOfVarint(n)) /\ SizeOfVarint(n) >= 1
  <2>1. Varint(n) \in Seq(Cells) /\ Len(Varint(n)) \in 1..MaxGroups /\ Len(Varint(n)) = SizeOfVarint(n)
    BY VarintType
  <2>2. MaxGroups \in Nat
    BY CodecsAssumption
  <2> QED BY <2>1, <2>2 DEF Fits
<1> QED BY <1>1

(* A cell takes a cell. *)
LEMMA CellFits == \A c \in Cells : Fits(<<c>>, 1)
BY DEF Fits

(* What two fields take is the sum of what each takes. *)
LEMMA BothFit ==
    ASSUME NEW x, NEW m, NEW y, NEW n, Fits(x, m), Fits(y, n)
    PROVE  Fits(x \o y, m + n)
<1>1. x \in Seq(Cells) /\ y \in Seq(Cells) /\ m \in Nat /\ n \in Nat /\ Len(x) = m /\ Len(y) = n
  BY DEF Fits
<1>2. \A s, t \in Seq(Cells) : s \o t \in Seq(Cells) /\ Len(s \o t) = Len(s) + Len(t)
  OBVIOUS
<1>3. x \o y \in Seq(Cells) /\ Len(x \o y) = Len(x) + Len(y)
  BY <1>1, <1>2, Zenon
<1>4. m + n \in Nat
  BY <1>1
<1> QED BY <1>1, <1>3, <1>4 DEF Fits

(* Of two sequences, one behind the other, each is there. *)
LEMMA HeldParts ==
    ASSUME NEW b, NEW at, NEW x, NEW m, NEW y, NEW n, Fits(x, m), Fits(y, n), Holds(b, at, x \o y)
    PROVE  Holds(b, at, x) /\ Holds(b, at + m, y)
<1>1. x \in Seq(Int) /\ y \in Seq(Int) /\ Len(x) = m
  BY CellSeqs DEF Fits
<1> QED BY <1>1, HoldsParts

(* What the items of a list take, and where each one is. *)
LEMMA ConcatFits ==
    ASSUME NEW s, NEW sizes \in Seq(Nat), DOMAIN s = DOMAIN sizes, s \in [DOMAIN s -> Seq(Cells)],
           \A i \in DOMAIN sizes : Fits(s[i], sizes[i])
    PROVE  /\ Fits(Concat(s), Total(sizes))
           /\ \A b, at : Holds(b, at, Concat(s)) =>
                  \A k \in 1..Len(sizes) : Holds(b, at + TotalTo(sizes, k - 1), s[k])
<1>1. Len(sizes) \in Nat /\ DOMAIN sizes = 1..Len(sizes) /\ sizes \in Seq(Int)
  <2>1. Len(sizes) \in Nat /\ DOMAIN sizes = 1..Len(sizes) /\ sizes \in [1..Len(sizes) -> Nat]
    OBVIOUS
  <2>2. sizes \in [1..Len(sizes) -> Int]
    BY <2>1
  <2> QED BY <2>1, <2>2
<1>2. s \in Seq(Seq(Cells)) /\ Len(s) = Len(sizes)
  BY <1>1
<1>3. s \in Seq(Seq(Int))
  <2>1. s \in [1..Len(sizes) -> Seq(Int)]
    BY <1>1, CellSeqs
  <2> QED BY <2>1, <1>1
<1>4. \A i \in 1..Len(s) : Len(s[i]) = sizes[i]
  BY <1>1, <1>2 DEF Fits
<1>5. \A k \in 0..Len(s) : Len(ConcatTo(s, k)) = TotalTo(sizes, k)
  BY <1>1, <1>2, <1>3, <1>4, ConcatLength
<1>6. Concat(s) \in Seq(Cells)
  <2>1. ConcatTo(s, Len(s)) \in Seq(Cells)
    <3>1. Len(s) \in 0..Len(s)
      BY <1>1, <1>2
    <3> QED BY <1>2, <3>1, ConcatUnfold
  <2> QED BY <2>1 DEF Concat
<1>7. Total(sizes) \in Nat
  BY <1>1, SumGrows DEF Total
<1>8. Fits(Concat(s), Total(sizes))
  BY <1>1, <1>2, <1>5, <1>6, <1>7 DEF Fits, Concat, Total
<1>9. ASSUME NEW b, NEW at, Holds(b, at, Concat(s)), NEW k \in 1..Len(sizes)
      PROVE Holds(b, at + TotalTo(sizes, k - 1), s[k])
  <2>1. Holds(b, at + Len(ConcatTo(s, k - 1)), s[k])
    BY <1>2, <1>3, <1>9, ConcatHolds
  <2>2. k - 1 \in 0..Len(s)
    BY <1>1, <1>2
  <2> QED BY <2>1, <2>2, <1>5
<1> QED BY <1>8, <1>9

(* A value that is a kind and a number. *)
LEMMA PlainValue ==
    ASSUME NEW kinds, NEW ns, NEW v \in Plain(kinds, ns)
    PROVE  v.kind \in kinds /\ v.n \in ns /\ v.items = <<>> /\ v = Val(v.kind, v.n, <<>>)
BY DEF Plain, Val

(* A value that holds nothing but a list. *)
LEMMA ListValue ==
    ASSUME NEW kinds, NEW ns, NEW keys, NEW entries, NEW v \in Lists(kinds, ns, keys, entries)
    PROVE  /\ v.kind \in kinds /\ v.n \in ns /\ v.items \in Seq([key: keys, n: entries])
           /\ v = Val(v.kind, v.n, v.items)
BY DEF Lists, Val

(* A sequence, its length and its elements. *)
LEMMA SeqParts ==
    ASSUME NEW A, NEW s \in Seq(A)
    PROVE  /\ Len(s) \in Nat /\ DOMAIN s = 1..Len(s)
           /\ \A i \in 1..Len(s) : s[i] \in A
           /\ s = [i \in 1..Len(s) |-> s[i]]
OBVIOUS

(* An entry is its key and its number. *)
LEMMA EntryValue ==
    ASSUME NEW keys, NEW entries, NEW e \in [key: keys, n: entries]
    PROVE  e.key \in keys /\ e.n \in entries /\ e = Entry(e.key, e.n)
BY DEF Entry

(* A 16 bit number is read as it was written. *)
LEMMA ShortType == \A n \in Shorts : Short(n) \in Cells /\ ShortOf(Short(n)) = n
BY DEF Shorts, Short, Cells, ShortOf, Top, Group

(* What has been read. *)
LEMMA ReadFields ==
    \A v, n : Read(v, n).ok /\ Read(v, n).value = v /\ Read(v, n).size = n
BY DEF Read

(* The parts of a value. *)
LEMMA ValFields ==
    \A k, n, i : Val(k, n, i).kind = k /\ Val(k, n, i).n = n /\ Val(k, n, i).items = i
BY DEF Val

-----------------------------------------------------------------------------
(* optionalVarInt: 0 is none, and a number is one less than what is written. *)
LEMMA OptionalVarIntCarried ==
    ASSUME NEW v \in Values("optionalVarInt")
    PROVE  /\ Fits(OptionalVarInt(v), SizeOfOptionalVarInt(v))
           /\ \A b, at : Holds(b, at, OptionalVarInt(v)) =>
                  ReadOptionalVarInt(b, at) = Read(v, SizeOfOptionalVarInt(v))
<1> DEFINE n == IF v.kind = "none" THEN 0 ELSE v.n + 1
<1>1. v = Val("none", 0, <<>>) \/ (v.n \in 0..Half - 2 /\ v = Val("number", v.n, <<>>))
  <2>1. v \in Plain({"none"}, {0}) \/ v \in Plain({"number"}, 0..Half - 2)
    BY DEF Values
  <2>2. CASE v \in Plain({"none"}, {0})
    <3>1. v.kind \in {"none"} /\ v.n \in {0} /\ v = Val(v.kind, v.n, <<>>)
      BY <2>2, PlainValue
    <3> QED BY <3>1
  <2>3. CASE v \in Plain({"number"}, 0..Half - 2)
    <3>1. v.kind \in {"number"} /\ v.n \in 0..Half - 2 /\ v = Val(v.kind, v.n, <<>>)
      BY <2>3, PlainValue
    <3> QED BY <3>1
  <2> QED BY <2>1, <2>2, <2>3
<1>2. n \in Numbers /\ n \in Int /\ (n = 0 <=> v.kind = "none")
  <2>1. CASE v = Val("none", 0, <<>>)
    BY <2>1, NumbersInt DEF Val
  <2>2. CASE v.n \in 0..Half - 2 /\ v = Val("number", v.n, <<>>)
    <3>1. v.kind = "number"
      BY <2>2 DEF Val
    <3> QED BY <3>1, <2>2, NumbersInt DEF Numbers
  <2> QED BY <1>1, <2>1, <2>2
<1>3. (IF n = 0 THEN Val("none", 0, <<>>) ELSE Val("number", n - 1, <<>>)) = v
  <2>1. CASE v = Val("none", 0, <<>>)
    BY <2>1, <1>2 DEF Val
  <2>2. CASE v.n \in 0..Half - 2 /\ v = Val("number", v.n, <<>>)
    <3>1. v.kind = "number"
      BY <2>2 DEF Val
    <3>2. n = v.n + 1 /\ n - 1 = v.n /\ n # 0
      BY <3>1, <2>2
    <3> QED BY <3>2, <2>2
  <2> QED BY <1>1, <2>1, <2>2
<1> HIDE DEF n
<1>4. Fits(Varint(n), SizeOfVarint(n))
  BY <1>2, VarintFits
<1>5. ASSUME NEW b, NEW at, Holds(b, at, Varint(n))
      PROVE  ReadOptionalVarInt(b, at) = Read(v, SizeOfVarint(n))
  <2>1. ReadVarint(b, at) = Read(Val("number", n, <<>>), SizeOfVarint(n))
    BY <1>2, <1>5, VarintReads
  <2> QED BY <2>1, <1>3, ReadFields, ValFields DEF ReadOptionalVarInt, Typed
<1> QED BY <1>4, <1>5 DEF OptionalVarInt, SizeOfOptionalVarInt, n

(* varlong: a number where one is safe, a bigint otherwise. *)
LEMMA VarLongCarried ==
    ASSUME NEW v \in Values("varlong")
    PROVE  /\ Fits(VarLong(v), SizeOfVarint(v.n))
           /\ \A b, at : Holds(b, at, VarLong(v)) =>
                  ReadVarLong(b, at) =
                      Read([v EXCEPT !.kind = IF Scale(v) <= MaxSafe THEN "number" ELSE "bigint"],
                           SizeOfVarint(v.n))
<1>1. v.n \in Numbers /\ v.n \in Int /\ v = Val(v.kind, v.n, <<>>)
  <2>1. v \in Plain({"number", "bigint"}, Numbers)
    BY DEF Values
  <2> QED BY <2>1, PlainValue, NumbersInt
<1>2. ASSUME NEW b, NEW at, Holds(b, at, Varint(v.n))
      PROVE  ReadVarLong(b, at) =
                 Read([v EXCEPT !.kind = IF Scale(v) <= MaxSafe THEN "number" ELSE "bigint"],
                      SizeOfVarint(v.n))
  <2> DEFINE w == Val("number", v.n, <<>>)
  <2>1. ReadVarint(b, at) = Read(w, SizeOfVarint(v.n))
    BY <1>1, <1>2, VarintReads
  <2>2. Scale(w) = Scale(v)
    BY <1>1 DEF Scale, Val
  <2>3. [v EXCEPT !.kind = IF Scale(v) <= MaxSafe THEN "number" ELSE "bigint"]
            = IF Scale(v) <= MaxSafe THEN w ELSE Val("bigint", v.n, <<>>)
    BY <1>1 DEF Val
  <2>4. w.n = v.n
    BY ValFields
  <2> HIDE DEF w
  <2> QED BY <2>1, <2>2, <2>3, <2>4, ReadFields DEF ReadVarLong, Typed
<1> QED BY <1>1, <1>2, VarintFits DEF VarLong

(* registryEntryHolder, but for the inline one of the compiled writer. *)
LEMMA HolderCarried ==
    ASSUME NEW impl, NEW v \in Values("registryEntryHolder"),
           impl = "compiled" => v.kind = "base"
    PROVE  /\ Fits(Holder(impl, v), SizeOfHolder(v))
           /\ \A b, at : Holds(b, at, Holder(impl, v)) => ReadHolder(b, at) = Read(v, SizeOfHolder(v))
<1>1. CASE v \in Plain({"base"}, 0..Half - 2)
  <2>1. v.kind = "base" /\ v.n \in 0..Half - 2 /\ v = Val("base", v.n, <<>>)
    <3>1. v.kind \in {"base"} /\ v.n \in 0..Half - 2 /\ v = Val(v.kind, v.n, <<>>)
      BY <1>1, PlainValue
    <3> QED BY <3>1
  <2>2. v.n + 1 \in Numbers /\ v.n + 1 \in Int /\ v.n + 1 # 0 /\ (v.n + 1) - 1 = v.n
    BY <2>1, NumbersInt DEF Numbers
  <2>3. Holder(impl, v) = Varint(v.n + 1) /\ SizeOfHolder(v) = SizeOfVarint(v.n + 1)
    BY <2>1 DEF Holder, SizeOfHolder
  <2>4. ASSUME NEW b, NEW at, Holds(b, at, Varint(v.n + 1))
        PROVE  ReadHolder(b, at) = Read(v, SizeOfVarint(v.n + 1))
    <3>1. ReadVarint(b, at) = Read(Val("number", v.n + 1, <<>>), SizeOfVarint(v.n + 1))
      BY <2>2, <2>4, VarintReads
    <3> QED BY <3>1, <2>1, <2>2, ReadFields, ValFields DEF ReadHolder, Then
  <2> QED BY <2>2, <2>3, <2>4, VarintFits
<1>2. CASE v \in Plain({"other"}, Numbers)
  <2>1. v.kind = "other" /\ v.n \in Numbers /\ v.n \in Int /\ v = Val("other", v.n, <<>>)
    <3>1. v.kind \in {"other"} /\ v.n \in Numbers /\ v = Val(v.kind, v.n, <<>>)
      BY <1>2, PlainValue
    <3> QED BY <3>1, NumbersInt
  <2>2. Holder(impl, v) = Varint(0) \o Varint(v.n) /\ SizeOfHolder(v) = 1 + SizeOfVarint(v.n)
    BY <2>1 DEF Holder, SizeOfHolder, HolderZero
  <2>3. SizeOfVarint(0) = 1
    BY CountUnfold, UnsignedType, LargestType DEF SizeOfVarint, Group
  <2>4. Fits(Varint(0), 1) /\ Fits(Varint(v.n), SizeOfVarint(v.n))
    BY <2>1, <2>3, VarintFits
  <2>5. ASSUME NEW b, NEW at, Holds(b, at, Varint(0) \o Varint(v.n))
        PROVE  ReadHolder(b, at) = Read(v, 1 + SizeOfVarint(v.n))
    <3>1. Holds(b, at, Varint(0)) /\ Holds(b, at + 1, Varint(v.n))
      BY <2>4, <2>5, HeldParts
    <3>2. ReadVarint(b, at) = Read(Val("number", 0, <<>>), 1)
      BY <3>1, <2>3, VarintReads, NumbersInt
    <3>3. ReadVarint(b, at + 1) = Read(Val("number", v.n, <<>>), SizeOfVarint(v.n))
      BY <3>1, <2>1, VarintReads
    <3> QED BY <3>2, <3>3, <2>1, ReadFields, ValFields DEF ReadHolder, Then
  <2> QED BY <2>2, <2>4, <2>5, BothFit
<1> QED BY <1>1, <1>2 DEF Values

(* UUID: with its dashes. *)
LEMMA UUIDCarried ==
    ASSUME NEW v \in Values("UUID")
    PROVE  /\ Fits(UUID(v), 2)
           /\ \A b, at : Holds(b, at, UUID(v)) =>
                  ReadUUID(b, at) = Read([v EXCEPT !.kind = "dashed"], 2)
<1>1. v.n \in Cells /\ v = Val(v.kind, v.n, <<>>)
  <2>1. v \in Plain({"dashed", "hex"}, Cells)
    BY DEF Values
  <2> QED BY <2>1, PlainValue
<1>2. Fits(UUID(v), 2)
  BY <1>1 DEF Fits, UUID
<1>3. [v EXCEPT !.kind = "dashed"] = Val("dashed", v.n, <<>>)
  BY <1>1 DEF Val
<1>4. ASSUME NEW b, NEW at, Holds(b, at, UUID(v))
      PROVE  ReadUUID(b, at) = Read([v EXCEPT !.kind = "dashed"], 2)
  <2>1. at \in Nat /\ at + 2 <= Len(b) /\ b \in Seq(Int) /\ b[at + 1] = v.n
    BY <1>4 DEF Holds, UUID
  <2>2. ~(at + 2 > Len(b))
    BY <2>1
  <2> QED BY <2>1, <2>2, <1>3 DEF ReadUUID
<1> QED BY <1>2, <1>4

(* restBuffer: what is left of the buffer. *)
LEMMA RestBufferCarried ==
    ASSUME NEW v \in Values("restBuffer")
    PROVE  /\ Fits(RestBuffer(v), Len(v.items))
           /\ \A b, at : Holds(b, at, RestBuffer(v)) /\ at + Len(v.items) = Len(b) =>
                  ReadRestBuffer(b, at) = Read(v, Len(v.items))
<1>1. v.items \in Seq([key: Cells, n: {0}]) /\ v = Val("number", 0, v.items)
  <2>1. v \in Lists({"number"}, {0}, Cells, {0})
    BY DEF Values
  <2>2. v.kind \in {"number"} /\ v.n \in {0} /\ v.items \in Seq([key: Cells, n: {0}]) /\ v = Val(v.kind, v.n, v.items)
    BY <2>1, ListValue
  <2> QED BY <2>2
<1> DEFINE k == Len(v.items)
<1>2. k \in Nat /\ DOMAIN v.items = 1..k /\ \A i \in 1..k : v.items[i] \in [key: Cells, n: {0}]
  BY <1>1, SeqParts
<1>3. \A i \in 1..k : v.items[i].key \in Cells /\ v.items[i] = Entry(v.items[i].key, 0)
  <2>1. ASSUME NEW i \in 1..k PROVE v.items[i].key \in Cells /\ v.items[i] = Entry(v.items[i].key, 0)
    <3>1. v.items[i].key \in Cells /\ v.items[i].n \in {0} /\ v.items[i] = Entry(v.items[i].key, v.items[i].n)
      BY <1>2, EntryValue
    <3> QED BY <3>1
  <2> QED BY <2>1
<1>4. Fits(RestBuffer(v), k)
  BY <1>2, <1>3 DEF Fits, RestBuffer
<1>5. ASSUME NEW b, NEW at, Holds(b, at, RestBuffer(v)), at + k = Len(b)
      PROVE  ReadRestBuffer(b, at) = Read(v, k)
  <2>1. at \in Nat /\ Len(b) \in Nat /\ Len(b) - at = k
    BY <1>2, <1>5 DEF Holds
  <2>2. \A i \in 1..k : b[at + i] = v.items[i].key
    BY <1>2, <1>4, <1>5 DEF Holds, RestBuffer, Fits
  <2>3. [i \in 1..k |-> Entry(b[at + i], 0)] = v.items
    <3>1. v.items = [i \in 1..k |-> v.items[i]]
      BY <1>1, <1>2
    <3> QED BY <3>1, <2>2, <1>3
  <2>4. ~(Len(b) - at < 0)
    BY <2>1, <1>2
  <2> HIDE DEF k
  <2> QED BY <1>1, <2>1, <2>3, <2>4 DEF ReadRestBuffer, Items
<1> QED BY <1>4, <1>5

(* The cells that are there are those of the buffer. *)
LEMMA HeldRange ==
    ASSUME NEW b, NEW at, NEW cells, NEW n, Fits(cells, n), Holds(b, at, cells)
    PROVE  SubSeq(b, at + 1, at + n) = cells /\ at + n <= Len(b)
<1>1. /\ b \in Seq(Int) /\ cells \in Seq(Cells) /\ n \in Nat /\ Len(cells) = n
      /\ at \in Nat /\ at + n <= Len(b)
      /\ \A i \in 1..n : b[at + i] = cells[i]
  BY DEF Fits, Holds
<1>2. cells = [i \in 1..n |-> cells[i]]
  BY <1>1, SeqParts
<1>3. SubSeq(b, at + 1, at + n) = [i \in 1..n |-> b[at + i]]
  <2>1. SubSeq(b, at + 1, at + n) = [i \in 1..(1 + (at + n) - (at + 1)) |-> b[i + (at + 1) - 1]]
    BY <1>1
  <2>2. 1 + (at + n) - (at + 1) = n /\ \A i \in 1..n : i + (at + 1) - 1 = at + i
    BY <1>1
  <2> QED BY <2>1, <2>2
<1>4. [i \in 1..n |-> b[at + i]] = [i \in 1..n |-> cells[i]]
  BY <1>1
<1> QED BY <1>1, <1>2, <1>3, <1>4

Tags == Plain({"none"}, {0}) \cup Plain({"tag"}, Nat)

(* A tag is read as itself. *)
LEMMA TagReads ==
    ASSUME NEW v \in Tags
    PROVE  /\ Tag(v) \in Seq(Cells) /\ Len(Tag(v)) \in Nat /\ Len(Tag(v)) >= 1
           /\ ReadTag(Tag(v)) = Read(v, Len(Tag(v)))
<1>1. CASE v \in Plain({"none"}, {0})
  <2>1. v.kind \in {"none"} /\ v.n \in {0} /\ v = Val(v.kind, v.n, <<>>)
    BY <1>1, PlainValue
  <2>2. Tag(v) = << 0 >>
    BY <2>1 DEF Tag
  <2>3. << 0 >> \in Seq(Cells) /\ Len(<< 0 >>) = 1
    BY DEF Cells, Top, Group
  <2> QED BY <2>1, <2>2, <2>3 DEF ReadTag
<1>2. CASE v \in Plain({"tag"}, Nat)
  <2>1. v.kind \in {"tag"} /\ v.n \in Nat /\ v = Val(v.kind, v.n, <<>>)
    BY <1>2, PlainValue
  <2> DEFINE n == v.n
             rest == [i \in 1..n |-> 2]
             t == << 1 >> \o rest
  <2>2. Tag(v) = t
    BY <2>1 DEF Tag
  <2>3. n \in Nat
    BY <2>1
  <2> HIDE DEF n
  <2>4. rest \in Seq(Cells) /\ Len(rest) = n /\ 1 \in Cells
    BY <2>3 DEF Cells, Top, Group
  <2>5. t \in Seq(Cells) /\ Len(t) = n + 1 /\ t[1] = 1
    <3> HIDE DEF rest
    <3> QED BY <2>3, <2>4
  <2>6. t # << 0 >> /\ t # <<>> /\ Len(t) - 1 = n
    <3> HIDE DEF t
    <3> QED BY <2>3, <2>5
  <2>7. t = << 1 >> \o [i \in 1..Len(t) - 1 |-> 2]
    BY <2>6
  <2>8. v = Val("tag", n, <<>>)
    BY <2>1 DEF n
  <2> HIDE DEF t, rest
  <2>9. ReadTag(t) = Read(v, Len(t))
    BY <2>6, <2>7, <2>8 DEF ReadTag
  <2> QED BY <2>2, <2>3, <2>5, <2>9
<1> QED BY <1>1, <1>2 DEF Tags

(* The tag behind its length, in a coding that the reader takes back. *)
LEMMA SizedReads ==
    ASSUME NEW v \in Tags, NEW b, NEW at \in Nat, NEW size \in Nat, NEW cells, NEW decompress,
           Fits(cells, Len(Tag(v))), Holds(b, at + size, cells),
           \A i \in 1..Len(Tag(v)) : decompress[cells[i]] = Tag(v)[i]
    PROVE  ReadSized(Read(Val("number", Len(Tag(v)), <<>>), size), decompress, b, at)
               = Read(v, size + Len(Tag(v)))
<1> DEFINE t == Tag(v)
           n == Len(t)
<1>1. t \in Seq(Cells) /\ n \in Nat /\ ReadTag(t) = Read(v, n)
  BY TagReads
<1> HIDE DEF t
<1>2. SubSeq(b, (at + size) + 1, (at + size) + n) = cells /\ (at + size) + n <= Len(b)
  <2>1. Fits(cells, n)
    BY DEF t
  <2> QED BY <2>1, HeldRange
<1>3. Len(b) \in Nat
  BY DEF Holds
<1>4. DOMAIN cells = 1..n
  <2>1. cells \in Seq(Cells) /\ Len(cells) = n
    BY DEF Fits, t
  <2> QED BY <2>1, SeqParts
<1>5. [i \in DOMAIN cells |-> decompress[cells[i]]] = t
  <2>1. t = [i \in 1..n |-> t[i]]
    BY <1>1, SeqParts
  <2>2. \A i \in 1..n : decompress[cells[i]] = t[i]
    BY DEF t
  <2> QED BY <1>4, <2>1, <2>2
<1>6. ~(n < 0 \/ (at + size) + n > Len(b))
  BY <1>1, <1>2, <1>3
<1> DEFINE r == Read(Val("number", n, <<>>), size)
<1>7. r.ok /\ r.value.n = n /\ r.size = size
  BY ReadFields, ValFields
<1> HIDE DEF n, r
<1>8. ReadSized(r, decompress, b, at) = Read(v, size + n)
  <2> DEFINE part == SubSeq(b, (at + r.size) + 1, (at + r.size) + r.value.n)
             tag == ReadTag([i \in DOMAIN part |-> decompress[part[i]]])
  <2>1. part = cells
    BY <1>2, <1>7
  <2>2. tag = Read(v, n)
    <3> HIDE DEF part
    <3> QED BY <2>1, <1>1, <1>5 DEF n
  <2>3. tag.ok /\ tag.value = v
    <3> HIDE DEF tag
    <3> QED BY <2>2, ReadFields
  <2>4. ReadSized(r, decompress, b, at) =
            IF ~r.ok THEN Thrown
            ELSE IF r.value.n < 0 \/ (at + r.size) + r.value.n > Len(b) \/ ~tag.ok THEN Thrown
            ELSE Read(tag.value, r.size + r.value.n)
    BY DEF ReadSized
  <2> HIDE DEF part, tag
  <2> QED BY <1>6, <1>7, <2>3, <2>4 DEF n
<1> QED BY <1>8 DEF r, n, t

(* clickActionNbt: the tag behind its length. *)
LEMMA ClickActionNbtCarried ==
    ASSUME NEW v \in Values("clickActionNbt"), ~(Len(Tag(v)) > MaxNbt)
    PROVE  /\ Fits(ClickActionNbt(v), SizeOfClickActionNbt(v))
           /\ \A b, at : Holds(b, at, ClickActionNbt(v)) =>
                  ReadClickActionNbt(b, at) = Read(v, SizeOfClickActionNbt(v))
<1>1. v \in Tags
  BY DEF Values, Tags
<1> DEFINE t == Tag(v)
           n == Len(t)
           size == SizeOfVarint(n)
<1>2. t \in Seq(Cells) /\ n \in Nat
  BY <1>1, TagReads
<1>3. n \in Numbers /\ n \in Int
  BY <1>2, CodecsAssumption DEF Numbers
<1>4. Fits(t, n) /\ Fits(Varint(n), size)
  BY <1>2, <1>3, VarintFits DEF Fits
<1>5. Fits(Varint(n) \o t, size + n)
  BY <1>4, BothFit
<1>6. ASSUME NEW b, NEW at, Holds(b, at, Varint(n) \o t)
      PROVE  ReadClickActionNbt(b, at) = Read(v, size + n)
  <2>1. Holds(b, at, Varint(n)) /\ Holds(b, at + size, t)
    BY <1>4, <1>6, HeldParts
  <2> DEFINE r == Read(Val("number", n, <<>>), size)
  <2>2. ReadVarint(b, at) = r
    BY <1>3, <2>1, VarintReads
  <2>3. at \in Nat /\ size \in Nat
    BY <2>1, <1>4 DEF Holds, Fits
  <2>4. \A i \in 1..n : [c \in Cells |-> c][t[i]] = t[i]
    BY <1>2
  <2>5. ReadSized(r, [c \in Cells |-> c], b, at) = Read(v, size + n)
    <3> HIDE DEF size
    <3> QED BY <1>1, <1>4, <2>1, <2>3, <2>4, SizedReads
  <2>6. r.value.n = n
    BY ReadFields, ValFields
  <2> HIDE DEF r
  <2> QED BY <2>2, <2>5, <2>6 DEF ReadClickActionNbt
<1> QED BY <1>5, <1>6 DEF ClickActionNbt, SizeOfClickActionNbt

(* compressedNbt: the tag, compressed, behind its length. *)
LEMMA CompressedNbtCarried ==
    ASSUME NEW v \in Values("compressedNbt"), ~(v.kind # "none" /\ Len(Gzip(v)) >= Top)
    PROVE  /\ Fits(CompressedNbt(v), SizeOfCompressedNbt(v))
           /\ \A b, at : Holds(b, at, CompressedNbt(v)) =>
                  ReadCompressedNbt(b, at) = Read(v, SizeOfCompressedNbt(v))
<1>1. v \in Tags
  BY DEF Values, Tags
<1>2. CASE v \in Plain({"none"}, {0})
  <2>1. v.kind \in {"none"} /\ v.n \in {0} /\ v = Val(v.kind, v.n, <<>>)
    BY <1>2, PlainValue
  <2>2. CompressedNbt(v) = <<Short(-1)>> /\ SizeOfCompressedNbt(v) = 1
    BY <2>1 DEF CompressedNbt, SizeOfCompressedNbt
  <2>3. Short(-1) \in Cells /\ ShortOf(Short(-1)) = -1 /\ Short(-1) \in Int
    BY ShortType DEF Shorts, Top, Cells, Group
  <2>4. ASSUME NEW b, NEW at, Holds(b, at, <<Short(-1)>>)
        PROVE  ReadCompressedNbt(b, at) = Read(v, 1)
    <3>1. ReadCell(b, at) = Read(Val("number", Short(-1), <<>>), 1)
      BY <2>3, <2>4, HoldsCell
    <3> QED BY <3>1, <2>1, <2>3, ReadFields, ValFields DEF ReadCompressedNbt
  <2> QED BY <2>2, <2>3, <2>4, CellFits
<1>3. CASE v \in Plain({"tag"}, Nat)
  <2>1. v.kind \in {"tag"} /\ v = Val(v.kind, v.n, <<>>)
    BY <1>3, PlainValue
  <2> DEFINE t == Tag(v)
             n == Len(t)
             g == Gzip(v)
  <2>2. t \in Seq(Cells) /\ n \in Nat
    BY <1>1, TagReads
  <2>3. DOMAIN t = 1..n /\ \A i \in 1..n : t[i] \in Cells
    <3> HIDE DEF t
    <3> QED BY <2>2, SeqParts
  <2>4. Fits(g, n) /\ \A i \in 1..n : g[i] = EndVal - t[i]
    <3>1. g = [i \in 1..n |-> EndVal - t[i]]
      BY <2>3 DEF Gzip
    <3>2. \A c \in Cells : EndVal - c \in Cells
      BY DEF EndVal, Cells, Top, Group
    <3> HIDE DEF t, g, n
    <3>3. \A i \in 1..n : EndVal - t[i] \in Cells
      BY <2>3, <3>2
    <3>4. g \in Seq(Cells) /\ Len(g) = n
      BY <2>2, <3>1, <3>3 DEF n
    <3> QED BY <2>2, <3>1, <3>4 DEF Fits, n
  <2>5. Len(g) = n /\ n < Top
    BY <2>1, <2>2, <2>4 DEF Fits, Top
  <2>6. CompressedNbt(v) = <<Short(n)>> \o g /\ SizeOfCompressedNbt(v) = 1 + n
    BY <2>1, <2>5 DEF CompressedNbt, SizeOfCompressedNbt
  <2>7. Short(n) \in Cells /\ ShortOf(Short(n)) = n /\ n # -1 /\ Short(n) \in Int
    <3>1. n \in Shorts /\ n # -1
      BY <2>2, <2>5 DEF Shorts, Top
    <3>2. Cells \subseteq Int
      BY DEF Cells, Top, Group
    <3> QED BY <3>1, <3>2, ShortType
  <2>8. Fits(<<Short(n)>>, 1)
    BY <2>7, CellFits
  <2> HIDE DEF g, n, t
  <2>9. Fits(<<Short(n)>> \o g, 1 + n)
    BY <2>4, <2>8, BothFit
  <2>10. ASSUME NEW b, NEW at, Holds(b, at, <<Short(n)>> \o g)
        PROVE  ReadCompressedNbt(b, at) = Read(v, 1 + n)
    <3>1. Holds(b, at, <<Short(n)>>) /\ Holds(b, at + 1, g)
      BY <2>4, <2>8, <2>10, HeldParts
    <3>2. ReadCell(b, at) = Read(Val("number", Short(n), <<>>), 1)
      BY <2>7, <3>1, HoldsCell
    <3> DEFINE r == Read(Val("number", n, <<>>), 1)
               dec == [c \in Cells |-> EndVal - c]
    <3>3. at \in Nat
      BY <3>1 DEF Holds
    <3>4. \A i \in 1..n : dec[g[i]] = t[i]
      <4>1. \A c \in Cells : dec[EndVal - c] = c
        BY DEF EndVal, Cells, Top, Group
      <4> HIDE DEF dec
      <4> QED BY <4>1, <2>3, <2>4
    <3>5. ReadSized(r, dec, b, at) = Read(v, 1 + n)
      <4> HIDE DEF dec
      <4>1. Fits(g, Len(Tag(v))) /\ \A i \in 1..Len(Tag(v)) : dec[g[i]] = Tag(v)[i]
        BY <2>4, <3>4 DEF n, t
      <4>2. ReadSized(Read(Val("number", Len(Tag(v)), <<>>), 1), dec, b, at) = Read(v, 1 + Len(Tag(v)))
        BY <1>1, <3>1, <3>3, <4>1, SizedReads
      <4> QED BY <4>2 DEF n, t
    <3>6. r.ok /\ r.value.n = n
      BY ReadFields, ValFields
    <3>7. ReadCompressedNbt(b, at) = ReadSized(r, dec, b, at)
      <4> HIDE DEF r
      <4>1. ReadCell(b, at).ok /\ ReadCell(b, at).value.n = Short(n)
        BY <3>2, ReadFields, ValFields
      <4>2. (IF ReadCell(b, at).ok THEN Read(Val("number", ShortOf(ReadCell(b, at).value.n), <<>>), 1)
                  ELSE Thrown) = r
        BY <4>1, <2>7 DEF r
      <4> QED BY <4>2, <3>6, <2>7 DEF ReadCompressedNbt
    <3> QED BY <3>5, <3>7
  <2> QED BY <2>6, <2>9, <2>10
<1> QED BY <1>1, <1>2, <1>3 DEF Tags

(* lpVec3: the scale whose parts are in two cells and a varint. *)
LEMMA LpVec3Carried ==
    ASSUME NEW v \in Values("lpVec3"), ~(Scale(v) \div 4 >= Half)
    PROVE  /\ Fits(LpVec3(v), SizeOfLpVec3(v))
           /\ \A b, at : Holds(b, at, LpVec3(v)) => ReadLpVec3(b, at) = Read(v, SizeOfLpVec3(v))
<1>1. v.n \in Int /\ v = Val("number", v.n, <<>>)
  <2>1. v \in Plain({"number"}, Int)
    BY DEF Values
  <2>2. v.kind \in {"number"} /\ v.n \in Int /\ v = Val(v.kind, v.n, <<>>)
    BY <2>1, PlainValue
  <2> QED BY <2>2
<1> DEFINE k == Scale(v)
           sign == IF v.n < 0 THEN 0 ELSE 2
<1>2. k \in Nat /\ ((v.n = k /\ sign = 2) \/ (v.n = -k /\ sign = 0))
  BY <1>1 DEF Scale
<1>3. sign \in Cells
  BY DEF Cells, Top, Group
<1>4. CASE k = 0
  <2>1. LpVec3(v) = << 0 >> /\ SizeOfLpVec3(v) = 1
    BY <1>4 DEF LpVec3, SizeOfLpVec3
  <2>2. 0 \in Cells /\ v.n = 0
    BY <1>2, <1>4 DEF Cells, Top, Group
  <2>3. ASSUME NEW b, NEW at, Holds(b, at, << 0 >>)
        PROVE  ReadLpVec3(b, at) = Read(v, 1)
    <3>1. ReadCell(b, at) = Read(Val("number", 0, <<>>), 1)
      BY <2>3, HoldsCell
    <3> QED BY <3>1, <2>2, <1>1, ReadFields, ValFields DEF ReadLpVec3
  <2> QED BY <2>1, <2>2, <2>3, CellFits
<1>5. CASE k \in 1..3
  <2>1. LpVec3(v) = <<k, sign>> /\ SizeOfLpVec3(v) = 2
    BY <1>5 DEF LpVec3, SizeOfLpVec3
  <2>2. k \in Cells /\ k < Top /\ k # 0
    BY <1>5 DEF Cells, Top, Group
  <2> HIDE DEF k, sign
  <2>3. Fits(<<k, sign>>, 2)
    BY <1>3, <2>2 DEF Fits
  <2>4. ASSUME NEW b, NEW at, Holds(b, at, <<k, sign>>)
        PROVE  ReadLpVec3(b, at) = Read(v, 2)
    <3>1. /\ b \in Seq(Int) /\ at \in Nat /\ at + 2 <= Len(b)
          /\ b[at + 1] = k /\ b[at + 2] = sign
      <4>1. b \in Seq(Int) /\ at \in Nat /\ at + 2 <= Len(b) /\ \A i \in 1..2 : b[at + i] = <<k, sign>>[i]
        BY <2>4 DEF Holds
      <4> QED BY <4>1
    <3>2. ReadCell(b, at) = Read(Val("number", k, <<>>), 1)
      BY <3>1 DEF ReadCell
    <3>3. ~(at + 2 > Len(b)) /\ (sign - 1) * k = v.n
      BY <3>1, <1>2
    <3> QED BY <3>1, <3>2, <3>3, <2>2, <1>1, ReadFields, ValFields DEF ReadLpVec3
  <2> QED BY <2>1, <2>3, <2>4
<1>6. CASE k > 3
  <2> DEFINE c == (k % 4) + 4
             m == k \div 4
             size == SizeOfVarint(m)
  <2>1. LpVec3(v) = <<c, sign>> \o Varint(m) /\ SizeOfLpVec3(v) = 2 + size
    <3>1. k # 0 /\ k \notin 1..3
      BY <1>2, <1>6
    <3> QED BY <3>1 DEF LpVec3, SizeOfLpVec3
  <2>2. c \in Cells /\ c >= Top /\ c # 0 /\ c % 4 = k % 4 /\ m * 4 + (k % 4) = k
    BY <1>2 DEF Cells, Top, Group
  <2>3. m \in Numbers /\ m \in Int
    BY <1>2, LargestType DEF Numbers
  <2> HIDE DEF k, sign, c, m
  <2>4. Fits(<<c, sign>>, 2)
    BY <1>3, <2>2 DEF Fits
  <2>5. Fits(Varint(m), size)
    BY <2>3, VarintFits
  <2>6. ASSUME NEW b, NEW at, Holds(b, at, <<c, sign>> \o Varint(m))
        PROVE  ReadLpVec3(b, at) = Read(v, 2 + size)
    <3>1. Holds(b, at, <<c, sign>>) /\ Holds(b, at + 2, Varint(m))
      BY <2>4, <2>5, <2>6, HeldParts
    <3>2. /\ b \in Seq(Int) /\ at \in Nat /\ at + 2 <= Len(b)
          /\ b[at + 1] = c /\ b[at + 2] = sign
      <4>1. b \in Seq(Int) /\ at \in Nat /\ at + 2 <= Len(b) /\ \A i \in 1..2 : b[at + i] = <<c, sign>>[i]
        BY <3>1 DEF Holds
      <4> QED BY <4>1
    <3>3. ReadCell(b, at) = Read(Val("number", c, <<>>), 1)
      BY <3>2 DEF ReadCell
    <3>4. ReadVarint(b, at + 2) = Read(Val("number", m, <<>>), size)
      BY <2>3, <3>1, VarintReads
    <3>5. ~(at + 2 > Len(b)) /\ (sign - 1) * (m * 4 + (c % 4)) = v.n /\ ~(c < Top)
      <4>1. (sign - 1) * k = v.n
        BY <1>2
      <4>2. ~(at + 2 > Len(b)) /\ ~(c < Top)
        BY <3>2, <2>2 DEF Cells, Top
      <4> QED BY <4>1, <4>2, <2>2
    <3> QED BY <3>2, <3>3, <3>4, <3>5, <2>2, <1>1, ReadFields, ValFields DEF ReadLpVec3
  <2>7. Fits(<<c, sign>> \o Varint(m), 2 + size)
    BY <2>4, <2>5, BothFit
  <2> QED BY <2>1, <2>6, <2>7
<1> QED BY <1>2, <1>4, <1>5, <1>6

(* The first of some items. *)
Firsts(items, k) == SubSeq(items, 1, k)

LEMMA FirstsGrow ==
    ASSUME NEW A, NEW s \in Seq(A)
    PROVE  /\ Firsts(s, 0) = <<>>
           /\ Firsts(s, Len(s)) = s
           /\ \A k \in 1..Len(s) : Append(Firsts(s, k - 1), s[k]) = Firsts(s, k)
<1>1. Firsts(s, 0) = <<>> /\ Firsts(s, Len(s)) = s
  BY DEF Firsts
<1>2. ASSUME NEW k \in 1..Len(s) PROVE Append(Firsts(s, k - 1), s[k]) = Firsts(s, k)
  BY DEF Firsts
<1> QED BY <1>1, <1>2

(* The entries of a list. *)
Entries(keys) == Seq([key: keys, n: Numbers])

LEMMA ListOnly ==
    ASSUME NEW keys, NEW v \in Lists({"number"}, {0}, keys, Numbers)
    PROVE  v.items \in Entries(keys) /\ v = Val("number", 0, v.items)
<1>1. PICK items \in Entries(keys) : v = [kind |-> "number", n |-> 0, items |-> items]
  BY DEF Lists, Entries
<1>2. v.items = items
  BY <1>1
<1> QED BY <1>1, <1>2 DEF Val

LEMMA EntryReads ==
    ASSUME NEW e, e.key \in Cells, e.n \in Numbers, e = Entry(e.key, e.n)
    PROVE  /\ Fits(EntryCells(e), 1 + SizeOfVarint(e.n))
           /\ \A b, at : Holds(b, at, EntryCells(e)) =>
                  /\ ReadEntry(b, at) = Read(e, 1 + SizeOfVarint(e.n))
                  /\ ReadCell(b, at) = Read(Val("number", e.key, <<>>), 1)
<1>1. e.n \in Int /\ e.key \in Int
  <2>1. Cells \subseteq Int
    BY DEF Cells, Top, Group
  <2> QED BY <2>1, NumbersInt
<1>2. Fits(<<e.key>>, 1) /\ Fits(Varint(e.n), SizeOfVarint(e.n))
  BY <1>1, CellFits, VarintFits
<1>3. Fits(EntryCells(e), 1 + SizeOfVarint(e.n))
  BY <1>2, BothFit DEF EntryCells
<1>4. ASSUME NEW b, NEW at, Holds(b, at, EntryCells(e))
      PROVE  /\ ReadEntry(b, at) = Read(e, 1 + SizeOfVarint(e.n))
             /\ ReadCell(b, at) = Read(Val("number", e.key, <<>>), 1)
  <2>1. Holds(b, at, <<e.key>>) /\ Holds(b, at + 1, Varint(e.n))
    BY <1>2, <1>4, HeldParts DEF EntryCells
  <2>2. ReadCell(b, at) = Read(Val("number", e.key, <<>>), 1)
    BY <1>1, <2>1, HoldsCell
  <2>3. ReadVarint(b, at + 1) = Read(Val("number", e.n, <<>>), SizeOfVarint(e.n))
    BY <2>1, VarintReads
  <2> QED BY <2>2, <2>3, ReadFields, ValFields DEF ReadEntry, Then
<1> QED BY <1>3, <1>4

(* The sizes of the entries of a list. *)
LEMMA EntrySizesType ==
    ASSUME NEW keys, NEW items \in Entries(keys)
    PROVE  /\ EntrySizes(items) \in Seq(Nat \ {0}) /\ EntrySizes(items) \in Seq(Nat)
           /\ Len(EntrySizes(items)) = Len(items) /\ Len(items) \in Nat
           /\ DOMAIN EntrySizes(items) = DOMAIN items /\ DOMAIN items = 1..Len(items)
           /\ \A i \in DOMAIN items :
                 /\ EntrySizes(items)[i] = 1 + SizeOfVarint(items[i].n)
                 /\ items[i].key \in keys /\ items[i].n \in Numbers
                 /\ items[i] = Entry(items[i].key, items[i].n)
<1>1. Len(items) \in Nat /\ DOMAIN items = 1..Len(items) /\ \A i \in 1..Len(items) : items[i] \in [key: keys, n: Numbers]
  BY SeqParts DEF Entries
<1>2. \A i \in DOMAIN items : items[i].key \in keys /\ items[i].n \in Numbers /\ items[i] = Entry(items[i].key, items[i].n)
  BY <1>1, EntryValue
<1>3. \A i \in DOMAIN items : 1 + SizeOfVarint(items[i].n) \in Nat \ {0}
  <2>1. ASSUME NEW i \in DOMAIN items PROVE 1 + SizeOfVarint(items[i].n) \in Nat \ {0}
    <3>1. items[i].n \in Int
      BY <1>2, NumbersInt
    <3>2. SizeOfVarint(items[i].n) \in Nat
      BY <3>1, VarintFits DEF Fits
    <3> QED BY <3>2
  <2> QED BY <2>1
<1>4. EntrySizes(items) = [i \in 1..Len(items) |-> 1 + SizeOfVarint(items[i].n)]
  BY <1>1 DEF EntrySizes
<1>5. EntrySizes(items) \in [1..Len(items) -> Nat \ {0}] /\ EntrySizes(items) \in [1..Len(items) -> Nat]
  BY <1>1, <1>3, <1>4
<1>6. EntrySizes(items) \in Seq(Nat \ {0}) /\ EntrySizes(items) \in Seq(Nat) /\ Len(EntrySizes(items)) = Len(items)
  <2> DEFINE s == EntrySizes(items)
  <2> HIDE DEF s
  <2>1. s \in [1..Len(items) -> Nat \ {0}] /\ s \in [1..Len(items) -> Nat]
    BY <1>5 DEF s
  <2>2. s \in Seq(Nat \ {0}) /\ s \in Seq(Nat) /\ Len(s) = Len(items)
    BY <1>1, <2>1
  <2> QED BY <2>2 DEF s
<1> QED BY <1>1, <1>2, <1>4, <1>6

(* entityMetadataLoop: the entries up to the end marker, which is no key. *)
LEMMA EntityMetadataCarried ==
    ASSUME NEW v \in Values("entityMetadataLoop")
    PROVE  /\ Fits(EntityMetadata(v), 1 + EntriesSize(v.items))
           /\ \A b, at : Holds(b, at, EntityMetadata(v)) =>
                  ReadLoop(b, at) = Read(v, 1 + EntriesSize(v.items))
<1> DEFINE items == v.items
           N == Len(items)
           sizes == EntrySizes(items)
           s == [i \in DOMAIN items |-> EntryCells(items[i])]
           total == Total(sizes)
<1>1. items \in Entries(Cells \ {EndVal}) /\ v = Val("number", 0, items)
  <2> DEFINE K == Cells \ {EndVal}
  <2>1. v \in Lists({"number"}, {0}, K, Numbers)
    BY DEF Values
  <2> HIDE DEF K
  <2>2. v.items \in Entries(K) /\ v = Val("number", 0, v.items)
    BY <2>1, ListOnly
  <2> QED BY <2>2 DEF K
<1> HIDE DEF items
<1>2. /\ sizes \in Seq(Nat \ {0}) /\ sizes \in Seq(Nat) /\ Len(sizes) = N /\ N \in Nat
      /\ DOMAIN sizes = DOMAIN items /\ DOMAIN items = 1..N
      /\ \A i \in DOMAIN items :
            /\ sizes[i] = 1 + SizeOfVarint(items[i].n)
            /\ items[i].key \in Cells \ {EndVal} /\ items[i].n \in Numbers
            /\ items[i] = Entry(items[i].key, items[i].n)
  BY <1>1, EntrySizesType
<1> HIDE DEF sizes
<1>3. \A i \in DOMAIN items : Fits(EntryCells(items[i]), sizes[i])
  BY <1>2, EntryReads
<1>4. /\ DOMAIN s = DOMAIN sizes /\ s \in [DOMAIN s -> Seq(Cells)]
      /\ \A i \in DOMAIN sizes : Fits(s[i], sizes[i])
  BY <1>2, <1>3 DEF Fits
<1>5. /\ Fits(Concat(s), total)
      /\ \A b, at : Holds(b, at, Concat(s)) =>
             \A k \in 1..Len(sizes) : Holds(b, at + TotalTo(sizes, k - 1), s[k])
  <2> HIDE DEF s
  <2> QED BY <1>2, <1>4, ConcatFits
<1>6. EndVal \in Cells /\ EndVal \in Int
  BY DEF EndVal, Cells, Top, Group
<1>7. Fits(<<EndVal>>, 1)
  BY <1>6, CellFits
<1>8. EntityMetadata(v) = Concat(s) \o <<EndVal>> /\ EntriesSize(v.items) = total
  BY DEF EntityMetadata, EntriesSize, items, sizes
<1>9. total \in Nat /\ N <= total /\ TotalTo(sizes, N) = total /\ TotalTo(sizes, 0) = 0
  <2>1. N \in 0..Len(sizes) /\ 0 \in 0..Len(sizes) /\ total = TotalTo(sizes, N)
    BY <1>2 DEF Total
  <2>2. N <= TotalTo(sizes, N) /\ TotalTo(sizes, N) \in Nat
    BY <1>2, <2>1, SumOfOnes, SumGrows
  <2>3. sizes \in Seq(Int)
    BY <1>2, SeqParts
  <2>4. TotalTo(sizes, 0) = 0
    BY <2>3, SumUnfold
  <2> QED BY <2>1, <2>2, <2>4
<1>10. Fits(Concat(s) \o <<EndVal>>, 1 + total)
  <2>1. Fits(Concat(s) \o <<EndVal>>, total + 1)
    BY <1>5, <1>7, BothFit
  <2>2. total + 1 = 1 + total
    BY <1>9
  <2> QED BY <2>1, <2>2
<1>11. ASSUME NEW b, NEW at, Holds(b, at, Concat(s) \o <<EndVal>>)
       PROVE  ReadLoop(b, at) = Read(v, 1 + total)
  <2> DEFINE m == Len(b) + 1
             f == [i \in 0..m |-> IF i <= N THEN Reading(TRUE, Firsts(items, i), TotalTo(sizes, i))
                                  ELSE Reading(FALSE, items, total + 1)]
             Right(g) == g = [i \in 0..m |-> IF i = 0 THEN NoItems ELSE LoopTurn(b, at, g[i - 1])]
             turn == CHOOSE g : Right(g)
  <2>1. Holds(b, at, Concat(s)) /\ Holds(b, at + total, <<EndVal>>)
    BY <1>5, <1>7, <1>11, HeldParts
  <2>2. \A k \in 1..N : Holds(b, at + TotalTo(sizes, k - 1), EntryCells(items[k]))
    BY <1>2, <1>5, <2>1
  <2>3. at \in Nat /\ Len(b) \in Nat /\ at + total + 1 <= Len(b) /\ m \in Nat /\ N + 1 <= m
    BY <1>2, <1>9, <2>1 DEF Holds
  <2>4. \A k \in 1..N : LoopTurn(b, at, f[k - 1]) = f[k]
    <3>1. ASSUME NEW k \in 1..N PROVE LoopTurn(b, at, f[k - 1]) = f[k]
      <4> DEFINE r == Reading(TRUE, Firsts(items, k - 1), TotalTo(sizes, k - 1))
      <4>1. f[k - 1] = r /\ f[k] = Reading(TRUE, Firsts(items, k), TotalTo(sizes, k))
        <5>1. k - 1 \in 0..m /\ k - 1 <= N /\ k \in 0..m /\ k <= N
          BY <1>2, <2>3
        <5> HIDE DEF m, N
        <5> QED BY <5>1
      <4>2. Holds(b, at + r.size, EntryCells(items[k]))
        BY <2>2 DEF Reading
      <4>3. /\ ReadEntry(b, at + r.size) = Read(items[k], sizes[k])
            /\ ReadCell(b, at + r.size) = Read(Val("number", items[k].key, <<>>), 1)
            /\ items[k].key # EndVal
        <5> HIDE DEF r
        <5> QED BY <1>2, <4>2, EntryReads
      <4>4. Append(Firsts(items, k - 1), items[k]) = Firsts(items, k)
        BY <1>1, FirstsGrow DEF Entries
      <4>5. TotalTo(sizes, k) = TotalTo(sizes, k - 1) + sizes[k]
        <5>1. sizes \in Seq(Int)
          BY <1>2, SeqParts
        <5> QED BY <5>1, <1>2, SumUnfold
      <4>6. r.more /\ r.items = Firsts(items, k - 1) /\ r.size = TotalTo(sizes, k - 1)
        BY DEF Reading
      <4> HIDE DEF r, f
      <4>7. LoopTurn(b, at, r) = Reading(TRUE, Append(r.items, items[k]), r.size + sizes[k])
        <5> DEFINE cell == ReadCell(b, at + r.size)
                   e == ReadEntry(b, at + r.size)
        <5>1. cell.ok /\ cell.value.n # EndVal /\ e.ok /\ e.value = items[k] /\ e.size = sizes[k]
          BY <4>3, ReadFields, ValFields
        <5> HIDE DEF cell, e
        <5>2. LoopTurn(b, at, r) =
                  CASE ~r.more -> r
                    [] r.more /\ ~cell.ok -> Failed
                    [] r.more /\ cell.ok /\ cell.value.n = EndVal -> Reading(FALSE, r.items, r.size + 1)
                    [] OTHER -> IF e.ok THEN Reading(TRUE, Append(r.items, e.value), r.size + e.size)
                                ELSE Failed
          BY DEF LoopTurn, cell, e
        <5> QED BY <4>6, <5>1, <5>2
      <4> QED BY <4>1, <4>4, <4>5, <4>6, <4>7
    <3> QED BY <3>1
  <2>5. LoopTurn(b, at, f[N]) = f[N + 1]
    <3> DEFINE r == Reading(TRUE, items, total)
    <3>1. f[N] = r /\ f[N + 1] = Reading(FALSE, items, total + 1)
      <4>1. Firsts(items, N) = items
        BY <1>1, FirstsGrow DEF Entries
      <4>2. N \in 0..m /\ N + 1 \in 0..m /\ N <= N /\ ~(N + 1 <= N)
        BY <1>2, <2>3
      <4> QED BY <1>9, <4>1, <4>2
    <3>2. r.more /\ r.items = items /\ r.size = total
      BY DEF Reading
    <3>3. ReadCell(b, at + total) = Read(Val("number", EndVal, <<>>), 1)
      BY <1>6, <2>1, HoldsCell
    <3> HIDE DEF r, f
    <3>4. LoopTurn(b, at, r) = Reading(FALSE, items, total + 1)
      <4> DEFINE cell == ReadCell(b, at + r.size)
                 e == ReadEntry(b, at + r.size)
      <4>1. cell.ok /\ cell.value.n = EndVal
        BY <3>2, <3>3, ReadFields, ValFields
      <4> HIDE DEF cell, e
      <4>2. LoopTurn(b, at, r) =
                CASE ~r.more -> r
                  [] r.more /\ ~cell.ok -> Failed
                  [] r.more /\ cell.ok /\ cell.value.n = EndVal -> Reading(FALSE, r.items, r.size + 1)
                  [] OTHER -> IF e.ok THEN Reading(TRUE, Append(r.items, e.value), r.size + e.size)
                              ELSE Failed
        BY DEF LoopTurn, cell, e
      <4> QED BY <3>2, <4>1, <4>2
    <3> QED BY <3>1, <3>4
  <2>6. \A k \in N + 2..m : LoopTurn(b, at, f[k - 1]) = f[k]
    <3>1. ASSUME NEW k \in N + 2..m PROVE LoopTurn(b, at, f[k - 1]) = f[k]
      <4>1. f[k - 1] = Reading(FALSE, items, total + 1) /\ f[k] = Reading(FALSE, items, total + 1)
        <5>1. k - 1 \in 0..m /\ ~(k - 1 <= N) /\ k \in 0..m /\ ~(k <= N)
          BY <1>2, <2>3
        <5> HIDE DEF m, N
        <5> QED BY <5>1
      <4> HIDE DEF f
      <4> QED BY <4>1 DEF LoopTurn, Reading
    <3> QED BY <3>1
  <2>7. \A k \in 1..m : f[k] = LoopTurn(b, at, f[k - 1])
    <3>1. ASSUME NEW k \in 1..m PROVE f[k] = LoopTurn(b, at, f[k - 1])
      <4>1. k \in 1..N \/ k = N + 1 \/ k \in N + 2..m
        BY <1>2, <2>3
      <4>2. (N + 1) - 1 = N
        BY <1>2
      <4> HIDE DEF f, N, m
      <4> QED BY <4>1, <4>2, <2>4, <2>5, <2>6
    <3> QED BY <3>1
  <2>8. f[0] = NoItems
    <3>1. Firsts(items, 0) = <<>>
      BY <1>1, FirstsGrow DEF Entries
    <3>2. 0 \in 0..m /\ 0 <= N
      BY <1>2, <2>3
    <3> QED BY <1>9, <3>1, <3>2 DEF NoItems
  <2>9. Right(f)
    <3>1. ASSUME NEW i \in 0..m PROVE f[i] = IF i = 0 THEN NoItems ELSE LoopTurn(b, at, f[i - 1])
      <4>1. i = 0 \/ (i # 0 /\ i \in 1..m)
        BY <2>3
      <4> HIDE DEF f, m
      <4> QED BY <4>1, <2>7, <2>8
    <3>2. f = [i \in 0..m |-> f[i]]
      OBVIOUS
    <3> HIDE DEF f, m
    <3> QED BY <3>1, <3>2
  <2>10. Right(turn)
    <3> HIDE DEF Right, f
    <3> QED BY <2>9
  <2>11. \A i \in 0..m : turn[i] = f[i]
    <3> DEFINE T == {i \in 0..m : turn[i] = f[i]}
    <3>1. turn[0] = NoItems /\ \A i \in 1..m : turn[i] = LoopTurn(b, at, turn[i - 1])
      <4>1. \A i \in 0..m : turn[i] = IF i = 0 THEN NoItems ELSE LoopTurn(b, at, turn[i - 1])
        <5> HIDE DEF turn
        <5> QED BY <2>10
      <4>2. 0 \in 0..m /\ \A i \in 1..m : i \in 0..m /\ i # 0
        BY <2>3
      <4> HIDE DEF turn, m
      <4> QED BY <4>1, <4>2
    <3> HIDE DEF turn, f, Right
    <3>2. 0 \in T
      BY <2>3, <2>8, <3>1
    <3>3. ASSUME NEW k \in 1..m, k - 1 \in T PROVE k \in T
      <4>1. turn[k - 1] = f[k - 1] /\ k \in 0..m
        BY <2>3, <3>3
      <4>2. turn[k] = f[k]
        BY <4>1, <3>1, <2>7
      <4> QED BY <4>1, <4>2
    <3>4. \A i \in 0..m : i \in T
      <4> HIDE DEF T, m
      <4> QED BY <2>3, <3>2, <3>3, UpTo
    <3> QED BY <3>4
  <2>12. turn[m] = Reading(FALSE, items, total + 1)
    <3>1. m \in 0..m /\ ~(m <= N)
      BY <1>2, <2>3
    <3>2. f[m] = Reading(FALSE, items, total + 1)
      BY <3>1
    <3> HIDE DEF f, turn
    <3> QED BY <3>1, <3>2, <2>11
  <2>13. ReadLoop(b, at) = Returned(turn[m])
    BY DEF ReadLoop
  <2> HIDE DEF turn, m
  <2>14. Returned(Reading(FALSE, items, total + 1)) = Read(Items(items), total + 1)
    BY DEF Returned, Reading
  <2>15. total + 1 = 1 + total
    BY <1>9
  <2> QED BY <1>1, <2>12, <2>13, <2>14, <2>15 DEF Items
<1> QED BY <1>8, <1>10, <1>11

(* A cell is a number. *)
LEMMA CellsInt == Cells \subseteq Int
BY DEF Cells, Top, Group

(* An entry is read behind its top bit. *)
LEMMA ToppedReads ==
    ASSUME NEW e, e.key \in 0..Top - 1, e.n \in Numbers, e = Entry(e.key, e.n), NEW set \in BOOLEAN
    PROVE  /\ Fits(Topped(EntryCells(e), set), 1 + SizeOfVarint(e.n))
           /\ \A b, at : Holds(b, at, Topped(EntryCells(e), set)) =>
                  /\ ReadEntry(Cleared(b, at), at) = Read(e, 1 + SizeOfVarint(e.n))
                  /\ \E c \in Cells : /\ ReadCell(b, at) = Read(Val("number", c, <<>>), 1)
                                      /\ c >= Top <=> set
<1> DEFINE cells == EntryCells(e)
           n == 1 + SizeOfVarint(e.n)
           c == e.key + (IF set THEN Top ELSE 0)
           t == Topped(cells, set)
<1>0. e.key \in Cells /\ e.key \in Int
  BY DEF Cells, Top, Group
<1>1. Fits(cells, n)
  BY <1>0, EntryReads
<1>2. cells \in Seq(Cells) /\ n \in Nat /\ Len(cells) = n /\ n >= 1 /\ cells[1] = e.key
  <2>1. e.n \in Int
    BY NumbersInt
  <2>2. SizeOfVarint(e.n) \in Nat /\ Varint(e.n) \in Seq(Cells)
    BY <2>1, VarintFits DEF Fits
  <2>3. cells[1] = e.key
    BY <1>0, <2>2 DEF EntryCells
  <2> QED BY <1>1, <2>2, <2>3 DEF Fits
<1>3. c \in Cells /\ c \in Int /\ (c >= Top <=> set) /\ c % Top = e.key
  BY <1>0 DEF Cells, Top, Group
<1> HIDE DEF cells, n
<1>4. t = [i \in 1..n |-> IF i = 1 THEN c ELSE cells[i]]
  <2>1. DOMAIN cells = 1..n /\ 1 \in 1..n
    BY <1>2
  <2>2. t = [cells EXCEPT ![1] = c]
    BY <1>2 DEF Topped
  <2> QED BY <2>1, <2>2, <1>2
<1> HIDE DEF c
<1>5. t \in Seq(Cells) /\ Len(t) = n
  <2> HIDE DEF t
  <2>1. \A i \in 1..n : cells[i] \in Cells
    BY <1>2
  <2>2. t \in [1..n -> Cells]
    BY <1>3, <1>4, <2>1
  <2> QED BY <1>2, <2>2
<1>6. Fits(t, n)
  BY <1>2, <1>5 DEF Fits
<1>7. ASSUME NEW b, NEW at, Holds(b, at, t)
      PROVE  /\ ReadEntry(Cleared(b, at), at) = Read(e, n)
             /\ ReadCell(b, at) = Read(Val("number", c, <<>>), 1)
  <2> HIDE DEF t
  <2>1. b \in Seq(Int) /\ at \in Nat /\ at + n <= Len(b) /\ Len(b) \in Nat
    BY <1>5, <1>7 DEF Holds
  <2>2. b[at + 1] = c /\ \A i \in 2..n : b[at + i] = cells[i]
    <3>1. \A i \in 1..n : b[at + i] = t[i]
      BY <1>5, <1>7 DEF Holds
    <3>2. 1 \in 1..n /\ \A i \in 2..n : i \in 1..n /\ i # 1
      BY <1>2
    <3> QED BY <1>4, <3>1, <3>2
  <2> DEFINE d == Cleared(b, at)
  <2>3. d = [i \in 1..Len(b) |-> IF i = at + 1 THEN e.key ELSE b[i]]
    <3>1. at + 1 \in 1..Len(b) /\ DOMAIN b = 1..Len(b)
      BY <1>2, <2>1
    <3> QED BY <3>1, <2>2, <1>3 DEF Cleared
  <2>4. d \in Seq(Int) /\ Len(d) = Len(b)
    <3> HIDE DEF d
    <3>1. \A i \in 1..Len(b) : b[i] \in Int
      BY <2>1
    <3>2. d \in [1..Len(b) -> Int]
      BY <1>0, <2>3, <3>1
    <3> QED BY <2>1, <3>2
  <2>5. \A i \in 1..n : d[at + i] = cells[i]
    <3> HIDE DEF d
    <3>1. ASSUME NEW i \in 1..n PROVE d[at + i] = cells[i]
      <4>1. at + i \in 1..Len(b) /\ (at + i = at + 1 <=> i = 1) /\ (i # 1 => i \in 2..n)
        BY <1>2, <2>1
      <4>2. d[at + i] = IF at + i = at + 1 THEN e.key ELSE b[at + i]
        BY <2>3, <4>1
      <4> QED BY <4>1, <4>2, <2>2, <1>2
    <3> QED BY <3>1
  <2>6. Holds(d, at, cells)
    <3> HIDE DEF d
    <3>1. cells \in Seq(Int)
      BY <1>2, CellSeqs
    <3> QED BY <3>1, <1>2, <2>1, <2>4, <2>5 DEF Holds
  <2>7. ReadEntry(d, at) = Read(e, n)
    <3> HIDE DEF d
    <3> QED BY <1>0, <2>6, EntryReads DEF cells, n
  <2>8. at \in 0..Len(b) - 1
    BY <1>2, <2>1
  <2>9. ReadCell(b, at) = Read(Val("number", c, <<>>), 1)
    BY <2>2, <2>8 DEF ReadCell
  <2> QED BY <2>7, <2>9
<1> QED BY <1>3, <1>6, <1>7 DEF t, cells, n

(* The parts of what a loop has read. *)
LEMMA ReadingOf ==
    ASSUME NEW p \in BOOLEAN, NEW q \in BOOLEAN, NEW x, NEW y, p <=> q
    PROVE  Reading(p, x, y) = Reading(q, x, y)
<1>1. p = q
  OBVIOUS
<1> QED BY <1>1, Zenon

(* topBitSetTerminatedArray: the entries up to the one without the top bit. *)
LEMMA TopBitArrayCarried ==
    ASSUME NEW v \in Values("topBitSetTerminatedArray"), v.items # <<>>
    PROVE  /\ Fits(TopBitArray(v.items), EntriesSize(v.items))
           /\ \A b, at : Holds(b, at, TopBitArray(v.items)) =>
                  ReadTopBit(b, at) = Read(v, EntriesSize(v.items))
<1> DEFINE items == v.items
           N == Len(items)
           sizes == EntrySizes(items)
           s == [i \in DOMAIN items |-> Topped(EntryCells(items[i]), i < N)]
           total == Total(sizes)
<1>1. items \in Entries(0..Top - 1) /\ v = Val("number", 0, items)
  <2> DEFINE K == 0..Top - 1
  <2>1. v \in Lists({"number"}, {0}, K, Numbers)
    BY DEF Values
  <2> HIDE DEF K
  <2>2. v.items \in Entries(K) /\ v = Val("number", 0, v.items)
    BY <2>1, ListOnly
  <2> QED BY <2>2 DEF K
<1>21. items # <<>>
  OBVIOUS
<1> HIDE DEF items
<1>2. /\ sizes \in Seq(Nat \ {0}) /\ sizes \in Seq(Nat) /\ Len(sizes) = N /\ N \in Nat
      /\ DOMAIN sizes = DOMAIN items /\ DOMAIN items = 1..N
      /\ \A i \in DOMAIN items :
            /\ sizes[i] = 1 + SizeOfVarint(items[i].n)
            /\ items[i].key \in 0..Top - 1 /\ items[i].n \in Numbers
            /\ items[i] = Entry(items[i].key, items[i].n)
  BY <1>1, EntrySizesType
<1>22. N >= 1
  BY <1>1, <1>2, <1>21 DEF Entries
<1> HIDE DEF sizes
<1>3. \A i \in DOMAIN items : \A set \in BOOLEAN : Fits(Topped(EntryCells(items[i]), set), sizes[i])
  BY <1>2, ToppedReads
<1>4. /\ DOMAIN s = DOMAIN sizes /\ s \in [DOMAIN s -> Seq(Cells)]
      /\ \A i \in DOMAIN sizes : Fits(s[i], sizes[i])
  <2>1. \A i \in DOMAIN items : (i < N) \in BOOLEAN
    OBVIOUS
  <2>2. \A i \in DOMAIN items : Fits(Topped(EntryCells(items[i]), i < N), sizes[i])
    BY <1>3, <2>1
  <2> QED BY <1>2, <2>2 DEF Fits
<1>5. /\ Fits(Concat(s), total)
      /\ \A b, at : Holds(b, at, Concat(s)) =>
             \A k \in 1..Len(sizes) : Holds(b, at + TotalTo(sizes, k - 1), s[k])
  <2> HIDE DEF s
  <2> QED BY <1>2, <1>4, ConcatFits
<1>8. TopBitArray(v.items) = Concat(s) /\ EntriesSize(v.items) = total
  BY DEF TopBitArray, EntriesSize, items, sizes
<1>9. total \in Nat /\ N <= total /\ TotalTo(sizes, N) = total /\ TotalTo(sizes, 0) = 0
  <2>1. N \in 0..Len(sizes) /\ 0 \in 0..Len(sizes) /\ total = TotalTo(sizes, N)
    BY <1>2 DEF Total
  <2>2. N <= TotalTo(sizes, N) /\ TotalTo(sizes, N) \in Nat
    BY <1>2, <2>1, SumOfOnes, SumGrows
  <2>3. sizes \in Seq(Int)
    BY <1>2, SeqParts
  <2>4. TotalTo(sizes, 0) = 0
    BY <2>3, SumUnfold
  <2> QED BY <2>1, <2>2, <2>4
<1>11. ASSUME NEW b, NEW at, Holds(b, at, Concat(s))
       PROVE  ReadTopBit(b, at) = Read(v, total)
  <2> DEFINE m == Len(b)
             f == [i \in 0..m |-> IF i < N THEN Reading(TRUE, Firsts(items, i), TotalTo(sizes, i))
                                  ELSE Reading(FALSE, items, total)]
             Right(g) == g = [i \in 0..m |-> IF i = 0 THEN NoItems ELSE TopBitTurn(b, at, g[i - 1])]
             turn == CHOOSE g : Right(g)
  <2>2. \A k \in 1..N : Holds(b, at + TotalTo(sizes, k - 1), Topped(EntryCells(items[k]), k < N))
    BY <1>2, <1>5, <1>11
  <2>3. at \in Nat /\ Len(b) \in Nat /\ at + total <= Len(b) /\ m \in Nat /\ N <= m
    <3>1. Len(Concat(s)) = total
      BY <1>5 DEF Fits
    <3>2. at \in Nat /\ Len(b) \in Nat /\ at + Len(Concat(s)) <= Len(b)
      BY <1>11 DEF Holds
    <3> HIDE DEF s
    <3> QED BY <1>2, <1>9, <3>1, <3>2
  <2>4. \A k \in 1..N : TopBitTurn(b, at, f[k - 1]) = f[k]
    <3>1. ASSUME NEW k \in 1..N PROVE TopBitTurn(b, at, f[k - 1]) = f[k]
      <4> DEFINE r == Reading(TRUE, Firsts(items, k - 1), TotalTo(sizes, k - 1))
                 e == ReadEntry(Cleared(b, at + r.size), at + r.size)
                 cell == ReadCell(b, at + r.size)
      <4>1. f[k - 1] = r /\ f[k] = IF k < N THEN Reading(TRUE, Firsts(items, k), TotalTo(sizes, k))
                                   ELSE Reading(FALSE, items, total)
        <5>1. k - 1 \in 0..m /\ k - 1 < N /\ k \in 0..m
          BY <1>2, <2>3
        <5> HIDE DEF m, N
        <5> QED BY <5>1
      <4>2. Holds(b, at + r.size, Topped(EntryCells(items[k]), k < N))
        BY <2>2 DEF Reading
      <4>3. e = Read(items[k], sizes[k]) /\ \E c \in Cells : cell = Read(Val("number", c, <<>>), 1) /\ (c >= Top <=> k < N)
        <5> DEFINE set == k < N
        <5>1. set \in BOOLEAN
          OBVIOUS
        <5>2. Holds(b, at + r.size, Topped(EntryCells(items[k]), set))
          BY <4>2
        <5> HIDE DEF r, set
        <5>3. e = Read(items[k], sizes[k]) /\ \E c \in Cells : cell = Read(Val("number", c, <<>>), 1) /\ (c >= Top <=> set)
          BY <1>2, <5>1, <5>2, ToppedReads
        <5> QED BY <5>3 DEF set
      <4>4. Append(Firsts(items, k - 1), items[k]) = Firsts(items, k)
        BY <1>1, FirstsGrow DEF Entries
      <4>5. TotalTo(sizes, k) = TotalTo(sizes, k - 1) + sizes[k]
        <5>1. sizes \in Seq(Int)
          BY <1>2, SeqParts
        <5> QED BY <5>1, <1>2, SumUnfold
      <4>6. r.more /\ r.items = Firsts(items, k - 1) /\ r.size = TotalTo(sizes, k - 1)
        BY DEF Reading
      <4> HIDE DEF r, f
      <4>7. cell.ok /\ e.ok /\ e.value = items[k] /\ e.size = sizes[k] /\ (cell.value.n >= Top <=> k < N)
        BY <4>3, ReadFields, ValFields
      <4>8. TopBitTurn(b, at, r) =
                IF ~r.more THEN r ELSE IF ~cell.ok \/ ~e.ok THEN Failed
                ELSE Reading(cell.value.n >= Top, Append(r.items, e.value), r.size + e.size)
        BY DEF TopBitTurn
      <4> HIDE DEF cell, e
      <4>9. TopBitTurn(b, at, r) = Reading(cell.value.n >= Top, Firsts(items, k), TotalTo(sizes, k))
        BY <4>4, <4>5, <4>6, <4>7, <4>8, Zenon
      <4>10. CASE k < N
        <5>1. Reading(cell.value.n >= Top, Firsts(items, k), TotalTo(sizes, k)) = Reading(TRUE, Firsts(items, k), TotalTo(sizes, k))
          BY <4>7, <4>10, ReadingOf
        <5> QED BY <4>1, <4>9, <4>10, <5>1
      <4>11. CASE ~(k < N)
        <5>1. Reading(cell.value.n >= Top, Firsts(items, k), TotalTo(sizes, k)) = Reading(FALSE, Firsts(items, k), TotalTo(sizes, k))
          <6> DEFINE p == cell.value.n >= Top
          <6>1. p \in BOOLEAN /\ FALSE \in BOOLEAN /\ (p <=> FALSE)
            BY <4>7, <4>11
          <6> HIDE DEF p
          <6>2. Reading(p, Firsts(items, k), TotalTo(sizes, k)) = Reading(FALSE, Firsts(items, k), TotalTo(sizes, k))
            BY <6>1, ReadingOf, Zenon
          <6> QED BY <6>2 DEF p
        <5>2. k = N
          <6> HIDE DEF N
          <6>1. N \in Nat /\ k \in 1..N
            BY <1>2
          <6> QED BY <4>11, <6>1
        <5>3. Firsts(items, k) = items
          BY <5>2, <1>1, FirstsGrow DEF Entries
        <5>4. TotalTo(sizes, k) = total
          BY <5>2, <1>9
        <5> HIDE DEF N, total
        <5> QED BY <4>1, <4>9, <4>11, <5>1, <5>3, <5>4, Zenon
      <4> QED BY <4>10, <4>11
    <3> QED BY <3>1
  <2>6. \A k \in N + 1..m : TopBitTurn(b, at, f[k - 1]) = f[k]
    <3>1. ASSUME NEW k \in N + 1..m PROVE TopBitTurn(b, at, f[k - 1]) = f[k]
      <4>1. f[k - 1] = Reading(FALSE, items, total) /\ f[k] = Reading(FALSE, items, total)
        <5>1. k - 1 \in 0..m /\ ~(k - 1 < N) /\ k \in 0..m /\ ~(k < N)
          BY <1>2, <2>3
        <5> HIDE DEF m, N
        <5> QED BY <5>1
      <4> HIDE DEF f
      <4> QED BY <4>1 DEF TopBitTurn, Reading
    <3> QED BY <3>1
  <2>7. \A k \in 1..m : f[k] = TopBitTurn(b, at, f[k - 1])
    <3>1. ASSUME NEW k \in 1..m PROVE f[k] = TopBitTurn(b, at, f[k - 1])
      <4>1. k \in 1..N \/ k \in N + 1..m
        BY <1>2, <2>3
      <4> HIDE DEF f, N, m
      <4> QED BY <4>1, <2>4, <2>6
    <3> QED BY <3>1
  <2>8. f[0] = NoItems
    <3>1. Firsts(items, 0) = <<>>
      BY <1>1, FirstsGrow DEF Entries
    <3>2. 0 \in 0..m /\ 0 < N
      BY <1>2, <1>22, <2>3
    <3> QED BY <1>9, <3>1, <3>2 DEF NoItems
  <2>9. Right(f)
    <3>1. ASSUME NEW i \in 0..m PROVE f[i] = IF i = 0 THEN NoItems ELSE TopBitTurn(b, at, f[i - 1])
      <4>1. i = 0 \/ (i # 0 /\ i \in 1..m)
        BY <2>3
      <4> HIDE DEF f, m
      <4> QED BY <4>1, <2>7, <2>8
    <3>2. f = [i \in 0..m |-> f[i]]
      OBVIOUS
    <3> HIDE DEF f, m
    <3> QED BY <3>1, <3>2
  <2>10. Right(turn)
    <3> HIDE DEF Right, f
    <3> QED BY <2>9
  <2>11. \A i \in 0..m : turn[i] = f[i]
    <3> DEFINE T == {i \in 0..m : turn[i] = f[i]}
    <3>1. turn[0] = NoItems /\ \A i \in 1..m : turn[i] = TopBitTurn(b, at, turn[i - 1])
      <4>1. \A i \in 0..m : turn[i] = IF i = 0 THEN NoItems ELSE TopBitTurn(b, at, turn[i - 1])
        <5> HIDE DEF turn
        <5> QED BY <2>10
      <4>2. 0 \in 0..m /\ \A i \in 1..m : i \in 0..m /\ i # 0
        BY <2>3
      <4> HIDE DEF turn, m
      <4> QED BY <4>1, <4>2
    <3> HIDE DEF turn, f, Right
    <3>2. 0 \in T
      BY <2>3, <2>8, <3>1
    <3>3. ASSUME NEW k \in 1..m, k - 1 \in T PROVE k \in T
      <4>1. turn[k - 1] = f[k - 1] /\ k \in 0..m
        BY <2>3, <3>3
      <4>2. turn[k] = f[k]
        BY <4>1, <3>1, <2>7
      <4> QED BY <4>1, <4>2
    <3>4. \A i \in 0..m : i \in T
      <4> HIDE DEF T, m
      <4> QED BY <2>3, <3>2, <3>3, UpTo
    <3> QED BY <3>4
  <2>12. turn[m] = Reading(FALSE, items, total)
    <3>1. m \in 0..m /\ ~(m < N)
      BY <1>2, <2>3
    <3>2. f[m] = Reading(FALSE, items, total)
      BY <3>1
    <3> HIDE DEF f, turn
    <3> QED BY <3>1, <3>2, <2>11
  <2>13. ReadTopBit(b, at) = Returned(turn[m])
    BY DEF ReadTopBit
  <2> HIDE DEF turn, m
  <2>14. Returned(Reading(FALSE, items, total)) = Read(Items(items), total)
    BY DEF Returned, Reading
  <2> QED BY <1>1, <2>12, <2>13, <2>14 DEF Items
<1> QED BY <1>5, <1>8, <1>11

(* A loop over a number of values reads them all. *)
LEMMA ListReads ==
    ASSUME NEW A, NEW items \in Seq(A), items # <<>>, NEW sizes \in Seq(Nat), Len(sizes) = Len(items),
           NEW what, NEW b, NEW at \in Nat,
           \A k \in 1..Len(items) :
               ReadOne(what, b, at + TotalTo(sizes, k - 1)) = Read(items[k], sizes[k])
    PROVE  ReadList(what, b, at, Len(items)) = Read(Items(items), Total(sizes))
<1> DEFINE N == Len(items)
           f == [i \in 0..N |-> Reading(FALSE, Firsts(items, i), TotalTo(sizes, i))]
           Right(g) == g = [i \in 0..N |-> IF i = 0 THEN Reading(FALSE, <<>>, 0)
                                           ELSE ListTurn(what, b, at, g[i - 1])]
           turn == CHOOSE g : Right(g)
<1>1. N \in Nat /\ N >= 1 /\ sizes \in Seq(Int)
  <2>1. sizes \in Seq(Int)
    BY SeqParts
  <2> QED BY <2>1
<1>2. TotalTo(sizes, 0) = 0 /\ Firsts(items, 0) = <<>> /\ Firsts(items, N) = items
  BY <1>1, SumUnfold, FirstsGrow
<1>3. \A k \in 1..N : ListTurn(what, b, at, f[k - 1]) = f[k]
  <2>1. ASSUME NEW k \in 1..N PROVE ListTurn(what, b, at, f[k - 1]) = f[k]
    <3> DEFINE r == Reading(FALSE, Firsts(items, k - 1), TotalTo(sizes, k - 1))
               one == ReadOne(what, b, at + r.size)
    <3>1. f[k - 1] = r /\ f[k] = Reading(FALSE, Firsts(items, k), TotalTo(sizes, k))
      <4>1. k - 1 \in 0..N /\ k \in 0..N
        BY <1>1
      <4> QED BY <4>1
    <3>2. r.ok /\ r.items = Firsts(items, k - 1) /\ r.size = TotalTo(sizes, k - 1)
      BY DEF Reading
    <3>3. one = Read(items[k], sizes[k])
      BY <3>2
    <3>4. Append(Firsts(items, k - 1), items[k]) = Firsts(items, k)
      BY FirstsGrow
    <3>5. TotalTo(sizes, k) = TotalTo(sizes, k - 1) + sizes[k]
      BY <1>1, SumUnfold
    <3>6. ListTurn(what, b, at, r) = IF r.ok /\ one.ok THEN Reading(FALSE, Append(r.items, one.value), r.size + one.size) ELSE Failed
      BY DEF ListTurn
    <3> HIDE DEF r, f, one
    <3>7. one.ok /\ one.value = items[k] /\ one.size = sizes[k]
      BY <3>3, ReadFields
    <3> QED BY <3>1, <3>2, <3>4, <3>5, <3>6, <3>7
  <2> QED BY <2>1
<1>4. f[0] = Reading(FALSE, <<>>, 0)
  <2>1. 0 \in 0..N
    BY <1>1
  <2> QED BY <1>2, <2>1
<1>5. Right(f)
  <2>1. ASSUME NEW i \in 0..N
        PROVE f[i] = IF i = 0 THEN Reading(FALSE, <<>>, 0) ELSE ListTurn(what, b, at, f[i - 1])
    <3>1. i = 0 \/ (i # 0 /\ i \in 1..N)
      BY <1>1
    <3> HIDE DEF f, N
    <3> QED BY <3>1, <1>3, <1>4
  <2>2. f = [i \in 0..N |-> f[i]]
    OBVIOUS
  <2> HIDE DEF f, N
  <2> QED BY <2>1, <2>2
<1>6. Right(turn)
  <2> HIDE DEF Right, f
  <2> QED BY <1>5
<1>7. \A i \in 0..N : turn[i] = f[i]
  <2> DEFINE T == {i \in 0..N : turn[i] = f[i]}
  <2>1. turn[0] = Reading(FALSE, <<>>, 0) /\ \A i \in 1..N : turn[i] = ListTurn(what, b, at, turn[i - 1])
    <3>1. \A i \in 0..N : turn[i] = IF i = 0 THEN Reading(FALSE, <<>>, 0) ELSE ListTurn(what, b, at, turn[i - 1])
      <4> HIDE DEF turn
      <4> QED BY <1>6
    <3>2. 0 \in 0..N /\ \A i \in 1..N : i \in 0..N /\ i # 0
      BY <1>1
    <3> HIDE DEF turn, N
    <3> QED BY <3>1, <3>2
  <2> HIDE DEF turn, f, Right
  <2>2. 0 \in T
    <3> HIDE DEF N
    <3>1. 0 \in 0..N
      BY <1>1
    <3> QED BY <1>4, <2>1, <3>1
  <2>3. ASSUME NEW k \in 1..N, k - 1 \in T PROVE k \in T
    <3>1. turn[k - 1] = f[k - 1] /\ k \in 0..N
      BY <1>1, <2>3
    <3>2. turn[k] = f[k]
      BY <3>1, <2>1, <1>3
    <3> QED BY <3>1, <3>2
  <2>4. \A i \in 0..N : i \in T
    <3> HIDE DEF T, N
    <3> QED BY <1>1, <2>2, <2>3, UpTo
  <2> QED BY <2>4
<1>8. turn[N] = Reading(FALSE, items, Total(sizes))
  <2>1. N \in 0..N /\ Total(sizes) = TotalTo(sizes, N)
    BY <1>1 DEF Total
  <2>2. f[N] = Reading(FALSE, Firsts(items, N), TotalTo(sizes, N))
    BY <2>1
  <2> HIDE DEF f, turn
  <2> QED BY <1>2, <1>7, <2>1, <2>2
<1>9. ReadList(what, b, at, N) = Returned(turn[N])
  BY <1>1 DEF ReadList
<1>10. Returned(Reading(FALSE, items, Total(sizes))) = Read(Items(items), Total(sizes))
  BY DEF Returned, Reading
<1> HIDE DEF turn
<1> QED BY <1>8, <1>9, <1>10

(* A loop over no value. *)
LEMMA ListReadsNothing ==
    ASSUME NEW what, NEW b, NEW at, NEW count \in Int, count <= 0
    PROVE  ReadList(what, b, at, count) = Read(Items(<<>>), 0)
BY DEF ReadList

(* No item takes nothing. *)
LEMMA EmptyConcat == Fits(Concat(<<>>), 0) /\ Total(<<>>) = 0
<1>1. <<>> \in Seq(Seq(Cells)) /\ Len(<<>>) = 0 /\ <<>> \in Seq(Int) /\ <<>> \in Seq(Cells)
  OBVIOUS
<1>2. ConcatTo(<<>>, 0) = <<>>
  BY <1>1, ConcatUnfold
<1>3. TotalTo(<<>>, 0) = 0
  BY <1>1, SumUnfold
<1> QED BY <1>1, <1>2, <1>3 DEF Concat, Total, Fits

-----------------------------------------------------------------------------
IdCells(items) == [i \in DOMAIN items |-> Varint(items[i].n)]

IdSizes(items) == [i \in DOMAIN items |-> SizeOfVarint(items[i].n)]

(* The ids of a set, one behind the other. *)
LEMMA IdsRead ==
    ASSUME NEW items \in Seq([key: {0}, n: Numbers])
    PROVE  /\ Fits(Concat(IdCells(items)), Total(IdSizes(items)))
           /\ \A b, at : at \in Nat /\ Holds(b, at, Concat(IdCells(items))) =>
                  ReadList("ids", b, at, Len(items)) = Read(Items(items), Total(IdSizes(items)))
<1> DEFINE N == Len(items)
           s == IdCells(items)
           sizes == IdSizes(items)
<1>1. N \in Nat /\ DOMAIN items = 1..N /\ \A i \in 1..N : items[i].n \in Numbers /\ items[i].n \in Int /\ items[i] = Entry(0, items[i].n)
  <2>1. N \in Nat /\ DOMAIN items = 1..N /\ \A i \in 1..N : items[i] \in [key: {0}, n: Numbers]
    BY SeqParts
  <2>2. ASSUME NEW i \in 1..N PROVE items[i].n \in Numbers /\ items[i].n \in Int /\ items[i] = Entry(0, items[i].n)
    <3>1. items[i].key \in {0} /\ items[i].n \in Numbers /\ items[i] = Entry(items[i].key, items[i].n)
      BY <2>1, EntryValue
    <3> QED BY <3>1, NumbersInt
  <2> QED BY <2>1, <2>2
<1>2. \A i \in 1..N : Fits(Varint(items[i].n), SizeOfVarint(items[i].n))
  BY <1>1, VarintFits
<1>3. /\ s = [i \in 1..N |-> Varint(items[i].n)] /\ sizes = [i \in 1..N |-> SizeOfVarint(items[i].n)]
  BY <1>1 DEF IdCells, IdSizes
<1>4. sizes \in Seq(Nat) /\ Len(sizes) = N
  <2> HIDE DEF sizes, N
  <2>1. sizes \in [1..N -> Nat]
    BY <1>2, <1>3 DEF Fits
  <2> QED BY <1>1, <2>1
<1>5. DOMAIN s = DOMAIN sizes /\ s \in [DOMAIN s -> Seq(Cells)] /\ \A i \in DOMAIN sizes : Fits(s[i], sizes[i])
  <2> HIDE DEF sizes, N, s
  <2> QED BY <1>2, <1>3 DEF Fits
<1> HIDE DEF s, sizes
<1>6. /\ Fits(Concat(s), Total(sizes))
      /\ \A b, at : Holds(b, at, Concat(s)) =>
             \A k \in 1..N : Holds(b, at + TotalTo(sizes, k - 1), s[k])
  BY <1>4, <1>5, ConcatFits
<1>7. ASSUME NEW b, NEW at \in Nat, Holds(b, at, Concat(s))
      PROVE  ReadList("ids", b, at, N) = Read(Items(items), Total(sizes))
  <2>1. CASE items = <<>>
    <3>1. N = 0
      BY <2>1
    <3>2. sizes = <<>>
      BY <1>4, <3>1
    <3> QED BY <2>1, <3>1, <3>2, ListReadsNothing, EmptyConcat
  <2>2. CASE items # <<>>
    <3>1. ASSUME NEW k \in 1..N
          PROVE  ReadOne("ids", b, at + TotalTo(sizes, k - 1)) = Read(items[k], sizes[k])
      <4> DEFINE p == at + TotalTo(sizes, k - 1)
      <4>1. Holds(b, p, Varint(items[k].n)) /\ sizes[k] = SizeOfVarint(items[k].n)
        BY <1>3, <1>6, <1>7
      <4> HIDE DEF p
      <4>2. ReadVarint(b, p) = Read(Val("number", items[k].n, <<>>), sizes[k])
        BY <1>1, <4>1, VarintReads
      <4>3. ReadHeldInt(b, p) = Read(Entry(0, items[k].n), sizes[k])
        BY <4>2, ReadFields, ValFields DEF ReadHeldInt
      <4>4. ReadOne("ids", b, p) = Read(items[k], sizes[k])
        BY <1>1, <4>3 DEF ReadOne
      <4> QED BY <4>4 DEF p
    <3> QED BY <2>2, <3>1, <1>4, ListReads
  <2> QED BY <2>1, <2>2
<1> QED BY <1>6, <1>7 DEF s, sizes

(* The varint of 0 is one cell. *)
LEMMA ZeroVarint == SizeOfVarint(0) = 1 /\ Fits(Varint(0), 1) /\ 0 \in Numbers /\ 0 \in Int
<1>1. SizeOfVarint(0) = 1
  BY CountUnfold, UnsignedType, LargestType DEF SizeOfVarint, Group
<1> QED BY <1>1, VarintFits, NumbersInt

(* registryEntryHolderSet: a name, or the ids behind their number and one. *)
LEMMA HolderSetCarried ==
    ASSUME NEW impl, NEW v \in Values("registryEntryHolderSet")
    PROVE  /\ Fits(HolderSet(v), SizeOfHolderSet(v))
           /\ \A b, at : Holds(b, at, HolderSet(v)) =>
                  ReadHolderSet(impl, b, at) = Read(v, SizeOfHolderSet(v))
<1> DEFINE Ids == {x \in Lists({"other"}, {0}, {0}, Numbers) : Len(x.items) + 1 < Half}
<1>1. CASE v \in Plain({"base"}, Numbers)
  <2>1. v.kind = "base" /\ v.n \in Numbers /\ v.n \in Int /\ v = Val("base", v.n, <<>>)
    <3>1. v.kind \in {"base"} /\ v.n \in Numbers /\ v = Val(v.kind, v.n, <<>>)
      BY <1>1, PlainValue
    <3> QED BY <3>1, NumbersInt
  <2>2. HolderSet(v) = Varint(0) \o Varint(v.n) /\ SizeOfHolderSet(v) = 1 + SizeOfVarint(v.n)
    BY <2>1 DEF HolderSet, SizeOfHolderSet
  <2>3. Fits(Varint(v.n), SizeOfVarint(v.n))
    BY <2>1, VarintFits
  <2>4. ASSUME NEW b, NEW at, Holds(b, at, Varint(0) \o Varint(v.n))
        PROVE  ReadHolderSet(impl, b, at) = Read(v, 1 + SizeOfVarint(v.n))
    <3>1. Holds(b, at, Varint(0)) /\ Holds(b, at + 1, Varint(v.n))
      BY <2>3, <2>4, ZeroVarint, HeldParts
    <3>2. ReadVarint(b, at) = Read(Val("number", 0, <<>>), 1)
      BY <3>1, ZeroVarint, VarintReads
    <3>3. ReadVarint(b, at + 1) = Read(Val("number", v.n, <<>>), SizeOfVarint(v.n))
      BY <3>1, <2>1, VarintReads
    <3> QED BY <3>2, <3>3, <2>1, ReadFields, ValFields DEF ReadHolderSet, Then
  <2> QED BY <2>2, <2>3, <2>4, ZeroVarint, BothFit
<1>2. CASE v \in Ids
  <2> DEFINE items == v.items
             N == Len(items)
             head == SizeOfVarint(N + 1)
             total == Total(IdSizes(items))
             cells == Concat(IdCells(items))
  <2>1. /\ v.kind = "other" /\ items \in Seq([key: {0}, n: Numbers])
        /\ v = Val("other", 0, items) /\ N + 1 < Half
    <3>1. /\ v.kind \in {"other"} /\ v.n \in {0} /\ v.items \in Seq([key: {0}, n: Numbers])
          /\ v = Val(v.kind, v.n, v.items)
      <4>1. v \in Lists({"other"}, {0}, {0}, Numbers)
        BY <1>2
      <4> HIDE DEF Ids
      <4> QED BY <4>1, ListValue
    <3> QED BY <1>2, <3>1
  <2>2. N \in Nat
    BY <2>1
  <2>3. HolderSet(v) = Varint(N + 1) \o cells /\ SizeOfHolderSet(v) = head + total
    BY <2>1 DEF HolderSet, SizeOfHolderSet, IdCells, IdSizes
  <2>21. N + 1 \in Numbers /\ N + 1 \in Int /\ ~(N + 1 < 0) /\ N + 1 # 0 /\ (N + 1) - 1 = N
    <3> HIDE DEF N
    <3> QED BY <2>1, <2>2, NumbersInt DEF Numbers
  <2>4. Fits(Varint(N + 1), head)
    BY <2>21, VarintFits
  <2>5. /\ Fits(cells, total)
        /\ \A b, at : at \in Nat /\ Holds(b, at, cells) =>
               ReadList("ids", b, at, N) = Read(Items(items), total)
    BY <2>1, IdsRead
  <2> HIDE DEF items, N, head, total, cells
  <2>6. ASSUME NEW b, NEW at, Holds(b, at, Varint(N + 1) \o cells)
        PROVE  ReadHolderSet(impl, b, at) = Read(v, head + total)
    <3>1. Holds(b, at, Varint(N + 1)) /\ Holds(b, at + head, cells)
      BY <2>4, <2>5, <2>6, HeldParts
    <3>2. ReadVarint(b, at) = Read(Val("number", N + 1, <<>>), head)
      BY <2>21, <3>1, VarintReads DEF head
    <3>3. ReadList("ids", b, at + head, (N + 1) - 1) = Read(Items(items), total)
      <4>1. at + head \in Nat
        BY <3>1 DEF Holds
      <4> QED BY <4>1, <3>1, <2>5, <2>21
    <3>4. Items(items).items = items
      BY ValFields DEF Items
    <3> QED BY <3>2, <3>3, <3>4, <2>21, <2>1, ReadFields, ValFields DEF ReadHolderSet, Then
  <2> QED BY <2>3, <2>4, <2>5, <2>6, BothFit
<1> QED BY <1>1, <1>2 DEF Values

-----------------------------------------------------------------------------
StepCells(items) == [i \in DOMAIN items |-> Varint(items[i].key) \o <<Short(items[i].n)>>]

StepSizes(items) == [i \in DOMAIN items |-> SizeOfVarint(items[i].key) + 1]

(* A step of a delta. *)
LEMMA StepReads ==
    ASSUME NEW e \in [key: Numbers, n: Shorts]
    PROVE  /\ Fits(Varint(e.key) \o <<Short(e.n)>>, SizeOfVarint(e.key) + 1)
           /\ \A b, at : Holds(b, at, Varint(e.key) \o <<Short(e.n)>>) =>
                  ReadStep(b, at) = Read(e, SizeOfVarint(e.key) + 1)
<1>1. e.key \in Numbers /\ e.key \in Int /\ e.n \in Shorts /\ e = Entry(e.key, e.n)
  BY EntryValue, NumbersInt
<1>2. Short(e.n) \in Cells /\ ShortOf(Short(e.n)) = e.n /\ Short(e.n) \in Int
  BY <1>1, ShortType, CellsInt
<1>3. Fits(Varint(e.key), SizeOfVarint(e.key)) /\ Fits(<<Short(e.n)>>, 1)
  BY <1>1, <1>2, VarintFits, CellFits
<1>4. ASSUME NEW b, NEW at, Holds(b, at, Varint(e.key) \o <<Short(e.n)>>)
      PROVE  ReadStep(b, at) = Read(e, SizeOfVarint(e.key) + 1)
  <2>1. Holds(b, at, Varint(e.key)) /\ Holds(b, at + SizeOfVarint(e.key), <<Short(e.n)>>)
    BY <1>3, <1>4, HeldParts
  <2>2. ReadVarint(b, at) = Read(Val("number", e.key, <<>>), SizeOfVarint(e.key))
    BY <1>1, <2>1, VarintReads
  <2>3. ReadCell(b, at + SizeOfVarint(e.key)) = Read(Val("number", Short(e.n), <<>>), 1)
    BY <1>2, <2>1, HoldsCell
  <2> QED BY <1>1, <1>2, <2>2, <2>3, ReadFields, ValFields DEF ReadStep, Then
<1> QED BY <1>3, <1>4, BothFit

(* The steps of a delta, one behind the other. *)
LEMMA StepsRead ==
    ASSUME NEW items \in Seq([key: Numbers, n: Shorts]), items # <<>>
    PROVE  /\ Fits(Concat(StepCells(items)), Total(StepSizes(items)))
           /\ \A b, at : at \in Nat /\ Holds(b, at, Concat(StepCells(items))) =>
                  ReadList("steps", b, at, Len(items)) = Read(Items(items), Total(StepSizes(items)))
<1> DEFINE N == Len(items)
           s == StepCells(items)
           sizes == StepSizes(items)
           C(i) == Varint(items[i].key) \o <<Short(items[i].n)>>
           Z(i) == SizeOfVarint(items[i].key) + 1
<1>1. N \in Nat /\ DOMAIN items = 1..N /\ \A i \in 1..N : items[i] \in [key: Numbers, n: Shorts]
  BY SeqParts
<1>2. \A i \in 1..N : Fits(C(i), Z(i)) /\ \A b, at : Holds(b, at, C(i)) => ReadStep(b, at) = Read(items[i], Z(i))
  BY <1>1, StepReads
<1>3. s = [i \in 1..N |-> C(i)] /\ sizes = [i \in 1..N |-> Z(i)]
  BY <1>1 DEF StepCells, StepSizes
<1> HIDE DEF C, Z
<1>4. sizes \in Seq(Nat) /\ Len(sizes) = N
  <2> HIDE DEF sizes, N
  <2>1. sizes \in [1..N -> Nat]
    BY <1>2, <1>3 DEF Fits
  <2> QED BY <1>1, <2>1
<1>5. DOMAIN s = DOMAIN sizes /\ s \in [DOMAIN s -> Seq(Cells)] /\ \A i \in DOMAIN sizes : Fits(s[i], sizes[i])
  <2> HIDE DEF sizes, N, s
  <2> QED BY <1>2, <1>3 DEF Fits
<1> HIDE DEF s, sizes
<1>6. /\ Fits(Concat(s), Total(sizes))
      /\ \A b, at : Holds(b, at, Concat(s)) =>
             \A k \in 1..N : Holds(b, at + TotalTo(sizes, k - 1), s[k])
  BY <1>4, <1>5, ConcatFits
<1>7. ASSUME NEW b, NEW at \in Nat, Holds(b, at, Concat(s))
      PROVE  ReadList("steps", b, at, N) = Read(Items(items), Total(sizes))
  <2>1. ASSUME NEW k \in 1..N
        PROVE  ReadOne("steps", b, at + TotalTo(sizes, k - 1)) = Read(items[k], sizes[k])
    <3> DEFINE p == at + TotalTo(sizes, k - 1)
    <3>1. Holds(b, p, C(k)) /\ sizes[k] = Z(k)
      BY <1>3, <1>6, <1>7
    <3> HIDE DEF p
    <3>2. ReadStep(b, p) = Read(items[k], sizes[k])
      BY <1>2, <3>1
    <3>3. ReadOne("steps", b, p) = Read(items[k], sizes[k])
      BY <3>2 DEF ReadOne
    <3> QED BY <3>3 DEF p
  <2> QED BY <2>1, <1>4, ListReads
<1> QED BY <1>6, <1>7 DEF s, sizes

Ground(v) == IF v.kind = "ground" THEN 1 ELSE 0

(* What the header of a delta is read as: the number of its steps and its kind. *)
LEMMA HeaderReads ==
    ASSUME NEW v, NEW k \in 0..Half - 1, v.kind \in {"air", "ground"},
           NEW b, NEW at, Holds(b, at, Varint(2 * k + Ground(v)))
    PROVE  \E h \in Int : /\ ReadVarint(b, at) = Read(Val("number", h, <<>>), SizeOfVarint(2 * k + Ground(v)))
                          /\ Unsigned(h) \div 2 = k
                          /\ (IF h % 2 = 1 THEN "ground" ELSE "air") = v.kind
<1> DEFINE w == 2 * k + Ground(v)
           h == Signed(Unsigned(w))
<1>0. Half \in Nat \ {0} /\ Largest = 2 * Half - 1
  BY LargestType
<1>1. w \in 0..Largest /\ w \in Int /\ w \div 2 = k /\ (w % 2 = 1 <=> v.kind = "ground")
  BY <1>0 DEF Ground
<1> HIDE DEF w
<1>2. ReadVarint(b, at) = Read(Val("number", h, <<>>), SizeOfVarint(w)) /\ h \in Numbers /\ Unsigned(h) = Unsigned(w)
  BY <1>1, VarintReadsAny DEF w
<1>3. Unsigned(w) = w
  BY <1>1, UnsignedType
<1>4. h % 2 = w % 2
  <2>1. h = w \/ h = w - 2 * Half
    BY <1>3 DEF Signed
  <2>2. (w - 2 * Half) % 2 = w % 2
    BY <1>0, <1>1
  <2> QED BY <2>1, <2>2
<1>5. h \in Int
  BY <1>2, NumbersInt
<1>6. Unsigned(h) \div 2 = k
  BY <1>1, <1>2, <1>3
<1>7. (IF h % 2 = 1 THEN "ground" ELSE "air") = v.kind
  BY <1>1, <1>4
<1> QED BY <1>2, <1>5, <1>6, <1>7 DEF w

(* The delta whose header and rest are read. *)
DeltaValue(h, rest) ==
    LET kind == IF h % 2 = 1 THEN "ground" ELSE "air"
    IN  IF Unsigned(h) \div 2 > 0
        THEN Val(kind, Total([i \in DOMAIN rest.items |-> rest.items[i].n]), rest.items)
        ELSE Val(kind, ShortOf(rest.n), <<>>)

DeltaRest(b, at, h, head) ==
    IF Unsigned(h) \div 2 > 0 THEN ReadList("steps", b, at + head, Unsigned(h) \div 2)
    ELSE ReadCell(b, at + head)

LEMMA DeltaOf ==
    ASSUME NEW b, NEW at, NEW h, NEW head, NEW rest, NEW size,
           ReadVarint(b, at) = Read(Val("number", h, <<>>), head),
           DeltaRest(b, at, h, head) = Read(rest, size)
    PROVE  ReadVecDelta(b, at) =
               Read(DeltaValue(h, rest), head + size)
<1> DEFINE first == ReadVarint(b, at)
           second == IF Unsigned(first.value.n) \div 2 > 0
                     THEN ReadList("steps", b, at + first.size, Unsigned(first.value.n) \div 2)
                     ELSE ReadCell(b, at + first.size)
           Both(x, y) == IF Unsigned(x.n) \div 2 > 0
                         THEN Val(IF x.n % 2 = 1 THEN "ground" ELSE "air",
                                  Total([i \in DOMAIN y.items |-> y.items[i].n]), y.items)
                         ELSE Val(IF x.n % 2 = 1 THEN "ground" ELSE "air", ShortOf(y.n), <<>>)
<1>1. first.ok /\ first.value = Val("number", h, <<>>) /\ first.value.n = h /\ first.size = head
  BY ReadFields, ValFields
<1>2. second = Read(rest, size)
  <2> HIDE DEF first
  <2> QED BY <1>1 DEF DeltaRest
<1>3. ReadVecDelta(b, at) = IF ~first.ok THEN Thrown
                            ELSE IF second.ok THEN Read(Both(first.value, second.value), first.size + second.size)
                            ELSE Thrown
  BY DEF ReadVecDelta, Then
<1>4. second.ok /\ second.value = rest /\ second.size = size
  <2> HIDE DEF second
  <2> QED BY <1>2, ReadFields
<1> HIDE DEF first, second, Both
<1>5. ReadVecDelta(b, at) = Read(Both(Val("number", h, <<>>), rest), head + size)
  BY <1>1, <1>3, <1>4
<1>6. Val("number", h, <<>>).n = h
  BY ValFields
<1> QED BY <1>5, <1>6 DEF Both, DeltaValue

(* vecDelta: one number, or the steps whose sum it is. *)
LEMMA VecDeltaCarried ==
    ASSUME NEW v \in Values("vecDelta")
    PROVE  /\ Fits(VecDelta(v), SizeOfVecDelta(v))
           /\ \A b, at : Holds(b, at, VecDelta(v)) => ReadVecDelta(b, at) = Read(v, SizeOfVecDelta(v))
<1> DEFINE items == v.items
           N == Len(items)
           w == 2 * N + Ground(v)
           head == SizeOfVarint(w)
           Steps == {x \in Lists({"air", "ground"}, Int, Numbers, Shorts) :
                       /\ Len(x.items) \in 1..Half - 1
                       /\ x.n = Total([i \in DOMAIN x.items |-> x.items[i].n])}
<1>1. v \in Plain({"air", "ground"}, Shorts) \/ v \in Steps
  BY DEF Values
<1>2. ASSUME v.kind \in {"air", "ground"}, N \in Nat PROVE w \in Int /\ Fits(Varint(w), head)
  <2>1. w \in Int
    BY <1>2 DEF Ground
  <2> QED BY <2>1, VarintFits
<1>3. CASE v \in Plain({"air", "ground"}, Shorts)
  <2>1. v.kind \in {"air", "ground"} /\ v.n \in Shorts /\ items = <<>> /\ v = Val(v.kind, v.n, <<>>)
    BY <1>3, PlainValue
  <2>2. N = 0 /\ N \in Nat
    BY <2>1
  <2>3. VecDelta(v) = Varint(w) \o <<Short(v.n)>> /\ SizeOfVecDelta(v) = head + 1
    BY <2>1 DEF VecDelta, SizeOfVecDelta, Ground
  <2>4. Short(v.n) \in Cells /\ ShortOf(Short(v.n)) = v.n /\ Short(v.n) \in Int
    BY <2>1, ShortType, CellsInt
  <2>5. Fits(Varint(w), head) /\ Fits(<<Short(v.n)>>, 1)
    BY <1>2, <2>1, <2>2, <2>4, CellFits
  <2> HIDE DEF w, head, N, items
  <2>6. ASSUME NEW b, NEW at, Holds(b, at, Varint(w) \o <<Short(v.n)>>)
        PROVE  ReadVecDelta(b, at) = Read(v, head + 1)
    <3>1. Holds(b, at, Varint(w)) /\ Holds(b, at + head, <<Short(v.n)>>)
      BY <2>5, <2>6, HeldParts
    <3>2. PICK h \in Int : /\ ReadVarint(b, at) = Read(Val("number", h, <<>>), head)
                           /\ Unsigned(h) \div 2 = N
                           /\ (IF h % 2 = 1 THEN "ground" ELSE "air") = v.kind
      <4>1. N \in 0..Half - 1
        BY <2>2, LargestType
      <4> QED BY <2>1, <3>1, <4>1, HeaderReads DEF w, head
    <3>3. ReadCell(b, at + head) = Read(Val("number", Short(v.n), <<>>), 1)
      BY <3>1, <2>4, HoldsCell
    <3>4. ~(Unsigned(h) \div 2 > 0)
      BY <2>2, <3>2
    <3> DEFINE rest == Val("number", Short(v.n), <<>>)
    <3>5. rest.n = Short(v.n)
      BY ValFields
    <3> HIDE DEF rest
    <3>6. DeltaRest(b, at, h, head) = Read(rest, 1)
      BY <3>3, <3>4 DEF rest, DeltaRest
    <3>7. ReadVecDelta(b, at) =
               Read(DeltaValue(h, rest), head + 1)
      BY <3>2, <3>6, DeltaOf
    <3> QED BY <3>2, <3>4, <3>5, <3>7, <2>1, <2>4 DEF DeltaValue
  <2> QED BY <2>3, <2>5, <2>6, BothFit
<1>4. CASE v \in Steps
  <2> DEFINE total == Total(StepSizes(items))
             cells == Concat(StepCells(items))
  <2>1. /\ v.kind \in {"air", "ground"} /\ v = Val(v.kind, v.n, items)
        /\ items \in Seq([key: Numbers, n: Shorts])
        /\ N \in 1..Half - 1 /\ v.n = Total([i \in DOMAIN items |-> items[i].n])
    <3>1. v \in Lists({"air", "ground"}, Int, Numbers, Shorts)
      BY <1>4
    <3>2. N \in 1..Half - 1 /\ v.n = Total([i \in DOMAIN items |-> items[i].n])
      BY <1>4
    <3> HIDE DEF Steps
    <3>3. /\ v.kind \in {"air", "ground"} /\ v.items \in Seq([key: Numbers, n: Shorts])
          /\ v = Val(v.kind, v.n, v.items)
      BY <3>1, ListValue
    <3> QED BY <3>2, <3>3
  <2>2. N \in Nat /\ items # <<>> /\ N > 0 /\ N \in 0..Half - 1
    BY <2>1, LargestType
  <2>3. VecDelta(v) = Varint(w) \o cells /\ SizeOfVecDelta(v) = head + total
    BY <2>2 DEF VecDelta, SizeOfVecDelta, Ground, StepCells, StepSizes
  <2>4. Fits(Varint(w), head)
    BY <1>2, <2>1, <2>2
  <2>5. /\ Fits(cells, total)
        /\ \A b, at : at \in Nat /\ Holds(b, at, cells) =>
               ReadList("steps", b, at, N) = Read(Items(items), total)
    BY <2>1, <2>2, StepsRead
  <2> HIDE DEF w, head, N, items, cells, total
  <2>6. ASSUME NEW b, NEW at, Holds(b, at, Varint(w) \o cells)
        PROVE  ReadVecDelta(b, at) = Read(v, head + total)
    <3>1. Holds(b, at, Varint(w)) /\ Holds(b, at + head, cells)
      BY <2>4, <2>5, <2>6, HeldParts
    <3>2. PICK h \in Int : /\ ReadVarint(b, at) = Read(Val("number", h, <<>>), head)
                           /\ Unsigned(h) \div 2 = N
                           /\ (IF h % 2 = 1 THEN "ground" ELSE "air") = v.kind
      <4>1. N \in 0..Half - 1 /\ v.kind \in {"air", "ground"} /\ Holds(b, at, Varint(2 * N + Ground(v)))
        BY <2>1, <2>2, <3>1 DEF w
      <4>2. \E h \in Int : /\ ReadVarint(b, at) = Read(Val("number", h, <<>>), SizeOfVarint(2 * N + Ground(v)))
                           /\ Unsigned(h) \div 2 = N
                           /\ (IF h % 2 = 1 THEN "ground" ELSE "air") = v.kind
        BY <4>1, HeaderReads
      <4> QED BY <4>2 DEF w, head
    <3>3. ReadList("steps", b, at + head, N) = Read(Items(items), total)
      <4>1. at + head \in Nat
        BY <3>1 DEF Holds
      <4> QED BY <4>1, <3>1, <2>5
    <3>4. Items(items).items = items
      BY ValFields DEF Items
    <3>5. Unsigned(h) \div 2 > 0
      BY <2>2, <3>2
    <3> DEFINE rest == Items(items)
    <3> HIDE DEF rest
    <3>6. DeltaRest(b, at, h, head) = Read(rest, total)
      BY <3>2, <3>3, <3>5 DEF rest, DeltaRest
    <3>7. ReadVecDelta(b, at) =
               Read(DeltaValue(h, rest), head + total)
      <4>1. ReadVarint(b, at) = Read(Val("number", h, <<>>), head)
        BY <3>2
      <4> HIDE <3>2
      <4> QED BY <3>6, <4>1, DeltaOf
    <3>8. rest.items = items
      BY <3>4 DEF rest
    <3>9. Val(IF h % 2 = 1 THEN "ground" ELSE "air", Total([i \in DOMAIN rest.items |-> rest.items[i].n]), rest.items) = v
      BY <3>2, <3>8, <2>1
    <3> QED BY <3>5, <3>7, <3>9 DEF DeltaValue
  <2> QED BY <2>3, <2>4, <2>5, <2>6, BothFit
<1> QED BY <1>1, <1>3, <1>4

(* A field that the writing side carries: its value is in range and not lost. *)
Sound(impl, f) ==
    /\ f \in Field /\ f.value \in Values(f.type)
    /\ ~Refused(f)
    /\ ~(f.type = "topBitSetTerminatedArray" /\ f.value.items = <<>>)
    /\ ~(f.type = "lpVec3" /\ Scale(f.value) \div 4 >= Half)
    /\ ~(impl = "compiled" /\ f.type = "registryEntryHolder" /\ f.value.kind = "other")

(***************************************************************************)
(* A field takes the cells sizeOf says, and where they are, the reader of  *)
(* either implementation returns the value and goes that far: whatever is  *)
(* around them, but for a restBuffer, which takes all that is left.        *)
(***************************************************************************)
THEOREM FieldCarried ==
    ASSUME NEW impl \in Impls, NEW peer \in Impls, NEW f, Sound(impl, f)
    PROVE  /\ Fits(EncodeField(impl, f), SizeOf(f))
           /\ \A b, at : /\ Holds(b, at, EncodeField(impl, f))
                         /\ f.type = "restBuffer" => at + SizeOf(f) = Len(b)
                         => DecodeField(peer, f.type, b, at) = Read(Canonical(f).value, SizeOf(f))
<1> DEFINE v == f.value
<1>1. v \in Values(f.type) /\ f.type \in Types /\ f = [type |-> f.type, value |-> v]
  BY DEF Sound, Field
<1>2. f.type \notin {"varlong", "UUID"} => Canonical(f).value = v
  BY DEF Canonical
<1>3. CASE f.type = "optionalVarInt"
  <2>1. v \in Values("optionalVarInt") /\ EncodeField(impl, f) = OptionalVarInt(v) /\ SizeOf(f) = SizeOfOptionalVarInt(v)
    BY <1>1, <1>3 DEF EncodeField, SizeOf
  <2>2. \A b, at : DecodeField(peer, f.type, b, at) = ReadOptionalVarInt(b, at)
    BY <1>3 DEF DecodeField
  <2> QED BY <1>2, <1>3, <2>1, <2>2, OptionalVarIntCarried
<1>4. CASE f.type = "varlong"
  <2>1. v \in Values("varlong") /\ EncodeField(impl, f) = VarLong(v) /\ SizeOf(f) = SizeOfVarint(v.n)
    BY <1>1, <1>4 DEF EncodeField, SizeOf
  <2>2. \A b, at : DecodeField(peer, f.type, b, at) = ReadVarLong(b, at)
    BY <1>4 DEF DecodeField
  <2>3. Canonical(f).value = [v EXCEPT !.kind = IF Scale(v) <= MaxSafe THEN "number" ELSE "bigint"]
    BY <1>1, <1>4 DEF Canonical
  <2> HIDE DEF v
  <2> QED BY <2>1, <2>2, <2>3, VarLongCarried
<1>5. CASE f.type = "registryEntryHolder"
  <2>1. v \in Values("registryEntryHolder") /\ EncodeField(impl, f) = Holder(impl, v) /\ SizeOf(f) = SizeOfHolder(v)
    BY <1>1, <1>5 DEF EncodeField, SizeOf
  <2>2. \A b, at : DecodeField(peer, f.type, b, at) = ReadHolder(b, at)
    BY <1>5 DEF DecodeField
  <2>3. impl = "compiled" => v.kind = "base"
    <3>1. v \in Plain({"base"}, 0..Half - 2) \/ v \in Plain({"other"}, Numbers)
      BY <2>1 DEF Values
    <3>2. v.kind = "base" \/ v.kind = "other"
      BY <3>1 DEF Plain
    <3> QED BY <1>5, <3>2 DEF Sound
  <2> QED BY <1>2, <1>5, <2>1, <2>2, <2>3, HolderCarried
<1>6. CASE f.type = "registryEntryHolderSet"
  <2>1. v \in Values("registryEntryHolderSet") /\ EncodeField(impl, f) = HolderSet(v) /\ SizeOf(f) = SizeOfHolderSet(v)
    BY <1>1, <1>6 DEF EncodeField, SizeOf
  <2>2. \A b, at : DecodeField(peer, f.type, b, at) = ReadHolderSet(peer, b, at)
    BY <1>6 DEF DecodeField
  <2> QED BY <1>2, <1>6, <2>1, <2>2, HolderSetCarried
<1>7. CASE f.type = "entityMetadataLoop"
  <2>1. v \in Values("entityMetadataLoop") /\ EncodeField(impl, f) = EntityMetadata(v) /\ SizeOf(f) = 1 + EntriesSize(v.items)
    BY <1>1, <1>7 DEF EncodeField, SizeOf
  <2>2. \A b, at : DecodeField(peer, f.type, b, at) = ReadLoop(b, at)
    BY <1>7 DEF DecodeField
  <2> QED BY <1>2, <1>7, <2>1, <2>2, EntityMetadataCarried
<1>8. CASE f.type = "topBitSetTerminatedArray"
  <2>1. v \in Values("topBitSetTerminatedArray") /\ EncodeField(impl, f) = TopBitArray(v.items) /\ SizeOf(f) = EntriesSize(v.items)
    BY <1>1, <1>8 DEF EncodeField, SizeOf
  <2>2. \A b, at : DecodeField(peer, f.type, b, at) = ReadTopBit(b, at)
    BY <1>8 DEF DecodeField
  <2>3. v.items # <<>>
    BY <1>8 DEF Sound
  <2> QED BY <1>2, <1>8, <2>1, <2>2, <2>3, TopBitArrayCarried
<1>9. CASE f.type = "vecDelta"
  <2>1. v \in Values("vecDelta") /\ EncodeField(impl, f) = VecDelta(v) /\ SizeOf(f) = SizeOfVecDelta(v)
    BY <1>1, <1>9 DEF EncodeField, SizeOf
  <2>2. \A b, at : DecodeField(peer, f.type, b, at) = ReadVecDelta(b, at)
    BY <1>9 DEF DecodeField
  <2> QED BY <1>2, <1>9, <2>1, <2>2, VecDeltaCarried
<1>10. CASE f.type = "clickActionNbt"
  <2>1. v \in Values("clickActionNbt") /\ EncodeField(impl, f) = ClickActionNbt(v) /\ SizeOf(f) = SizeOfClickActionNbt(v)
    BY <1>1, <1>10 DEF EncodeField, SizeOf
  <2>2. \A b, at : DecodeField(peer, f.type, b, at) = ReadClickActionNbt(b, at)
    BY <1>10 DEF DecodeField
  <2>3. ~(Len(Tag(v)) > MaxNbt)
    BY <1>10 DEF Sound, Refused
  <2> QED BY <1>2, <1>10, <2>1, <2>2, <2>3, ClickActionNbtCarried
<1>11. CASE f.type = "compressedNbt"
  <2>1. v \in Values("compressedNbt") /\ EncodeField(impl, f) = CompressedNbt(v) /\ SizeOf(f) = SizeOfCompressedNbt(v)
    BY <1>1, <1>11 DEF EncodeField, SizeOf
  <2>2. \A b, at : DecodeField(peer, f.type, b, at) = ReadCompressedNbt(b, at)
    BY <1>11 DEF DecodeField
  <2>3. ~(v.kind # "none" /\ Len(Gzip(v)) >= Top)
    BY <1>11 DEF Sound, Refused
  <2> QED BY <1>2, <1>11, <2>1, <2>2, <2>3, CompressedNbtCarried
<1>12. CASE f.type = "lpVec3"
  <2>1. v \in Values("lpVec3") /\ EncodeField(impl, f) = LpVec3(v) /\ SizeOf(f) = SizeOfLpVec3(v)
    BY <1>1, <1>12 DEF EncodeField, SizeOf
  <2>2. \A b, at : DecodeField(peer, f.type, b, at) = ReadLpVec3(b, at)
    BY <1>12 DEF DecodeField
  <2>3. ~(Scale(v) \div 4 >= Half)
    BY <1>12 DEF Sound
  <2> QED BY <1>2, <1>12, <2>1, <2>2, <2>3, LpVec3Carried
<1>13. CASE f.type = "UUID"
  <2>1. v \in Values("UUID") /\ EncodeField(impl, f) = UUID(v) /\ SizeOf(f) = 2
    BY <1>1, <1>13 DEF EncodeField, SizeOf
  <2>2. \A b, at : DecodeField(peer, f.type, b, at) = ReadUUID(b, at)
    BY <1>13 DEF DecodeField
  <2>3. Canonical(f).value = [v EXCEPT !.kind = "dashed"]
    BY <1>1, <1>13 DEF Canonical
  <2> HIDE DEF v
  <2> QED BY <2>1, <2>2, <2>3, UUIDCarried
<1>14. CASE f.type = "restBuffer"
  <2>1. v \in Values("restBuffer") /\ EncodeField(impl, f) = RestBuffer(v) /\ SizeOf(f) = Len(v.items)
    BY <1>1, <1>14 DEF EncodeField, SizeOf
  <2>2. \A b, at : DecodeField(peer, f.type, b, at) = ReadRestBuffer(b, at)
    BY <1>14 DEF DecodeField
  <2> QED BY <1>2, <1>14, <2>1, <2>2, RestBufferCarried
<1> QED BY <1>1, <1>3, <1>4, <1>5, <1>6, <1>7, <1>8, <1>9, <1>10, <1>11, <1>12, <1>13, <1>14 DEF Types

(* The form of a value when it is read changes neither type nor list. *)
LEMMA CanonicalField ==
    ASSUME NEW impl, NEW f, Sound(impl, f)
    PROVE  /\ Canonical(f) = [type |-> f.type, value |-> Canonical(f).value]
           /\ f.type = "topBitSetTerminatedArray" => Canonical(f) = f
           /\ Canonical(f).type = f.type
<1>1. f.type \in Types /\ f = [type |-> f.type, value |-> f.value]
  BY DEF Sound, Field
<1> QED BY <1>1 DEF Canonical

(* Cells that stay are still there. *)
LEMMA HoldsKept ==
    ASSUME NEW b, NEW d \in Seq(Int), NEW at, NEW cells, Holds(b, at, cells), Len(d) = Len(b),
           \A i \in at + 1..at + Len(cells) : d[i] = b[i]
    PROVE  Holds(d, at, cells)
<1>1. /\ b \in Seq(Int) /\ cells \in Seq(Int) /\ at \in Nat /\ at + Len(cells) <= Len(b)
      /\ Len(cells) \in Nat /\ \A i \in 1..Len(cells) : b[at + i] = cells[i]
  <2>1. cells \in Seq(Int)
    BY DEF Holds
  <2>2. Len(cells) \in Nat
    BY <2>1
  <2> QED BY <2>1, <2>2 DEF Holds
<1>2. ASSUME NEW i \in 1..Len(cells) PROVE d[at + i] = cells[i]
  <2>1. at + i \in at + 1..at + Len(cells)
    BY <1>1
  <2> QED BY <1>1, <2>1
<1> QED BY <1>1, <1>2 DEF Holds

(* The reader of a field changes nothing behind it. *)
LEMMA LeftByOthers ==
    ASSUME NEW impl \in Impls, NEW f, Sound(impl, f), NEW b, NEW at, Holds(b, at, EncodeField(impl, f))
    PROVE  /\ LeftBy(Canonical(f), b, at) \in Seq(Int)
           /\ Len(LeftBy(Canonical(f), b, at)) = Len(b)
           /\ \A i \in at + SizeOf(f) + 1..Len(b) : LeftBy(Canonical(f), b, at)[i] = b[i]
<1>1. b \in Seq(Int) /\ at \in Nat /\ Len(b) \in Nat /\ DOMAIN b = 1..Len(b) /\ \A i \in 1..Len(b) : b[i] \in Int
  BY SeqParts DEF Holds
<1>2. CASE f.type # "topBitSetTerminatedArray"
  <2>1. Canonical(f).type = f.type
    BY CanonicalField
  <2> QED BY <1>1, <1>2, <2>1 DEF LeftBy
<1>3. CASE f.type = "topBitSetTerminatedArray"
  <2> DEFINE items == f.value.items
             sizes == EntrySizes(items)
             Start(i) == at + TotalTo(sizes, i - 1) + 1
             starts == {Start(i) : i \in DOMAIN items}
             d == [i \in DOMAIN b |-> IF i \in starts THEN b[i] % Top ELSE b[i]]
  <2>1. LeftBy(Canonical(f), b, at) = d
    <3>1. Canonical(f) = f
      BY <1>3, CanonicalField
    <3> QED BY <1>3, <3>1 DEF LeftBy
  <2>2. items \in Entries(0..Top - 1)
    <3> DEFINE K == 0..Top - 1
    <3>1. f.value \in Lists({"number"}, {0}, K, Numbers)
      BY <1>3 DEF Sound, Values
    <3> HIDE DEF K
    <3>2. f.value.items \in Seq([key: K, n: Numbers])
      BY <3>1, ListValue
    <3> QED BY <3>2 DEF K, Entries
  <2>3. SizeOf(f) = Total(sizes)
    BY <1>3 DEF SizeOf, EntriesSize
  <2> HIDE DEF items
  <2>4. /\ sizes \in Seq(Nat \ {0}) /\ sizes \in Seq(Nat) /\ Len(sizes) = Len(items)
        /\ Len(items) \in Nat /\ DOMAIN items = 1..Len(items)
    BY <2>2, EntrySizesType
  <2> HIDE DEF sizes
  <2>5. ASSUME NEW k \in DOMAIN items PROVE Start(k) \in Nat /\ Start(k) <= at + Total(sizes)
    <3>1. k \in 1..Len(sizes) /\ k - 1 \in 0..Len(sizes) /\ k \in 0..Len(sizes) /\ Len(sizes) \in 0..Len(sizes) /\ k \in 0..Len(sizes)
      BY <2>4
    <3>2. sizes \in Seq(Int) /\ sizes[k] \in Nat \ {0}
      BY <2>4, <3>1, SeqParts
    <3>3. TotalTo(sizes, k) = TotalTo(sizes, k - 1) + sizes[k]
      BY <3>1, <3>2, SumUnfold
    <3>4. TotalTo(sizes, k) \in Nat /\ TotalTo(sizes, k - 1) \in Nat /\ TotalTo(sizes, Len(sizes)) \in Nat
      BY <2>4, <3>1, SumGrows
    <3>5. TotalTo(sizes, k) <= TotalTo(sizes, Len(sizes))
      <4>1. k \in 0..Len(sizes)
        BY <3>1
      <4> QED BY <2>4, <3>1, <4>1, SumGrows
    <3>6. Total(sizes) = TotalTo(sizes, Len(sizes))
      BY DEF Total
    <3> DEFINE before == TotalTo(sizes, k - 1)
               size == sizes[k]
               total == Total(sizes)
    <3>7. Start(k) = at + before + 1
      OBVIOUS
    <3>8. at \in Nat /\ before \in Nat /\ size \in Nat \ {0} /\ total \in Nat
      BY <1>1, <3>2, <3>4, <3>6
    <3>9. before + size <= total
      BY <3>3, <3>5, <3>6
    <3> HIDE DEF Start, before, size, total
    <3>10. Start(k) \in Nat /\ Start(k) <= at + total
      BY <3>7, <3>8, <3>9
    <3> QED BY <3>10 DEF total
  <2>6. Total(sizes) \in Nat
    BY <2>4, SumGrows DEF Total
  <2>7. \A i \in at + Total(sizes) + 1..Len(b) : i \notin starts
    <3>1. ASSUME NEW i \in at + Total(sizes) + 1..Len(b), i \in starts PROVE FALSE
      <4>1. PICK k \in DOMAIN items : i = Start(k)
        BY <3>1
      <4> HIDE DEF Start, starts
      <4> QED BY <1>1, <2>5, <2>6, <4>1
    <3> QED BY <3>1
  <2> HIDE DEF starts
  <2>8. d \in Seq(Int) /\ Len(d) = Len(b)
    <3>1. \A x \in Int : x % Top \in Int
      BY DEF Top
    <3>2. d \in [1..Len(b) -> Int]
      BY <1>1, <3>1
    <3> HIDE DEF d
    <3> QED BY <1>1, <3>2
  <2>9. \A i \in at + Total(sizes) + 1..Len(b) : d[i] = b[i]
    BY <1>1, <2>6, <2>7
  <2> HIDE DEF d
  <2> QED BY <2>1, <2>3, <2>8, <2>9
<1> QED BY <1>2, <1>3

(***************************************************************************)
(* The invariant: a field begins where the sizes of those before it end.   *)
(* Those before the writer's cursor are in the buffer, and those behind    *)
(* the reader's are still there, while what has been read is the values of *)
(* the fields before it.                                                   *)
(***************************************************************************)
Offset(i) == TotalTo(FieldSizes, i - 1)

Written(i) == Holds(buffer, Offset(i), EncodeField(writer, packet[i]))

ReadUpTo(k) == [i \in 1..k |-> Canonical(packet[i])]

Sent == \A i \in DOMAIN packet : ~Refused(packet[i])

PacketInv ==
    /\ packet \in Packets /\ writer \in Impls /\ reader \in Impls /\ fill \in Junk
    /\ stage \in {"sizing", "writing", "reading", "done", "thrown"}
    /\ stage = "sizing" => cursor = 0 /\ field = 1 /\ got = <<>>

BufferInv ==
    /\ stage = "thrown" => ~Sent
    /\ stage \in {"writing", "reading", "done"} =>
           Sent /\ buffer \in Seq(Int) /\ Len(buffer) = Size
    /\ stage \in {"writing", "reading"} => field \in 1..Len(packet) /\ cursor = Offset(field)
    /\ stage = "writing" => got = <<>> /\ \A i \in 1..field - 1 : Written(i)
    /\ stage = "reading" => got = ReadUpTo(field - 1) /\ \A i \in field..Len(packet) : Written(i)
    /\ stage = "done" => got = ReadUpTo(Len(packet)) /\ cursor = Len(buffer)

CodecsInv == PacketInv /\ (Carried => BufferInv)

-----------------------------------------------------------------------------
(* The fields of a packet are in range. *)
LEMMA PacketFields ==
    ASSUME packet \in Packets
    PROVE  /\ Len(packet) \in Nat /\ Len(packet) >= 1 /\ DOMAIN packet = 1..Len(packet)
           /\ packet \in Seq(Field)
           /\ \A i \in 1..Len(packet) : packet[i] \in Field /\ packet[i].value \in Values(packet[i].type)
           /\ \A i \in 1..Len(packet) - 1 : packet[i].type # "restBuffer"
<1>1. packet \in Seq(Field) /\ packet # <<>>
  BY CodecsAssumption
<1>2. Len(packet) \in Nat /\ DOMAIN packet = 1..Len(packet) /\ \A i \in 1..Len(packet) : packet[i] \in Field
  BY <1>1, SeqParts
<1>3. Len(packet) >= 1
  BY <1>1
<1>4. \A i \in DOMAIN packet : packet[i].value \in Values(packet[i].type)
  BY CodecsAssumption
<1>5. \A i \in 1..Len(packet) - 1 : packet[i].type # "restBuffer"
  BY CodecsAssumption
<1> QED BY <1>1, <1>2, <1>3, <1>4, <1>5

(* The fields of a packet that is carried are carried. *)
LEMMA SoundFields ==
    ASSUME packet \in Packets, Carried, Sent
    PROVE  \A i \in 1..Len(packet) : Sound(writer, packet[i])
<1>1. ASSUME NEW i \in 1..Len(packet) PROVE Sound(writer, packet[i])
  <2>1. i \in DOMAIN packet /\ packet[i] \in Field /\ packet[i].value \in Values(packet[i].type)
    BY PacketFields
  <2>2. ~Lost(i) /\ ~Refused(packet[i])
    BY <2>1 DEF Carried, Sent
  <2> QED BY <2>1, <2>2 DEF Lost, Sound
<1> QED BY <1>1

(* A field begins where those before it end, and ends in the buffer. *)
LEMMA Offsets ==
    ASSUME packet \in Packets, writer \in Impls, Carried, Sent
    PROVE  /\ FieldSizes \in Seq(Nat) /\ Len(FieldSizes) = Len(packet)
           /\ Size \in Nat /\ Offset(1) = 0 /\ Offset(Len(packet) + 1) = Size
           /\ \A i \in 1..Len(packet) :
                 /\ Fits(EncodeField(writer, packet[i]), SizeOf(packet[i]))
                 /\ Offset(i) \in Nat /\ SizeOf(packet[i]) \in Nat
                 /\ Offset(i + 1) = Offset(i) + SizeOf(packet[i])
                 /\ Offset(i + 1) <= Size
           /\ \A i \in 1..Len(packet) : \A j \in 1..i : Offset(j) <= Offset(i)
<1>1. Len(packet) \in Nat /\ Len(packet) >= 1 /\ DOMAIN packet = 1..Len(packet)
  BY PacketFields
<1>2. \A i \in 1..Len(packet) : Fits(EncodeField(writer, packet[i]), SizeOf(packet[i])) /\ SizeOf(packet[i]) \in Nat
  <2>1. ASSUME NEW i \in 1..Len(packet) PROVE Fits(EncodeField(writer, packet[i]), SizeOf(packet[i]))
    <3>1. Sound(writer, packet[i])
      BY SoundFields
    <3> QED BY <3>1, FieldCarried DEF Impls
  <2> QED BY <2>1 DEF Fits
<1> DEFINE s == FieldSizes
<1>3. s \in Seq(Nat) /\ s \in Seq(Int) /\ Len(s) = Len(packet) /\ \A i \in 1..Len(packet) : s[i] = SizeOf(packet[i])
  <2>1. s = [i \in 1..Len(packet) |-> SizeOf(packet[i])]
    BY <1>1 DEF FieldSizes
  <2> HIDE DEF s
  <2>2. s \in [1..Len(packet) -> Nat] /\ s \in [1..Len(packet) -> Int]
    BY <1>2, <2>1
  <2> QED BY <1>1, <2>1, <2>2
<1> HIDE DEF s
<1>4. TotalTo(s, 0) = 0 /\ \A k \in 1..Len(s) : TotalTo(s, k) = TotalTo(s, k - 1) + s[k]
  BY <1>3, SumUnfold
<1>5. /\ \A k \in 0..Len(s) : TotalTo(s, k) \in Nat
      /\ \A k \in 0..Len(s) : \A j \in 0..k : TotalTo(s, j) <= TotalTo(s, k)
  BY <1>3, SumGrows
<1>6. \A k : Offset(k) = TotalTo(s, k - 1)
  BY DEF Offset, s
<1>7. Size = TotalTo(s, Len(packet))
  BY <1>3 DEF Size, Total, s
<1>8. 1 - 1 = 0 /\ (Len(packet) + 1) - 1 = Len(packet) /\ Len(packet) \in 0..Len(s)
  BY <1>1, <1>3
<1>9. ASSUME NEW i \in 1..Len(packet)
      PROVE  /\ Offset(i) \in Nat /\ Offset(i + 1) = Offset(i) + SizeOf(packet[i])
             /\ Offset(i + 1) <= Size
             /\ \A j \in 1..i : Offset(j) <= Offset(i)
  <2>1. i \in 1..Len(s) /\ i - 1 \in 0..Len(s) /\ i \in 0..Len(packet) /\ (i + 1) - 1 = i
    BY <1>1, <1>3
  <2>2. Offset(i) = TotalTo(s, i - 1) /\ Offset(i + 1) = TotalTo(s, i)
    BY <1>6, <2>1
  <2>3. TotalTo(s, i) = TotalTo(s, i - 1) + s[i] /\ s[i] = SizeOf(packet[i])
    BY <1>3, <1>4, <2>1
  <2>4. TotalTo(s, i) <= TotalTo(s, Len(packet))
    BY <1>5, <1>8, <2>1
  <2>5. ASSUME NEW j \in 1..i PROVE Offset(j) <= Offset(i)
    <3>1. j - 1 \in 0..i - 1
      BY <1>1
    <3> QED BY <1>5, <1>6, <2>1, <2>2, <3>1
  <2> QED BY <1>5, <1>7, <2>1, <2>2, <2>3, <2>4, <2>5
<1>10. Size \in Nat /\ Offset(1) = 0 /\ Offset(Len(packet) + 1) = Size
  BY <1>4, <1>5, <1>6, <1>7, <1>8
<1> QED BY <1>2, <1>3, <1>9, <1>10 DEF s

(* A field takes its size. *)
LEMMA EncodeLength ==
    ASSUME packet \in Packets, writer \in Impls, Carried, Sent, NEW i \in 1..Len(packet)
    PROVE  /\ Len(EncodeField(writer, packet[i])) = SizeOf(packet[i])
           /\ EncodeField(writer, packet[i]) \in Seq(Cells)
           /\ DOMAIN EncodeField(writer, packet[i]) = 1..SizeOf(packet[i])
           /\ \A j \in 1..SizeOf(packet[i]) : EncodeField(writer, packet[i])[j] \in Cells
<1>1. Fits(EncodeField(writer, packet[i]), SizeOf(packet[i]))
  BY Offsets
<1>2. EncodeField(writer, packet[i]) \in Seq(Cells) /\ Len(EncodeField(writer, packet[i])) = SizeOf(packet[i])
  BY <1>1 DEF Fits
<1> QED BY <1>2, SeqParts

-----------------------------------------------------------------------------
(* Only the packet decides these. *)
LEMMA SamePacket ==
    ASSUME packet' = packet, writer' = writer
    PROVE  /\ FieldSizes' = FieldSizes /\ Size' = Size /\ Sent' = Sent
           /\ Carried' = Carried
           /\ \A i : Offset(i)' = Offset(i) /\ ReadUpTo(i)' = ReadUpTo(i)
<1>1. FieldSizes' = FieldSizes
  BY DEF FieldSizes
<1> QED BY <1>1 DEF Size, Sent, Carried, Lost, Offset, ReadUpTo

(* The first state. *)
LEMMA CodecsInitInv == CodecsInit => CodecsInv
BY DEF CodecsInit, CodecsInv, PacketInv, BufferInv

(* The buffer has the size of all fields. *)
LEMMA AllocateInv ==
    ASSUME PacketInv, Allocate, Carried
    PROVE  BufferInv'
<1>1. stage = "sizing" /\ packet' = packet /\ writer' = writer /\ cursor' = 0 /\ field' = 1 /\ got' = <<>>
  BY DEF PacketInv, Allocate
<1>2. packet \in Packets /\ writer \in Impls /\ Len(packet) \in Nat /\ Len(packet) >= 1
  BY PacketFields DEF PacketInv
<1>3. CASE ~Sent
  <2>1. stage' = "thrown"
    BY <1>3 DEF Allocate, Sent
  <2>2. ~Sent'
    BY <1>1, <1>3, SamePacket
  <2> QED BY <2>1, <2>2 DEF BufferInv
<1>4. CASE Sent
  <2>1. stage' = "writing" /\ buffer' = [i \in 1..Size |-> fill]
    BY <1>4 DEF Allocate, Sent
  <2>2. Size \in Nat /\ Offset(1) = 0
    BY <1>2, <1>4, Offsets
  <2>3. buffer' \in Seq(Int) /\ Len(buffer') = Size
    <3>1. fill \in Int
      BY CodecsAssumption, CellsInt DEF PacketInv
    <3> QED BY <2>1, <2>2, <3>1
  <2>4. Sent' /\ Size' = Size /\ Offset(1)' = 0 /\ Len(packet') = Len(packet)
    BY <1>1, <1>4, <2>2, SamePacket
  <2>5. field' \in 1..Len(packet') /\ cursor' = Offset(field)'
    <3>1. Offset(field)' = TotalTo(FieldSizes', field' - 1) /\ Offset(1)' = TotalTo(FieldSizes', 1 - 1)
      BY DEF Offset
    <3> QED BY <1>1, <1>2, <2>4, <3>1
  <2>6. \A i \in 1..field' - 1 : Written(i)'
    BY <1>1
  <2> QED BY <1>1, <2>1, <2>3, <2>4, <2>5, <2>6 DEF BufferInv
<1> QED BY <1>3, <1>4

(* The field is written where the sizes of those before it end, and they stay. *)
LEMMA WriteFieldInv ==
    ASSUME PacketInv, BufferInv, WriteField, Carried
    PROVE  BufferInv'
<1> DEFINE f == packet[field]
           cells == EncodeField(writer, f)
           n == SizeOf(f)
           Cell(i) == IF i - cursor \in DOMAIN cells /\ cells[i - cursor] # Unwritten
                      THEN cells[i - cursor] ELSE buffer[i]
           d == [i \in DOMAIN buffer |-> Cell(i)]
<1>1. stage = "writing" /\ packet' = packet /\ writer' = writer /\ got' = got
  BY DEF WriteField
<1>2. packet \in Packets /\ writer \in Impls /\ Len(packet) \in Nat
  BY PacketFields DEF PacketInv
<1>3. /\ Sent /\ buffer \in Seq(Int) /\ Len(buffer) = Size /\ field \in 1..Len(packet)
      /\ cursor = Offset(field) /\ got = <<>> /\ \A i \in 1..field - 1 : Written(i)
  BY <1>1 DEF BufferInv
<1>4. /\ Len(cells) = n /\ cells \in Seq(Cells) /\ DOMAIN cells = 1..n
      /\ \A j \in 1..n : cells[j] \in Cells
  BY <1>2, <1>3, EncodeLength
<1>5. /\ Size \in Nat /\ cursor \in Nat /\ n \in Nat
      /\ Offset(field + 1) = cursor + n /\ cursor + n <= Size
  BY <1>2, <1>3, Offsets
<1>6. ~(cursor + Len(cells) > Len(buffer))
  BY <1>3, <1>4, <1>5
<1>7. buffer' = d /\ IF field < Len(packet)
                     THEN cursor' = After(writer, f, cursor) /\ field' = field + 1 /\ stage' = stage
                     ELSE cursor' = 0 /\ field' = 1 /\ stage' = "reading"
  BY <1>6 DEF WriteField
<1>8. DOMAIN buffer = 1..Size /\ \A i \in 1..Size : buffer[i] \in Int
  BY <1>3, SeqParts
<1> HIDE DEF cells, f, n
<1>9. d \in Seq(Int) /\ Len(d) = Size
  <2>1. ASSUME NEW i \in 1..Size PROVE Cell(i) \in Int
    BY <1>4, <1>8, CellsInt
  <2>2. d = [i \in 1..Size |-> Cell(i)]
    BY <1>8
  <2> HIDE DEF Cell, d
  <2>3. d \in [1..Size -> Int]
    BY <2>1, <2>2
  <2> QED BY <1>5, <2>3
<1>10. \A i \in 1..cursor : i \in 1..Size => d[i] = buffer[i]
  <2>1. ASSUME NEW i \in 1..cursor, i \in 1..Size PROVE d[i] = buffer[i]
    <3>1. i - cursor \notin 1..n
      BY <1>5
    <3> QED BY <1>4, <1>8, <2>1, <3>1
  <2> QED BY <2>1
<1>11. Holds(d, cursor, cells)
  <2>1. ASSUME NEW j \in 1..n PROVE d[cursor + j] = cells[j]
    <3>1. cursor + j \in 1..Size /\ (cursor + j) - cursor = j
      BY <1>5
    <3>2. cells[j] # Unwritten
      BY <1>4 DEF Cells, Unwritten, Top, Group
    <3> QED BY <1>4, <1>8, <3>1, <3>2
  <2> HIDE DEF d
  <2>2. cells \in Seq(Int)
    BY <1>4, CellSeqs
  <2> QED BY <1>4, <1>5, <1>9, <2>1, <2>2 DEF Holds
<1> HIDE DEF d
<1>12. \A i \in 1..field : Written(i)'
  <2>1. ASSUME NEW i \in 1..field - 1 PROVE Written(i)'
    <3>1. i \in 1..Len(packet) /\ i + 1 \in 1..field
      BY <1>2, <1>3
    <3>2. Holds(buffer, Offset(i), EncodeField(writer, packet[i])) /\ Len(EncodeField(writer, packet[i])) = SizeOf(packet[i])
      BY <1>2, <1>3, <3>1, EncodeLength DEF Written
    <3>3. Offset(i + 1) <= cursor /\ Offset(i + 1) = Offset(i) + SizeOf(packet[i]) /\ Offset(i) \in Nat /\ SizeOf(packet[i]) \in Nat
      BY <1>2, <1>3, <3>1, Offsets
    <3>4. \A k \in Offset(i) + 1..Offset(i) + SizeOf(packet[i]) : d[k] = buffer[k]
      BY <1>5, <1>10, <3>3
    <3>5. Holds(d, Offset(i), EncodeField(writer, packet[i]))
      BY <1>3, <1>9, <3>2, <3>4, HoldsKept
    <3>6. Offset(i)' = Offset(i)
      BY <1>1, SamePacket
    <3> QED BY <1>1, <1>7, <3>5, <3>6 DEF Written
  <2>2. ASSUME NEW i \in 1..field, i = field PROVE Written(i)'
    <3>1. Holds(d, Offset(i), EncodeField(writer, packet[i]))
      BY <1>3, <1>11, <2>2 DEF cells, f
    <3>2. Offset(i)' = Offset(i)
      BY <1>1, SamePacket
    <3> QED BY <1>1, <1>7, <3>1, <3>2 DEF Written
  <2>3. \A i \in 1..field : i \in 1..field - 1 \/ i = field
    BY <1>2, <1>3
  <2> QED BY <2>1, <2>2, <2>3
<1>13. Sent' /\ Size' = Size /\ Len(packet') = Len(packet) /\ Len(buffer') = Size /\ buffer' \in Seq(Int)
  BY <1>1, <1>3, <1>7, <1>9, SamePacket
<1>14. CASE field < Len(packet)
  <2>1. cursor' = After(writer, f, cursor) /\ field' = field + 1 /\ stage' = "writing"
    BY <1>1, <1>7, <1>14
  <2>2. After(writer, f, cursor) = cursor + n
    <3>1. ~(writer = "compiled" /\ f.type = "entityMetadataLoop")
      <4>1. field \in DOMAIN packet
        BY <1>2, <1>3, PacketFields
      <4> QED BY <4>1, <1>14 DEF Carried, Lost, f
    <3> QED BY <3>1, <1>4 DEF After, cells
  <2>3. cursor' = Offset(field + 1)
    BY <1>5, <2>1, <2>2
  <2>4. Offset(field)' = Offset(field + 1)
    BY <1>1, <2>1, SamePacket DEF Offset
  <2>5. field' \in 1..Len(packet') /\ field' - 1 = field
    BY <1>1, <1>2, <1>3, <1>14, <2>1
  <2>6. \A i \in 1..field' - 1 : Written(i)'
    BY <1>12, <2>5
  <2> QED BY <1>1, <1>3, <1>13, <2>1, <2>3, <2>4, <2>5, <2>6 DEF BufferInv
<1>15. CASE ~(field < Len(packet))
  <2>1. cursor' = 0 /\ field' = 1 /\ stage' = "reading"
    BY <1>7, <1>15
  <2>2. field = Len(packet)
    BY <1>2, <1>3, <1>15
  <2>3. Offset(field)' = Offset(1) /\ Offset(1) = 0
    <3>1. Offset(field)' = Offset(1)
      BY <1>1, <2>1, SamePacket DEF Offset
    <3> QED BY <3>1, <1>2, <1>3, Offsets
  <2>4. \A i \in field'..Len(packet') : Written(i)'
    BY <1>1, <1>12, <2>1, <2>2
  <2>5. got' = ReadUpTo(field - 1)'
    <3>1. ReadUpTo(field - 1)' = <<>>
      BY <2>1 DEF ReadUpTo
    <3> QED BY <1>1, <1>3, <3>1
  <2>6. field' \in 1..Len(packet')
    BY <1>1, <1>2, <1>3, <2>1, <2>2
  <2> QED BY <1>13, <2>1, <2>3, <2>4, <2>5, <2>6 DEF BufferInv
<1> QED BY <1>14, <1>15

(* What has been read and one more field. *)
LEMMA ReadMore ==
    ASSUME packet \in Packets, NEW k \in 1..Len(packet)
    PROVE  Append(ReadUpTo(k - 1), Canonical(packet[k])) = ReadUpTo(k)
<1>1. Len(packet) \in Nat
  BY PacketFields
<1> DEFINE C(i) == Canonical(packet[i])
<1>2. \A i \in 1..k : i \in 1..k - 1 \/ i = k
  BY <1>1
<1> HIDE DEF C
<1>3. Append([i \in 1..k - 1 |-> C(i)], C(k)) = [i \in 1..k |-> C(i)]
  <2> DEFINE s == [i \in 1..k - 1 |-> C(i)]
  <2>1. k - 1 \in Nat /\ (k - 1) + 1 = k
    BY <1>1
  <2>2. Len(s) = k - 1 /\ DOMAIN s = 1..k - 1
    BY <2>1
  <2> DEFINE A == {C(i) : i \in 1..k}
             t == Append(s, C(k))
  <2>3. s \in Seq(A) /\ C(k) \in A
    <3>1. s \in [1..k - 1 -> A]
      BY <1>1
    <3> QED BY <2>1, <3>1
  <2>4. \A i \in 1..k - 1 : s[i] = C(i)
    OBVIOUS
  <2> HIDE DEF s, A
  <2>5. t \in Seq(A) /\ Len(t) = k /\ t[k] = C(k) /\ \A i \in 1..k - 1 : t[i] = s[i]
    BY <2>1, <2>2, <2>3
  <2> HIDE DEF t
  <2>6. t = [i \in 1..k |-> t[i]]
    BY <2>5, SeqParts
  <2>7. \A i \in 1..k : t[i] = C(i)
    BY <1>2, <2>4, <2>5
  <2>8. t = [i \in 1..k |-> C(i)]
    BY <2>6, <2>7
  <2> QED BY <2>8 DEF t, s
<1> QED BY <1>3 DEF ReadUpTo, C

(* A field is read as its value, and those behind it are still there. *)
LEMMA ReadFieldInv ==
    ASSUME PacketInv, BufferInv, ReadField, Carried
    PROVE  BufferInv'
<1> DEFINE f == packet[field]
           n == SizeOf(f)
           r == DecodeField(reader, f.type, buffer, cursor)
           d == LeftBy(Canonical(f), buffer, cursor)
<1>1. stage = "reading" /\ packet' = packet /\ writer' = writer
  BY DEF ReadField
<1>2. packet \in Packets /\ writer \in Impls /\ reader \in Impls /\ Len(packet) \in Nat
  BY PacketFields DEF PacketInv
<1>3. /\ Sent /\ buffer \in Seq(Int) /\ Len(buffer) = Size /\ field \in 1..Len(packet)
      /\ cursor = Offset(field) /\ got = ReadUpTo(field - 1)
      /\ \A i \in field..Len(packet) : Written(i)
  BY <1>1 DEF BufferInv
<1>4. Sound(writer, f)
  BY <1>2, <1>3, SoundFields
<1>5. Holds(buffer, cursor, EncodeField(writer, f))
  <2>1. field \in field..Len(packet)
    BY <1>2, <1>3
  <2> QED BY <1>3, <2>1 DEF Written
<1>6. /\ Size \in Nat /\ cursor \in Nat /\ n \in Nat /\ Offset(Len(packet) + 1) = Size
      /\ Offset(field + 1) = cursor + n /\ cursor + n <= Size
  BY <1>2, <1>3, Offsets
<1>7. f.type = "restBuffer" => cursor + n = Len(buffer)
  <2>1. ASSUME f.type = "restBuffer" PROVE field = Len(packet)
    <3>1. field \notin 1..Len(packet) - 1
      BY <1>2, <2>1, PacketFields
    <3> QED BY <1>2, <1>3, <3>1
  <2> QED BY <1>3, <1>6, <2>1
<1>8. r = Read(Canonical(f).value, n)
  BY <1>2, <1>4, <1>5, <1>7, FieldCarried
<1> HIDE DEF r
<1>9. r.ok /\ r.value = Canonical(f).value /\ r.size = n
  BY <1>8, ReadFields
<1>10. got' = Append(got, [type |-> f.type, value |-> r.value]) /\ buffer' = LeftBy(got'[field], buffer, cursor)
       /\ cursor' = cursor + r.size /\ field' = field + 1
       /\ stage' = IF field = Len(packet) THEN "done" ELSE stage
  BY <1>9 DEF ReadField, r
<1>11. got' = ReadUpTo(field)
  <2>1. [type |-> f.type, value |-> r.value] = Canonical(f)
    BY <1>4, <1>9, CanonicalField
  <2> QED BY <1>2, <1>3, <1>10, <2>1, ReadMore
<1>12. got'[field] = Canonical(f)
  BY <1>2, <1>3, <1>11 DEF ReadUpTo
<1>13. buffer' = d
  BY <1>10, <1>12
<1>14. d \in Seq(Int) /\ Len(d) = Size /\ \A i \in cursor + n + 1..Size : d[i] = buffer[i]
  BY <1>2, <1>3, <1>4, <1>5, LeftByOthers
<1> HIDE DEF d, f, n
<1>15. \A i \in field + 1..Len(packet) : Written(i)'
  <2>1. ASSUME NEW i \in field + 1..Len(packet) PROVE Written(i)'
    <3>1. i \in 1..Len(packet) /\ i \in field..Len(packet) /\ field + 1 \in 1..i
      BY <1>2, <1>3
    <3>2. Holds(buffer, Offset(i), EncodeField(writer, packet[i])) /\ Len(EncodeField(writer, packet[i])) = SizeOf(packet[i])
      BY <1>2, <1>3, <3>1, EncodeLength DEF Written
    <3>3. /\ Offset(field + 1) <= Offset(i) /\ Offset(i) \in Nat /\ SizeOf(packet[i]) \in Nat
          /\ Offset(i) + SizeOf(packet[i]) <= Size
      BY <1>2, <1>3, <3>1, Offsets
    <3>4. \A k \in Offset(i) + 1..Offset(i) + SizeOf(packet[i]) : d[k] = buffer[k]
      <4>1. cursor + n <= Offset(i)
        BY <1>6, <3>3
      <4>2. \A k \in Offset(i) + 1..Offset(i) + SizeOf(packet[i]) : k \in cursor + n + 1..Size
        BY <1>6, <3>3, <4>1
      <4> QED BY <1>14, <4>2
    <3>5. Holds(d, Offset(i), EncodeField(writer, packet[i]))
      BY <1>3, <1>14, <3>2, <3>4, HoldsKept
    <3>6. Offset(i)' = Offset(i)
      BY <1>1, SamePacket
    <3> QED BY <1>1, <1>13, <3>5, <3>6 DEF Written
  <2> QED BY <2>1
<1>16. Sent' /\ Size' = Size /\ Len(packet') = Len(packet) /\ Len(buffer') = Size /\ buffer' \in Seq(Int)
  BY <1>1, <1>3, <1>13, <1>14, SamePacket
<1>17. Offset(field)' = Offset(field + 1) /\ cursor' = Offset(field + 1)
  <2>1. Offset(field)' = Offset(field + 1)
    BY <1>1, <1>10, SamePacket DEF Offset
  <2> QED BY <2>1, <1>6, <1>9, <1>10
<1>18. CASE field = Len(packet)
  <2>1. stage' = "done"
    BY <1>10, <1>18
  <2>2. got' = ReadUpTo(Len(packet))'
    BY <1>1, <1>11, <1>18, SamePacket DEF ReadUpTo
  <2>3. cursor' = Len(buffer')
    BY <1>6, <1>16, <1>17, <1>18
  <2> QED BY <1>16, <2>1, <2>2, <2>3 DEF BufferInv
<1>19. CASE field # Len(packet)
  <2>1. stage' = "reading"
    BY <1>1, <1>10, <1>19
  <2>2. field' \in 1..Len(packet') /\ field' - 1 = field
    BY <1>1, <1>2, <1>3, <1>10, <1>19
  <2>3. got' = ReadUpTo(field - 1)'
    BY <1>1, <1>11, <2>2 DEF ReadUpTo
  <2>4. \A i \in field'..Len(packet') : Written(i)'
    BY <1>1, <1>10, <1>15
  <2> QED BY <1>16, <1>17, <2>1, <2>2, <2>3, <2>4 DEF BufferInv
<1> QED BY <1>18, <1>19

(* Every step. *)
LEMMA CodecsNextInv == CodecsInv /\ [CodecsNext]_packetVars => CodecsInv'
<1> SUFFICES ASSUME CodecsInv, [CodecsNext]_packetVars PROVE CodecsInv'
  OBVIOUS
<1>1. PacketInv
  BY DEF CodecsInv
<1>2. packet' = packet /\ writer' = writer
  BY DEF CodecsNext, Allocate, WriteField, ReadField, packetVars
<1>3. PacketInv'
  <2>1. CASE Allocate
    BY <1>1, <2>1 DEF PacketInv, Allocate
  <2>2. CASE WriteField
    BY <1>1, <2>2 DEF PacketInv, WriteField
  <2>3. CASE ReadField
    BY <1>1, <2>3 DEF PacketInv, ReadField
  <2>4. CASE UNCHANGED packetVars
    BY <1>1, <2>4 DEF PacketInv, packetVars
  <2> QED BY <2>1, <2>2, <2>3, <2>4 DEF CodecsNext
<1>4. ASSUME Carried PROVE BufferInv'
  <2>0. BufferInv
    BY <1>4 DEF CodecsInv
  <2>1. CASE Allocate
    BY <1>1, <1>4, <2>1, AllocateInv
  <2>2. CASE WriteField
    BY <1>1, <1>4, <2>0, <2>2, WriteFieldInv
  <2>3. CASE ReadField
    BY <1>1, <1>4, <2>0, <2>3, ReadFieldInv
  <2>4. CASE UNCHANGED packetVars
    <3>1. \A i : Written(i)' = Written(i) /\ Offset(i)' = Offset(i) /\ ReadUpTo(i)' = ReadUpTo(i)
      BY <2>4, SamePacket DEF packetVars, Written
    <3>2. Sent' = Sent /\ Size' = Size
      BY <2>4, SamePacket DEF packetVars
    <3>3. stage' = stage /\ field' = field /\ got' = got /\ cursor' = cursor /\ buffer' = buffer
      BY <2>4 DEF packetVars
    <3>4. Offset(field)' = Offset(field) /\ ReadUpTo(field - 1)' = ReadUpTo(field - 1)
          /\ ReadUpTo(Len(packet))' = ReadUpTo(Len(packet))
      BY <1>2, <3>3, SamePacket DEF Offset, ReadUpTo
    <3> QED BY <1>2, <2>0, <3>1, <3>2, <3>3, <3>4 DEF BufferInv
  <2> QED BY <2>1, <2>2, <2>3, <2>4 DEF CodecsNext
<1>5. Carried' = Carried
  BY <1>2, SamePacket
<1> QED BY <1>3, <1>4, <1>5 DEF CodecsInv

(* The invariant says what is promised. *)
LEMMA CodecsInvReadsBack == CodecsInv => ReadsBack
<1> SUFFICES ASSUME CodecsInv, Carried
             PROVE  /\ stage = "writing" => cursor = TotalTo(FieldSizes, field - 1)
                    /\ stage = "done" =>
                          /\ got = [i \in DOMAIN packet |-> Canonical(packet[i])]
                          /\ cursor = Len(buffer)
                    /\ stage = "thrown" => \E i \in DOMAIN packet : Refused(packet[i])
  BY DEF ReadsBack
<1>1. BufferInv /\ DOMAIN packet = 1..Len(packet)
  BY PacketFields DEF CodecsInv, PacketInv
<1> QED BY <1>1 DEF BufferInv, Offset, ReadUpTo, Sent

(* Whatever the packets, widths and the old cell are: what is written is   *)
(* read back, by each mix of the two implementations.                      *)
THEOREM PacketsReadBack == CodecsSpec => []ReadsBack
<1>1. CodecsInit => CodecsInv
  BY CodecsInitInv
<1>2. CodecsInv /\ [CodecsNext]_packetVars => CodecsInv'
  BY CodecsNextInv
<1>3. CodecsInv => ReadsBack
  BY CodecsInvReadsBack
<1> QED BY <1>1, <1>2, <1>3, PTL DEF CodecsSpec
=============================================================================
