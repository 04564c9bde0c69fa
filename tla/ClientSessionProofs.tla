------------------------ MODULE ClientSessionProofs ------------------------
(***************************************************************************)
(* For any cookies, channels, options and bounds of ClientSession: both    *)
(* ends read a frame in the state it was written in, every question is     *)
(* answered once, the session is the announced one, custom_payload has one *)
(* listener, and what a transfer handed on stays.                          *)
(*                                                                         *)
(* The ends are together, or one is ahead.  When the client is, it has     *)
(* nothing left to read and what it wrote is divided by the frame that     *)
(* acknowledges the switch; when the server is, on the way to a game       *)
(* without configuration, the client has written nothing.  What the server *)
(* is owed is counted on both ways.                                        *)
(***************************************************************************)
EXTENDS ClientSession, Integers, FiniteSetTheorems, SequenceTheorems, TLAPS

Args == {""} \cup Keys \cup (Keys \X Values) \cup (Names \X {"good", "bad"})
        \cup {"velocity:player_info", "another"}

Codecs == {"login", "configuration", "play"}

Switches == {"success", "finish_configuration", "start_configuration"}
Acks == {"login_acknowledged", "finish_configuration", "configuration_acknowledged"}

Down == [name: Asks \cup Switches
               \cup {"login_plugin_request", "ping", "login", "cookie_request",
                     "store_cookie", "transfer", "custom_payload"},
         arg: Args, codec: Codecs]

Up == [name: Answers \cup Acks
             \cup {"custom_payload", "settings", "chat_session_update"},
       arg: {"", "signed", "empty", "none"} \cup Values, codec: Codecs]

Typed ==
    /\ options \in Options
    /\ toClient \in Seq(Down) /\ toServer \in Seq(Up)
    /\ \A i \in 1..Len(toClient) :
        /\ toClient[i].name = "store_cookie" => toClient[i].arg \in Keys \X Values
        /\ toClient[i].name = "cookie_request" => toClient[i].arg \in Keys
    /\ conn \in {"open", "ending", "ended"}
    /\ maps \in Seq([Keys -> Values \cup {"none"}]) /\ Len(maps) >= 1

-----------------------------------------------------------------------------
(* The protocol state at both ends *)

(* The server waits for the client to switch. *)
Switching == peer \in {"waiting", "finishing", "leaving"}

Asked(name) ==
    \/ peer = "waiting" /\ name = "success"
    \/ peer = "finishing" /\ name = "finish_configuration"
    \/ peer = "leaving" /\ name = "start_configuration"

Acknowledges(name) ==
    \/ peer = "waiting" /\ name = "login_acknowledged"
    \/ peer = "finishing" /\ name = "finish_configuration"
    \/ peer = "leaving" /\ name = "configuration_acknowledged"

Together == state = PeerCodec

(* Without a configuration the server is in the game at once. *)
Behind == peer = "play" /\ state = "login"

Ahead ==
    \/ peer \in {"waiting", "leaving"} /\ state = "configuration"
    \/ peer = "finishing" /\ state = "play"

(***************************************************************************)
(* What asks for a switch is the last thing the client has to read.        *)
(***************************************************************************)
DownFrames ==
    /\ Together =>
        /\ \A i \in 1..Len(toClient) :
            /\ toClient[i].codec = state
            /\ toClient[i].name \in Switches =>
                   i = Len(toClient) /\ Asked(toClient[i].name)
        /\ Switching => toClient # <<>> /\ Asked(toClient[Len(toClient)].name)
    /\ Ahead => toClient = <<>>
    /\ Behind =>
        /\ ~options.config
        /\ toClient # <<>>
        /\ toClient[1].name = "success" /\ toClient[1].codec = "login"
        /\ \A i \in 2..Len(toClient) :
               toClient[i].codec = "play" /\ toClient[i].name \notin Switches

(***************************************************************************)
(* The k-th frame acknowledges the switch, if the write was not dropped.   *)
(***************************************************************************)
Switched(k) ==
    /\ \/ k = Len(toServer) + 1 /\ conn # "open"
       \/ /\ k \in 1..Len(toServer)
          /\ Acknowledges(toServer[k].name) /\ toServer[k].codec = PeerCodec
    /\ \A i \in 1..Len(toServer) :
        /\ i < k => toServer[i].codec = PeerCodec /\ toServer[i].name \notin Acks
        /\ i > k => toServer[i].codec = state /\ toServer[i].name \notin Acks

UpFrames ==
    /\ Together => \A i \in 1..Len(toServer) :
           toServer[i].codec = state /\ toServer[i].name \notin Acks
    /\ Ahead => \E k \in 1..Len(toServer) + 1 : Switched(k)
    /\ Behind => toServer = <<>>

(* Before 'success' there is nothing but the questions of a proxy. *)
LoginOnly ==
    peer = "login" =>
        /\ \A i \in 1..Len(toClient) : toClient[i].name = "login_plugin_request"
        /\ \A i \in 1..Len(toServer) : toServer[i].name = "login_plugin_response"

Frames ==
    /\ Together \/ Behind \/ Ahead
    /\ peer \in {"login", "waiting", "configuration", "finishing", "play", "leaving"}
    /\ ~options.config => peer \in {"login", "play"}
    /\ DownFrames /\ UpFrames /\ LoginOnly

-----------------------------------------------------------------------------
(* The listeners *)

HandlerOf(name) == [entry |-> entry, name |-> name, ready |-> (entry = 1)]

Stage ==
    /\ entry \in Nat /\ joined \in Nat
    /\ state # "configuration" => current = 0 /\ handlers = {}
    /\ state = "login" => entry = 0 /\ joined = 0
    /\ state # "login" /\ options.config => restarts /\ entry >= 1
    /\ state = "play" => joined = 1
    /\ state = "configuration" =>
        /\ options.config
        /\ current = entry
        /\ joined = IF entry = 1 THEN 0 ELSE 1
        /\ handlers \subseteq Handlers(entry, entry = 1)
        /\ HandlerOf("finish_configuration") \in handlers

(* A question that was not asked, or not answered, has its listener. *)
Questions ==
    \A name \in Asks :
        /\ \A i \in 1..Len(toClient) : toClient[i].name = name =>
               peer \in {"configuration", "finishing"} /\ name \in asked
               /\ HandlerOf(name) \in handlers
        /\ \A i, j \in 1..Len(toClient) :
               toClient[i].name = name /\ toClient[j].name = name => i = j
        /\ state = "configuration" /\ (peer \in {"waiting", "leaving"} \/ name \notin asked) =>
               HandlerOf(name) \in handlers

-----------------------------------------------------------------------------
(* Answers *)

Count(s, name) == Cardinality({i \in DOMAIN s : s[i].name = name})

Question(a) ==
    CASE a = "accept_code_of_conduct" -> "code_of_conduct"
      [] a = "pong" -> "ping"
      [] a = "cookie_response" -> "cookie_request"
      [] a = "login_plugin_response" -> "login_plugin_request"
      [] OTHER -> a

(* Questions under way, answers under way, and those nobody answered. *)
Due(a) ==
    Count(toClient, Question(a)) + Count(toServer, a)
    + (IF a = "login_plugin_response" THEN lost ELSE 0)

Owed ==
    /\ owing \in [Answers -> Int] /\ lost \in Nat
    /\ \A i \in 1..Len(toClient) :
           toClient[i].name = "ping" => toClient[i].codec = "configuration"
    /\ \A a \in Answers : owing[a] >= Due(a) /\ (conn = "open" => owing[a] = Due(a))

-----------------------------------------------------------------------------
(* What the plugins keep for themselves *)

Sessions ==
    announced \in Nat /\ session = announced /\ (~options.signing => announced = 0)

Listens ==
    /\ channels \in Seq(Names \cup OwnNames)
    /\ listeners = (IF channels = <<>> THEN 0 ELSE 1)
    /\ heard \in {0, 1}

Handoffs ==
    /\ handoffs \in Seq([map: Nat, held: [Keys -> Values \cup {"none"}]])
    /\ \A i \in DOMAIN handoffs : handoffs[i].map \in 2..Len(maps)
    /\ HandoffSurvives

-----------------------------------------------------------------------------
(* Sequences, and what is counted in them *)

LEMMA Appending ==
    ASSUME NEW S, NEW s \in Seq(S), NEW x \in S
    PROVE  /\ Append(s, x) \in Seq(S) /\ Len(s) \in Nat /\ Len(Append(s, x)) = Len(s) + 1
           /\ \A i \in 1..Len(s) : Append(s, x)[i] = s[i] /\ s[i] \in S
           /\ Append(s, x)[Len(s) + 1] = x
           /\ Append(s, x) # <<>>
           /\ s \o <<x>> = Append(s, x)
<1>1. /\ Append(s, x) \in Seq(S) /\ Len(s) \in Nat /\ Len(Append(s, x)) = Len(s) + 1
      /\ \A i \in 1..Len(s) : Append(s, x)[i] = s[i]
      /\ Append(s, x)[Len(s) + 1] = x
  BY AppendProperties
<1>2. \A i \in 1..Len(s) : s[i] \in S
  OBVIOUS
<1>3. s \o <<x>> = Append(s, x)
  OBVIOUS
<1>4. Append(s, x) # <<>>
  BY <1>1
<1> QED BY <1>1, <1>2, <1>3, <1>4

LEMMA Tailing ==
    ASSUME NEW S, NEW s \in Seq(S), s # <<>>
    PROVE  /\ Tail(s) \in Seq(S) /\ Len(s) \in Nat /\ Len(s) >= 1
           /\ Len(Tail(s)) = Len(s) - 1
           /\ Head(s) = s[1] /\ Head(s) \in S
           /\ \A i \in 1..Len(Tail(s)) : i + 1 \in 2..Len(s) /\ Tail(s)[i] = s[i + 1]
OBVIOUS

LEMMA CountType ==
    ASSUME NEW S, NEW s \in Seq(S), NEW name
    PROVE  /\ IsFiniteSet({i \in DOMAIN s : s[i].name = name})
           /\ Count(s, name) \in Nat
<1> DEFINE T == {i \in DOMAIN s : s[i].name = name}
<1>1. IsFiniteSet(1..Len(s)) /\ DOMAIN s = 1..Len(s)
  BY FS_Interval
<1>2. T \in SUBSET (1..Len(s))
  BY <1>1
<1>3. IsFiniteSet(T)
  BY ONLY <1>1, <1>2, FS_Subset
<1> QED BY <1>3, FS_CardinalityType DEF Count

LEMMA CountAppend ==
    ASSUME NEW S, NEW s \in Seq(S), NEW x \in S, NEW name
    PROVE  Count(Append(s, x), name) = Count(s, name) + (IF x.name = name THEN 1 ELSE 0)
<1> DEFINE T == {i \in DOMAIN s : s[i].name = name}
           t == Append(s, x)
           n == Len(s) + 1
<1>1. /\ Len(s) \in Nat /\ DOMAIN s = 1..Len(s) /\ DOMAIN t = 1..n
      /\ \A i \in 1..Len(s) : t[i] = s[i]
      /\ t[n] = x
  BY Appending
<1>2. IsFiniteSet(T) /\ Cardinality(T) = Count(s, name) /\ Count(s, name) \in Nat
  BY CountType DEF Count
<1> HIDE DEF t
<1>3. {i \in DOMAIN t : t[i].name = name} = IF x.name = name THEN T \cup {n} ELSE T
  <2>1. \A i \in DOMAIN t : i \in DOMAIN s \/ i = n
    BY <1>1
  <2>2. DOMAIN s \subseteq DOMAIN t /\ n \in DOMAIN t
    BY <1>1
  <2> QED BY <1>1, <2>1, <2>2
<1>4. n \notin T
  BY <1>1
<1>5. Cardinality(T \cup {n}) = Cardinality(T) + 1
  <2> HIDE DEF T, n
  <2> QED BY <1>2, <1>4, FS_AddElement
<1>6. CASE x.name = name
  <2>1. Count(t, name) = Cardinality(T \cup {n})
    BY <1>3, <1>6 DEF Count
  <2> QED BY <1>2, <1>5, <1>6, <2>1 DEF t
<1>7. CASE x.name # name
  <2>1. Count(t, name) = Cardinality(T)
    BY <1>3, <1>7 DEF Count
  <2> QED BY <1>2, <1>7, <2>1 DEF t
<1> QED BY <1>6, <1>7

LEMMA CountTail ==
    ASSUME NEW S, NEW s \in Seq(S), s # <<>>, NEW name
    PROVE  Count(s, name) = Count(Tail(s), name) + (IF Head(s).name = name THEN 1 ELSE 0)
<1> DEFINE t == Tail(s)
           T == {i \in DOMAIN t : t[i].name = name}
           U == {i \in 2..Len(s) : s[i].name = name}
           f == [i \in T |-> i + 1]
<1>1. /\ Len(s) \in Nat /\ Len(s) >= 1 /\ t \in Seq(S)
      /\ DOMAIN s = 1..Len(s) /\ DOMAIN t = 1..Len(t) /\ Len(t) = Len(s) - 1
      /\ Head(s) = s[1]
      /\ \A i \in 1..Len(t) : i + 1 \in 2..Len(s) /\ t[i] = s[i + 1]
  BY Tailing
<1>2. IsFiniteSet(T) /\ Cardinality(T) = Count(t, name) /\ Count(t, name) \in Nat
  <2>1. t \in Seq(S)
    BY <1>1
  <2> HIDE DEF t
  <2> QED BY ONLY <2>1, CountType DEF Count, T
<1> HIDE DEF t
<1>3. f \in Bijection(T, U)
  <2>1. f \in [T -> U]
    BY <1>1
  <2>2. \A i, j \in T : f[i] = f[j] => i = j
    BY <1>1
  <2>3. \A j \in U : \E i \in T : f[i] = j
    <3> SUFFICES ASSUME NEW j \in U PROVE \E i \in T : f[i] = j
      OBVIOUS
    <3>1. j - 1 \in 1..Len(t) /\ t[j - 1] = s[j]
      BY <1>1
    <3>2. j - 1 \in T
      BY <1>1, <3>1
    <3>3. f[j - 1] = j
      BY <1>1, <3>1, <3>2
    <3> QED BY <3>2, <3>3
  <2> HIDE DEF f, T, U
  <2> QED BY <2>1, <2>2, <2>3 DEF Bijection, Injection, Surjection, IsInjective
<1>4. IsFiniteSet(U) /\ Cardinality(U) = Cardinality(T)
  <2>1. ExistsBijection(T, U)
    BY <1>3 DEF ExistsBijection
  <2> HIDE DEF T, U
  <2> QED BY <1>2, <2>1, FS_Bijection
<1>5. {i \in DOMAIN s : s[i].name = name} = IF Head(s).name = name THEN U \cup {1} ELSE U
  <2>1. \A i \in DOMAIN s : i = 1 \/ i \in 2..Len(s)
    BY <1>1
  <2>2. 1 \in DOMAIN s /\ 2..Len(s) \subseteq DOMAIN s
    BY <1>1
  <2> QED BY <1>1, <2>1, <2>2
<1>6. Cardinality(U \cup {1}) = Cardinality(U) + 1
  <2>1. 1 \notin U
    BY <1>1
  <2> HIDE DEF U
  <2> QED BY <1>4, <2>1, FS_AddElement
<1>7. CASE Head(s).name = name
  <2>1. Count(s, name) = Cardinality(U \cup {1})
    BY <1>5, <1>7 DEF Count
  <2> HIDE DEF T, U
  <2> QED BY <1>2, <1>4, <1>6, <1>7, <2>1 DEF t
<1>8. CASE Head(s).name # name
  <2>1. Count(s, name) = Cardinality(U)
    BY <1>5, <1>8 DEF Count
  <2> HIDE DEF T, U
  <2> QED BY <1>2, <1>4, <1>8, <2>1 DEF t
<1> QED BY <1>7, <1>8

(* Nothing of that name, of which everything is: nothing at all. *)
LEMMA CountNone ==
    ASSUME NEW S, NEW s \in Seq(S), NEW name, Count(s, name) = 0,
           \A i \in 1..Len(s) : s[i].name = name
    PROVE  s = <<>>
<1> DEFINE T == {i \in DOMAIN s : s[i].name = name}
<1>1. IsFiniteSet(T) /\ Cardinality(T) = 0
  BY CountType DEF Count
<1>2. T = {}
  BY <1>1, FS_EmptySet
<1> QED BY <1>2

LEMMA WriteOne ==
    ASSUME Typed, NEW f \in Up, Write(<<f>>)
    PROVE  toServer' = IF conn = "open" THEN Append(toServer, f) ELSE toServer
<1>1. toServer \in Seq(Up)
  BY DEF Typed
<1>2. toServer \o <<f>> = Append(toServer, f)
  BY <1>1, Appending
<1> QED BY <1>2 DEF Write

LEMMA WriteNone ==
    ASSUME Typed, Write(<<>>)
    PROVE  toServer' = toServer
BY DEF Typed, Write

-----------------------------------------------------------------------------
(* Frames *)

(* Nothing is switched: what is read and written belongs to the state. *)
Quiet ==
    /\ UNCHANGED <<options, state, peer>>
    /\ conn' \in {"open", "ending", "ended"} /\ (conn' = "open" => conn = "open")
    /\ \/ toClient' = toClient
       \/ /\ toClient # <<>> /\ toClient' = Tail(toClient)
          /\ Head(toClient).name \notin Switches
    /\ \/ toServer' = toServer
       \/ /\ conn = "open" /\ ~Behind
          /\ \E f \in Up :
              /\ f.codec = state /\ f.name \notin Acks
              /\ peer = "login" => f.name = "login_plugin_response"
              /\ toServer' = Append(toServer, f)

(* Only together is anything read that does not ask for a switch. *)
LEMMA ReadTogether ==
    ASSUME Typed, Frames, toClient # <<>>, Head(toClient).name \notin Switches
    PROVE  /\ Together /\ Head(toClient).codec = state
           /\ peer = "login" => Head(toClient).name = "login_plugin_request"
<1>1. Len(toClient) \in Nat /\ Len(toClient) >= 1 /\ Head(toClient) = toClient[1]
  BY Tailing DEF Typed
<1>2. ~Ahead
  BY DEF Frames, DownFrames
<1>3. ~Behind
  BY <1>1 DEF Frames, DownFrames, Switches
<1> QED BY <1>1, <1>2, <1>3 DEF Frames, DownFrames, LoginOnly

LEMMA QuietDown ==
    ASSUME Typed, Frames, Quiet
    PROVE  DownFrames'
<1>1. /\ Together' <=> Together
      /\ Behind' <=> Behind
      /\ Ahead' <=> Ahead
      /\ Switching' <=> Switching
      /\ \A name : Asked(name)' <=> Asked(name)
  BY DEF Quiet, Together, Behind, Ahead, Switching, Asked, PeerCodec
<1>2. CASE toClient' = toClient
  BY <1>1, <1>2 DEF Frames, DownFrames, Quiet
<1>3. CASE toClient # <<>> /\ toClient' = Tail(toClient) /\ Head(toClient).name \notin Switches
  <2>1. Together /\ ~Ahead /\ ~Behind
    BY <1>3, ReadTogether DEF Together, Ahead, Behind, PeerCodec
  <2>2. /\ Len(toClient) \in Nat /\ Len(toClient) >= 1 /\ Head(toClient) = toClient[1]
        /\ toClient' \in Seq(Down) /\ Len(toClient') = Len(toClient) - 1
        /\ \A i \in 1..Len(toClient') :
               i + 1 \in 1..Len(toClient) /\ toClient'[i] = toClient[i + 1]
    BY <1>3, Tailing DEF Typed
  <2>3. \A i \in 1..Len(toClient') :
            /\ toClient'[i].codec = state
            /\ toClient'[i].name \in Switches => i = Len(toClient') /\ Asked(toClient'[i].name)
    <3> SUFFICES ASSUME NEW i \in 1..Len(toClient')
                 PROVE  /\ toClient'[i].codec = state
                        /\ toClient'[i].name \in Switches =>
                               i = Len(toClient') /\ Asked(toClient'[i].name)
      OBVIOUS
    <3>1. i + 1 \in 1..Len(toClient) /\ toClient'[i] = toClient[i + 1] /\ i \in Nat
      BY <2>2
    <3>2. /\ toClient[i + 1].codec = state
          /\ toClient[i + 1].name \in Switches =>
                 i + 1 = Len(toClient) /\ Asked(toClient[i + 1].name)
      BY <2>1, <3>1 DEF Frames, DownFrames
    <3> QED BY <2>2, <3>1, <3>2
  <2>4. ASSUME Switching PROVE toClient' # <<>> /\ Asked(toClient'[Len(toClient')].name)
    <3>1. Asked(toClient[Len(toClient)].name)
      BY <2>1, <2>4 DEF Frames, DownFrames
    <3>2. Len(toClient) # 1
      BY <1>3, <2>2, <3>1 DEF Asked, Switches
    <3>3. Len(toClient') \in 1..Len(toClient') /\ Len(toClient') + 1 = Len(toClient)
      BY <2>2, <3>2
    <3>4. toClient'[Len(toClient')] = toClient[Len(toClient)]
      BY <2>2, <3>3
    <3> QED BY <3>1, <3>3, <3>4
  <2> QED BY <1>1, <2>1, <2>3, <2>4 DEF DownFrames, Quiet
<1> QED BY <1>2, <1>3 DEF Quiet

LEMMA QuietUp ==
    ASSUME Typed, Frames, Quiet
    PROVE  UpFrames'
<1>1. /\ Together' <=> Together
      /\ Behind' <=> Behind
      /\ Ahead' <=> Ahead
      /\ PeerCodec' = PeerCodec
      /\ \A name : Acknowledges(name)' <=> Acknowledges(name)
  BY DEF Quiet, Together, Behind, Ahead, Acknowledges, PeerCodec
<1>2. CASE toServer' = toServer
  <2>1. \A k : Switched(k) => Switched(k)'
    BY <1>1, <1>2 DEF Switched, Quiet
  <2> QED BY <1>1, <1>2, <2>1 DEF Frames, UpFrames, Quiet
<1>3. ASSUME toServer' # toServer PROVE UpFrames'
  <2> PICK f \in Up :
        /\ f.codec = state /\ f.name \notin Acks
        /\ toServer' = Append(toServer, f)
    BY <1>3 DEF Quiet
  <2>1. conn = "open" /\ ~Behind /\ state' = state
    BY <1>3 DEF Quiet
  <2>2. /\ Len(toServer) \in Nat /\ Len(toServer') = Len(toServer) + 1
        /\ \A i \in 1..Len(toServer) : toServer'[i] = toServer[i]
        /\ toServer'[Len(toServer) + 1] = f
    BY Appending DEF Typed
  <2>3. \A i \in 1..Len(toServer') : i \in 1..Len(toServer) \/ i = Len(toServer) + 1
    BY <2>2
  <2>4. CASE Together
    <3>1. \A i \in 1..Len(toServer') :
              toServer'[i].codec = state /\ toServer'[i].name \notin Acks
      BY <2>2, <2>3, <2>4 DEF Frames, UpFrames
    <3>2. ~Ahead /\ ~Behind
      BY <2>4 DEF Together, Ahead, Behind, PeerCodec
    <3> QED BY <1>1, <2>1, <3>1, <3>2 DEF UpFrames
  <2>5. CASE Ahead
    <3>1. ~Together
      BY <2>5 DEF Together, Ahead, PeerCodec
    <3>2. PICK k \in 1..Len(toServer) + 1 : Switched(k)
      BY <2>5 DEF Frames, UpFrames
    <3>3. k \in 1..Len(toServer) /\ k \in 1..Len(toServer')
      BY <2>1, <2>2, <3>2 DEF Switched
    <3>4. Acknowledges(toServer'[k].name) /\ toServer'[k].codec = PeerCodec
      BY <2>1, <2>2, <3>2, <3>3 DEF Switched
    <3>5. \A i \in 1..Len(toServer') :
              /\ i < k => toServer'[i].codec = PeerCodec /\ toServer'[i].name \notin Acks
              /\ i > k => toServer'[i].codec = state /\ toServer'[i].name \notin Acks
      BY <2>2, <2>3, <3>2, <3>3 DEF Switched
    <3>6. Switched(k)' /\ k \in 1..Len(toServer') + 1
      BY <1>1, <2>1, <2>2, <3>3, <3>4, <3>5 DEF Switched
    <3> QED BY <1>1, <2>1, <3>1, <3>6 DEF UpFrames
  <2> QED BY <2>1, <2>4, <2>5 DEF Frames
<1> QED BY <1>2, <1>3

LEMMA QuietFrames ==
    ASSUME Typed, Frames, Quiet
    PROVE  Frames'
<1>1. DownFrames' /\ UpFrames'
  BY QuietDown, QuietUp
<1>2. LoginOnly'
  <2> SUFFICES ASSUME peer = "login"
               PROVE  /\ \A i \in 1..Len(toClient') :
                             toClient'[i].name = "login_plugin_request"
                      /\ \A i \in 1..Len(toServer') :
                             toServer'[i].name = "login_plugin_response"
    BY DEF LoginOnly, Quiet
  <2>1. \A i \in 1..Len(toClient') : toClient'[i].name = "login_plugin_request"
    <3>1. CASE toClient' = toClient
      BY <3>1 DEF Frames, LoginOnly
    <3>2. CASE toClient # <<>> /\ toClient' = Tail(toClient)
      <4>1. /\ Len(toClient) \in Nat /\ Len(toClient') = Len(toClient) - 1
            /\ \A i \in 1..Len(toClient') :
                   i + 1 \in 1..Len(toClient) /\ toClient'[i] = toClient[i + 1]
        BY <3>2, Tailing DEF Typed
      <4> QED BY <4>1 DEF Frames, LoginOnly
    <3> QED BY <3>1, <3>2 DEF Quiet
  <2>2. \A i \in 1..Len(toServer') : toServer'[i].name = "login_plugin_response"
    <3>1. CASE toServer' = toServer
      BY <3>1 DEF Frames, LoginOnly
    <3>2. CASE toServer' # toServer
      <4> PICK f \in Up : f.name = "login_plugin_response" /\ toServer' = Append(toServer, f)
        BY <3>2 DEF Quiet
      <4>1. /\ Len(toServer) \in Nat /\ Len(toServer') = Len(toServer) + 1
            /\ \A i \in 1..Len(toServer) : toServer'[i] = toServer[i]
            /\ toServer'[Len(toServer) + 1] = f
        BY Appending DEF Typed
      <4>2. \A i \in 1..Len(toServer') : i \in 1..Len(toServer) \/ i = Len(toServer) + 1
        BY <4>1
      <4> QED BY <4>1, <4>2 DEF Frames, LoginOnly
    <3> QED BY <3>1, <3>2
  <2> QED BY <2>1, <2>2
<1>3. (Together \/ Behind \/ Ahead)'
  BY DEF Frames, Quiet, Together, Behind, Ahead, PeerCodec
<1> QED BY <1>1, <1>2, <1>3 DEF Frames, Quiet

(* The server sends what does not ask for a switch. *)
LEMMA SayFrames ==
    ASSUME Typed, Frames, NEW name, NEW arg, Frame(name, arg, PeerCodec) \in Down,
           Sends(name, arg), peer' = peer, peer \in {"login", "configuration", "play"},
           name \notin Switches, peer = "login" => name = "login_plugin_request"
    PROVE  Frames'
<1> DEFINE f == Frame(name, arg, PeerCodec)
<1>1. /\ UNCHANGED <<options, state, conn, toServer>>
      /\ toClient' = Append(toClient, f)
      /\ f.name = name /\ f.codec = PeerCodec
  BY DEF Sends, Frame
<1>2. /\ toClient' \in Seq(Down) /\ Len(toClient) \in Nat
      /\ Len(toClient') = Len(toClient) + 1
      /\ \A i \in 1..Len(toClient) : toClient'[i] = toClient[i]
      /\ toClient'[Len(toClient) + 1] = f
      /\ toClient' # <<>>
  <2>1. toClient \in Seq(Down) /\ f \in Down
    BY DEF Typed
  <2> HIDE DEF f
  <2> QED BY <1>1, <2>1, Appending
<1> HIDE DEF f
<1>3. \A i \in 1..Len(toClient') : i \in 1..Len(toClient) \/ i = Len(toClient) + 1
  BY <1>2
<1>4. /\ Together' <=> Together
      /\ Behind' <=> Behind
      /\ ~Ahead /\ ~Ahead' /\ ~Switching
  BY <1>1 DEF Together, Behind, Ahead, Switching, PeerCodec
<1>5. DownFrames'
  <2>1. CASE Together
    <3>1. ~Behind
      BY <2>1 DEF Together, Behind, PeerCodec
    <3>2. \A i \in 1..Len(toClient) :
              toClient[i].codec = state /\ toClient[i].name \notin Switches
      BY <2>1, <1>4 DEF Frames, DownFrames, Asked, Switching
    <3>3. \A i \in 1..Len(toClient') :
              toClient'[i].codec = state /\ toClient'[i].name \notin Switches
      BY <1>1, <1>2, <1>3, <2>1, <3>2 DEF Together
    <3> QED BY <1>1, <1>4, <3>1, <3>3 DEF DownFrames, Switching
  <2>2. CASE Behind
    <3>1. ~Together
      BY <2>2 DEF Together, Behind, PeerCodec
    <3>2. /\ ~options.config /\ toClient # <<>>
          /\ toClient[1].name = "success" /\ toClient[1].codec = "login"
          /\ \A i \in 2..Len(toClient) :
                 toClient[i].codec = "play" /\ toClient[i].name \notin Switches
      BY <2>2 DEF Frames, DownFrames
    <3>3. Len(toClient) >= 1
      BY <1>2, <3>2 DEF Typed
    <3>4. f.codec = "play"
      BY <1>1, <2>2 DEF Behind, PeerCodec
    <3>5. \A i \in 2..Len(toClient') :
              toClient'[i].codec = "play" /\ toClient'[i].name \notin Switches
      <4> SUFFICES ASSUME NEW i \in 2..Len(toClient')
                   PROVE  toClient'[i].codec = "play" /\ toClient'[i].name \notin Switches
        OBVIOUS
      <4>1. i \in 2..Len(toClient) \/ i = Len(toClient) + 1
        BY <1>2
      <4>2. CASE i \in 2..Len(toClient)
        BY <1>2, <3>2, <4>2
      <4>3. CASE i = Len(toClient) + 1
        BY <1>1, <1>2, <3>4, <4>3
      <4> QED BY <4>1, <4>2, <4>3
    <3>6. toClient'[1] = toClient[1]
      BY <1>2, <3>3
    <3> QED BY <1>1, <1>2, <1>4, <3>1, <3>2, <3>5, <3>6 DEF DownFrames
  <2> QED BY <1>4, <2>1, <2>2 DEF Frames
<1>6. UpFrames'
  BY <1>1, <1>4 DEF Frames, UpFrames
<1>7. LoginOnly'
  BY <1>1, <1>2, <1>3 DEF Frames, LoginOnly
<1> QED BY <1>1, <1>4, <1>5, <1>6, <1>7 DEF Frames

(* The server asks for a switch and waits. *)
LEMMA SwitchFrames ==
    ASSUME Typed, Frames, Together, options.config, NEW name,
           Frame(name, "", PeerCodec) \in Down, Sends(name, ""),
           peer \in {"login", "configuration", "play"},
           peer' \in {"waiting", "finishing", "leaving"},
           PeerCodec' = PeerCodec, \A n : Asked(n)' <=> n = name
    PROVE  Frames'
<1> DEFINE f == Frame(name, "", PeerCodec)
<1>1. /\ UNCHANGED <<options, state, conn, toServer>>
      /\ toClient' = Append(toClient, f)
      /\ f.name = name /\ f.codec = PeerCodec /\ f \in Down
  BY DEF Sends, Frame
<1> HIDE DEF f
<1>2. /\ toClient' \in Seq(Down) /\ Len(toClient) \in Nat
      /\ Len(toClient') = Len(toClient) + 1
      /\ \A i \in 1..Len(toClient) : toClient'[i] = toClient[i]
      /\ toClient'[Len(toClient) + 1] = f
      /\ toClient' # <<>>
  <2>1. toClient \in Seq(Down)
    BY DEF Typed
  <2> QED BY ONLY <1>1, <2>1, Appending
<1>3. \A i \in 1..Len(toClient') : i \in 1..Len(toClient) \/ i = Len(toClient) + 1
  BY ONLY <1>2
<1>4. Together' /\ ~Behind' /\ ~Ahead' /\ ~Switching
  BY <1>1 DEF Together, Behind, Ahead, Switching, PeerCodec
<1>5. \A i \in 1..Len(toClient) :
          toClient[i].codec = state /\ toClient[i].name \notin Switches
  BY <1>4 DEF Frames, DownFrames, Asked, Switching
<1>6. DownFrames'
  <2>1. \A i \in 1..Len(toClient') :
            /\ toClient'[i].codec = state
            /\ toClient'[i].name \in Switches =>
                   i = Len(toClient') /\ toClient'[i].name = name
    BY <1>1, <1>2, <1>3, <1>5 DEF Together
  <2>2. toClient'[Len(toClient')].name = name
    BY <1>1, <1>2
  <2> QED BY <1>1, <1>2, <1>4, <2>1, <2>2 DEF DownFrames
<1>7. UpFrames'
  BY <1>1, <1>4 DEF Frames, UpFrames
<1> QED BY <1>1, <1>4, <1>6, <1>7 DEF Frames, LoginOnly

(* Nothing is on the way when the login ends; a game may begin at once. *)
LEMMA GameFrames ==
    ASSUME Typed, Frames, ~options.config, peer = "login", peer' = "play",
           Sends("success", ""), toClient = <<>>, toServer = <<>>
    PROVE  Frames'
<1> DEFINE f == Frame("success", "", "login")
<1>1. /\ UNCHANGED <<options, state, conn, toServer>>
      /\ toClient' = Append(toClient, f)
      /\ f.name = "success" /\ f.codec = "login" /\ f \in Down
  <2>1. PeerCodec = "login"
    BY DEF PeerCodec
  <2>2. "" \in Args
    BY DEF Args
  <2>3. f.name = "success" /\ f.codec = "login" /\ f \in Down
    BY <2>2 DEF Down, Frame, Codecs, Switches
  <2> QED BY <2>1, <2>3 DEF Sends
<1> HIDE DEF f
<1>2. /\ Len(toClient') = 1 /\ toClient' # <<>>
      /\ toClient'[1].name = "success" /\ toClient'[1].codec = "login"
  <2>1. toClient \in Seq(Down) /\ Len(toClient) = 0
    BY DEF Typed
  <2> QED BY ONLY <1>1, <2>1, Appending
<1>3. state = "login"
  BY DEF Frames, Together, Behind, Ahead, PeerCodec
<1>4. Behind' /\ ~Together' /\ ~Ahead'
  BY <1>1, <1>3 DEF Together, Behind, Ahead, PeerCodec
<1>5. DownFrames' /\ UpFrames' /\ LoginOnly'
  <2>1. DownFrames'
    <3>1. \A i \in 2..Len(toClient') : FALSE
      BY ONLY <1>2
    <3>2. options' = options
      BY <1>1
    <3> QED BY <1>2, <1>4, <3>1, <3>2 DEF DownFrames
  <2>2. UpFrames' /\ LoginOnly'
    BY <1>1, <1>4 DEF UpFrames, LoginOnly
  <2> QED BY <2>1, <2>2
<1> QED BY <1>1, <1>4, <1>5 DEF Frames

(* The server reads, and goes on when its switch is acknowledged. *)
LEMMA ReadsFrames ==
    ASSUME Typed, Frames, PeerReads
    PROVE  /\ Frames'
           /\ \/ peer' = peer
              \/ Ahead /\ Together' /\ toClient = <<>> /\ peer' \in {"configuration", "play"}
<1>1. /\ UNCHANGED <<options, state, conn, toClient>>
      /\ toServer # <<>> /\ toServer' = Tail(toServer)
      /\ peer' = CASE peer = "waiting" /\ Head(toServer).name = "login_acknowledged" ->
                          "configuration"
                   [] peer = "finishing" /\ Head(toServer).name = "finish_configuration" ->
                          "play"
                   [] peer = "leaving" /\ Head(toServer).name = "configuration_acknowledged" ->
                          "configuration"
                   [] OTHER -> peer
  BY DEF PeerReads
<1>2. /\ Len(toServer) \in Nat /\ Len(toServer) >= 1 /\ Head(toServer) = toServer[1]
      /\ Len(toServer') = Len(toServer) - 1
      /\ \A i \in 1..Len(toServer') :
             i + 1 \in 2..Len(toServer) /\ i + 1 \in 1..Len(toServer)
             /\ toServer'[i] = toServer[i + 1]
  BY <1>1, Tailing DEF Typed
<1>3. ~Behind
  BY <1>1 DEF Frames, UpFrames
<1>4. CASE Together
  <2>1. ~Ahead
    BY <1>4 DEF Together, Ahead, PeerCodec
  <2>2. \A i \in 1..Len(toServer) : toServer[i].codec = state /\ toServer[i].name \notin Acks
    BY <1>4 DEF Frames, UpFrames
  <2>3. peer' = peer
    BY <1>1, <1>2, <2>2 DEF Acks
  <2>4. /\ Together' /\ ~Behind' /\ ~Ahead'
        /\ \A name : Asked(name)' <=> Asked(name)
        /\ Switching' <=> Switching
    BY <1>1, <1>3, <1>4, <2>1, <2>3 DEF Together, Behind, Ahead, PeerCodec, Asked, Switching
  <2>5. DownFrames'
    BY <1>1, <1>4, <2>4 DEF Frames, DownFrames
  <2>6. UpFrames'
    BY <1>1, <1>2, <2>2, <2>4 DEF UpFrames
  <2>7. LoginOnly'
    BY <1>1, <1>2, <2>3 DEF Frames, LoginOnly
  <2> QED BY <1>1, <2>3, <2>4, <2>5, <2>6, <2>7 DEF Frames
<1>5. CASE Ahead
  <2>1. ~Together /\ toClient = <<>>
    BY <1>5 DEF Frames, DownFrames, Together, Ahead, PeerCodec
  <2>2. PICK k \in 1..Len(toServer) + 1 : Switched(k)
    BY <1>5 DEF Frames, UpFrames
  <2>3. CASE k = 1
    <3>1. Acknowledges(toServer[1].name)
      BY <1>2, <2>2, <2>3 DEF Switched
    <3>2. peer' \in {"configuration", "play"} /\ Together'
      BY <1>1, <1>2, <1>5, <3>1 DEF Acknowledges, Ahead, Together, PeerCodec
    <3>3. \A i \in 1..Len(toServer') :
              toServer'[i].codec = state /\ toServer'[i].name \notin Acks
      <4> SUFFICES ASSUME NEW i \in 1..Len(toServer')
                   PROVE  toServer'[i].codec = state /\ toServer'[i].name \notin Acks
        OBVIOUS
      <4>1. i + 1 \in 1..Len(toServer) /\ i + 1 > k /\ toServer'[i] = toServer[i + 1]
        BY <1>2, <2>3
      <4> QED BY <2>2, <4>1 DEF Switched
    <3>4. ~Behind' /\ ~Ahead'
      BY <3>2 DEF Together, Behind, Ahead, PeerCodec
    <3>5. UpFrames'
      BY <1>1, <3>3, <3>4 DEF UpFrames
    <3>6. DownFrames'
      BY <1>1, <2>1, <3>2, <3>4 DEF DownFrames, Switching
    <3> QED BY <1>1, <1>5, <2>1, <3>2, <3>5, <3>6 DEF Frames, LoginOnly, Ahead
  <2>4. CASE k # 1
    <3>1. toServer[1].name \notin Acks
      BY <1>2, <2>2, <2>4 DEF Switched
    <3>2. peer' = peer
      BY <1>1, <1>2, <3>1 DEF Acks
    <3>3. /\ Ahead' /\ ~Behind' /\ ~Together' /\ PeerCodec' = PeerCodec
          /\ \A name : Acknowledges(name)' <=> Acknowledges(name)
      BY <1>1, <1>3, <1>5, <2>1, <3>2
         DEF Together, Behind, Ahead, PeerCodec, Acknowledges
    <3>4. k - 1 \in 1..Len(toServer') + 1
      BY <1>2, <2>4
    <3>5. \/ k - 1 = Len(toServer') + 1 /\ conn # "open"
          \/ /\ k - 1 \in 1..Len(toServer')
             /\ Acknowledges(toServer'[k - 1].name) /\ toServer'[k - 1].codec = PeerCodec
      <4>1. CASE k = Len(toServer) + 1 /\ conn # "open"
        BY <1>2, <4>1
      <4>2. CASE /\ k \in 1..Len(toServer)
                 /\ Acknowledges(toServer[k].name) /\ toServer[k].codec = PeerCodec
        <5>1. k - 1 \in 1..Len(toServer') /\ (k - 1) + 1 = k
          BY <1>2, <2>4, <4>2
        <5>2. toServer'[k - 1] = toServer[k]
          BY <1>2, <5>1
        <5> QED BY <4>2, <5>1, <5>2
      <4> QED BY <2>2, <4>1, <4>2 DEF Switched
    <3>6. ASSUME NEW i \in 1..Len(toServer')
          PROVE  /\ i < k - 1 => toServer'[i].codec = PeerCodec /\ toServer'[i].name \notin Acks
                 /\ i > k - 1 => toServer'[i].codec = state /\ toServer'[i].name \notin Acks
      <4>1. /\ i + 1 \in 1..Len(toServer) /\ toServer'[i] = toServer[i + 1]
            /\ i < k - 1 => i + 1 < k
            /\ i > k - 1 => i + 1 > k
        BY <1>2
      <4> QED BY <2>2, <4>1 DEF Switched
    <3>7. Switched(k - 1)'
      BY <1>1, <3>3, <3>5, <3>6 DEF Switched
    <3>8. UpFrames'
      BY <3>3, <3>4, <3>7 DEF UpFrames
    <3>9. DownFrames'
      BY <1>1, <2>1, <3>3 DEF DownFrames
    <3> QED BY <1>1, <1>5, <3>2, <3>3, <3>8, <3>9 DEF Frames, LoginOnly, Ahead
  <2> QED BY <2>3, <2>4
<1> QED BY <1>3, <1>4, <1>5 DEF Frames

(* What asks for a switch is read alone; or, behind, with the game to come. *)
LEMMA ReadsSwitch ==
    ASSUME Typed, Frames, NEW name \in Switches, Parses(name)
    PROVE  \/ /\ Together /\ Asked(name) /\ options.config
              /\ toClient' = <<>>
           \/ Behind /\ name = "success"
<1>1. /\ toClient # <<>> /\ toClient' = Tail(toClient) /\ Head(toClient).name = name
      /\ Len(toClient) \in Nat /\ Len(toClient) >= 1 /\ Head(toClient) = toClient[1]
      /\ Len(toClient') = Len(toClient) - 1 /\ toClient' \in Seq(Down)
  BY Tailing DEF Typed, Parses
<1>2. ~Ahead
  BY <1>1 DEF Frames, DownFrames
<1>3. CASE Together
  <2>1. 1 = Len(toClient) /\ Asked(name)
    <3>1. 1 \in 1..Len(toClient) /\ toClient[1].name = name /\ name \in Switches
      BY <1>1
    <3> QED BY <1>3, <3>1 DEF Frames, DownFrames
  <2>2. options.config
    BY <2>1 DEF Frames, Asked
  <2>3. toClient' = <<>>
    BY <1>1, <2>1
  <2> QED BY <1>3, <2>1, <2>2, <2>3
<1>4. CASE Behind
  BY <1>1, <1>4 DEF Frames, DownFrames
<1> QED BY <1>2, <1>3, <1>4 DEF Frames

(* The client acknowledges the switch in the state it leaves. *)
LEMMA AheadFrames ==
    ASSUME Typed, Frames, Together, Switching, options.config, toClient' = <<>>,
           UNCHANGED <<options, conn, peer>>, Ahead', NEW n \in Nat,
           IF conn = "open"
           THEN /\ n >= 1 /\ Len(toServer') = Len(toServer) + n
                /\ \A i \in 1..Len(toServer) : toServer'[i] = toServer[i]
                /\ Acknowledges(toServer'[Len(toServer) + 1].name)
                /\ toServer'[Len(toServer) + 1].codec = state
                /\ \A i \in 1..Len(toServer') : i > Len(toServer) + 1 =>
                       toServer'[i].codec = state' /\ toServer'[i].name \notin Acks
           ELSE toServer' = toServer
    PROVE  Frames'
<1> PICK k \in Nat : k = Len(toServer) + 1
  BY DEF Typed
<1>1. /\ PeerCodec' = PeerCodec /\ Len(toServer) \in Nat
      /\ \A name : Acknowledges(name)' <=> Acknowledges(name)
  BY DEF Typed, PeerCodec, Acknowledges
<1>2. \A i \in 1..Len(toServer) :
          toServer[i].codec = PeerCodec /\ toServer[i].name \notin Acks
  BY DEF Frames, UpFrames, Together
<1>3. ~Together' /\ ~Behind'
  BY DEF Together, Behind, Ahead, PeerCodec
<1>4. Switched(k)' /\ k \in 1..Len(toServer') + 1
  <2>1. CASE conn = "open"
    <3>1. k \in 1..Len(toServer')
      BY <1>1, <2>1
    <3>2. Acknowledges(toServer'[k].name) /\ toServer'[k].codec = PeerCodec
      BY <2>1 DEF Together
    <3>3. ASSUME NEW i \in 1..Len(toServer')
          PROVE  /\ i < k => toServer'[i].codec = PeerCodec /\ toServer'[i].name \notin Acks
                 /\ i > k => toServer'[i].codec = state' /\ toServer'[i].name \notin Acks
      <4>1. i < k => i \in 1..Len(toServer) /\ toServer'[i] = toServer[i]
        BY <1>1, <2>1
      <4> QED BY <1>2, <2>1, <4>1
    <3> QED BY <1>1, <3>1, <3>2, <3>3 DEF Switched
  <2>2. CASE conn # "open"
    <3>1. k = Len(toServer') + 1 /\ conn' # "open" /\ k \in 1..Len(toServer') + 1
      BY <1>1, <2>2
    <3>2. \A i \in 1..Len(toServer') :
              i < k /\ toServer'[i].codec = PeerCodec /\ toServer'[i].name \notin Acks
      BY <1>1, <1>2, <2>2
    <3>3. PeerCodec' = PeerCodec
      BY <1>1
    <3> QED BY <3>1, <3>2, <3>3 DEF Switched
  <2> QED BY <2>1, <2>2
<1>5. DownFrames' /\ UpFrames' /\ LoginOnly'
  BY <1>3, <1>4 DEF DownFrames, UpFrames, LoginOnly, Switching
<1> QED BY <1>3, <1>5 DEF Frames

LEMMA EnterTypes ==
    /\ Packet("login_acknowledged", "login") \in Up
    /\ Packet("configuration_acknowledged", "play") \in Up
    /\ Packet("custom_payload", "configuration") \in Up
    /\ Packet("settings", "configuration") \in Up
    /\ Packet("finish_configuration", "configuration") \in Up
BY DEF Packet, Frame, Up, Codecs, Acks

LEMMA WriteTwo ==
    ASSUME Typed, NEW f \in Up, NEW g \in Up, Write(<<f>> \o <<g>>)
    PROVE  toServer' = IF conn = "open" THEN Append(Append(toServer, f), g) ELSE toServer
<1>1. toServer \in Seq(Up)
  BY DEF Typed
<1>2. toServer \o (<<f>> \o <<g>>) = Append(Append(toServer, f), g)
  BY <1>1
<1> QED BY <1>2 DEF Write

LEMMA WriteThree ==
    ASSUME Typed, NEW f \in Up, NEW g \in Up, NEW h \in Up,
           Write(<<f>> \o (<<g>> \o <<h>>))
    PROVE  toServer' = IF conn = "open" THEN Append(Append(Append(toServer, f), g), h)
                       ELSE toServer
<1>1. toServer \in Seq(Up)
  BY DEF Typed
<1>2. toServer \o (<<f>> \o (<<g>> \o <<h>>)) = Append(Append(Append(toServer, f), g), h)
  BY <1>1
<1> QED BY <1>2 DEF Write

LEMMA SuccessFrames ==
    ASSUME Typed, Frames, OnSuccess, UNCHANGED peer
    PROVE  /\ Frames'
           /\ options.config => /\ Together /\ Switching /\ toClient' = <<>>
                                /\ state = "login" /\ state' = "configuration"
           /\ ~options.config => Behind /\ Together' /\ state' = "play"
<1>1. /\ Parses("success") /\ UNCHANGED <<options, conn>>
      /\ options.config => /\ state' = "configuration"
                           /\ Write(<<Packet("login_acknowledged", state)>> \o EnterFrames)
      /\ ~options.config => state' = "play" /\ toServer' = toServer
  BY DEF OnSuccess, Enter
<1>2. \/ Together /\ Asked("success") /\ options.config /\ toClient' = <<>>
      \/ Behind
  BY <1>1, ReadsSwitch DEF Switches
<1>3. CASE Together /\ Asked("success") /\ options.config /\ toClient' = <<>>
  <2> DEFINE a == Packet("login_acknowledged", "login")
             b == Packet("custom_payload", "configuration")
             c == Packet("settings", "configuration")
  <2>1. /\ peer = "waiting" /\ state = "login" /\ Switching
        /\ \A name : Acknowledges(name) <=> name = "login_acknowledged"
    BY <1>3 DEF Asked, Together, PeerCodec, Switching, Acknowledges
  <2>2. Ahead'
    BY <1>1, <1>3, <2>1 DEF Ahead
  <2>3. toServer' = IF conn = "open" THEN Append(Append(Append(toServer, a), b), c)
                    ELSE toServer
    <3>1. Write(<<a>> \o (<<b>> \o <<c>>))
      BY <1>1, <1>3, <2>1 DEF EnterFrames
    <3> HIDE DEF a, b, c
    <3>2. {a, b, c} \subseteq Up
      BY EnterTypes DEF a, b, c
    <3> QED BY <3>1, <3>2, WriteThree
  <2>4. /\ a.name = "login_acknowledged" /\ a.codec = "login"
        /\ b.name = "custom_payload" /\ b.codec = "configuration"
        /\ c.name = "settings" /\ c.codec = "configuration"
        /\ {a, b, c} \subseteq Up
    BY EnterTypes DEF Packet, Frame
  <2> HIDE DEF a, b, c
  <2>5. CASE conn = "open"
    <3>1. /\ Len(toServer) \in Nat /\ Len(toServer') = Len(toServer) + 3
          /\ \A i \in 1..Len(toServer) : toServer'[i] = toServer[i]
          /\ toServer'[Len(toServer) + 1] = a
          /\ toServer'[Len(toServer) + 2] = b
          /\ toServer'[Len(toServer) + 3] = c
      <4>1. toServer \in Seq(Up) /\ toServer' = Append(Append(Append(toServer, a), b), c)
        BY <2>3, <2>5 DEF Typed
      <4> QED BY ONLY <2>4, <4>1
    <3>2. \A i \in 1..Len(toServer') : i > Len(toServer) + 1 =>
              toServer'[i].codec = "configuration" /\ toServer'[i].name \notin Acks
      <4> SUFFICES ASSUME NEW i \in 1..Len(toServer'), i > Len(toServer) + 1
                   PROVE  toServer'[i].codec = "configuration" /\ toServer'[i].name \notin Acks
        OBVIOUS
      <4>1. i = Len(toServer) + 2 \/ i = Len(toServer) + 3
        BY <3>1
      <4> QED BY <2>4, <3>1, <4>1 DEF Acks
    <3> QED BY <1>1, <1>3, <2>1, <2>2, <2>4, <2>5, <3>1, <3>2, AheadFrames
  <2>6. CASE conn # "open"
    BY <1>1, <1>3, <2>1, <2>2, <2>3, <2>6, AheadFrames
  <2> QED BY <1>1, <1>3, <2>1, <2>5, <2>6
<1>4. CASE Behind
  <2>1. /\ toServer' = toServer /\ toServer = <<>> /\ state' = "play" /\ ~options.config
        /\ toClient # <<>>
        /\ \A i \in 2..Len(toClient) :
               toClient[i].codec = "play" /\ toClient[i].name \notin Switches
    BY <1>1, <1>4 DEF Frames, UpFrames, DownFrames, Together, Behind, PeerCodec
  <2>2. Together' /\ ~Behind' /\ ~Ahead' /\ ~Switching' /\ peer' = "play"
    BY <1>4, <2>1 DEF Together, Behind, Ahead, PeerCodec, Switching
  <2>3. \A i \in 1..Len(toClient') : i + 1 \in 2..Len(toClient) /\ toClient'[i] = toClient[i + 1]
    BY <1>1, <2>1, Tailing DEF Typed, Parses
  <2>4. \A i \in 1..Len(toClient') :
            toClient'[i].codec = "play" /\ toClient'[i].name \notin Switches
    BY <2>1, <2>3
  <2>5. DownFrames'
    BY <2>1, <2>2, <2>4 DEF DownFrames
  <2>6. UpFrames' /\ LoginOnly'
    <3>1. \A i \in 1..Len(toServer') : FALSE
      BY <2>1
    <3> QED BY <2>1, <2>2, <3>1 DEF UpFrames, LoginOnly
  <2> QED BY <1>1, <1>4, <2>1, <2>2, <2>5, <2>6 DEF Frames
<1> QED BY <1>2, <1>3, <1>4

LEMMA StartFrames ==
    ASSUME Typed, Frames, Stage, OnStartConfiguration, UNCHANGED peer
    PROVE  /\ Frames'
           /\ Together /\ Switching /\ toClient' = <<>> /\ options.config
           /\ state = "play" /\ state' = "configuration" /\ Enter(FALSE) /\ Write(EnterFrames)
<1>1. /\ Parses("start_configuration") /\ UNCHANGED <<options, conn>>
      /\ restarts /\ state # "configuration" => Enter(FALSE) /\ Write(EnterFrames)
  BY DEF OnStartConfiguration
<1>2. Together /\ Asked("start_configuration") /\ options.config /\ toClient' = <<>>
  BY <1>1, ReadsSwitch DEF Switches
<1>3. /\ peer = "leaving" /\ state = "play" /\ Switching /\ restarts
      /\ \A name : Acknowledges(name) <=> name = "configuration_acknowledged"
  BY <1>2 DEF Asked, Together, PeerCodec, Switching, Acknowledges, Stage
<1>4. state' = "configuration" /\ Enter(FALSE) /\ Write(EnterFrames)
  BY <1>1, <1>3 DEF Enter
<1>5. Ahead'
  BY <1>3, <1>4 DEF Ahead
<1> DEFINE a == Packet("configuration_acknowledged", "play")
           b == Packet("settings", "configuration")
<1>6. toServer' = IF conn = "open" THEN Append(Append(toServer, a), b) ELSE toServer
  <2>1. Write(<<a>> \o <<b>>)
    BY <1>3, <1>4 DEF EnterFrames
  <2> HIDE DEF a, b
  <2>2. {a, b} \subseteq Up
    BY EnterTypes DEF a, b
  <2> QED BY <2>1, <2>2, WriteTwo
<1>7. /\ a.name = "configuration_acknowledged" /\ a.codec = "play"
      /\ b.name = "settings" /\ b.codec = "configuration"
      /\ {a, b} \subseteq Up
  BY EnterTypes DEF Packet, Frame
<1> HIDE DEF a, b
<1>8. CASE conn = "open"
  <2>1. /\ Len(toServer) \in Nat /\ Len(toServer') = Len(toServer) + 2
        /\ \A i \in 1..Len(toServer) : toServer'[i] = toServer[i]
        /\ toServer'[Len(toServer) + 1] = a
        /\ toServer'[Len(toServer) + 2] = b
    <3>1. toServer \in Seq(Up) /\ toServer' = Append(Append(toServer, a), b)
      BY <1>6, <1>8 DEF Typed
    <3> QED BY ONLY <1>7, <3>1
  <2>2. \A i \in 1..Len(toServer') : i > Len(toServer) + 1 =>
            toServer'[i].codec = "configuration" /\ toServer'[i].name \notin Acks
    <3> SUFFICES ASSUME NEW i \in 1..Len(toServer'), i > Len(toServer) + 1
                 PROVE  toServer'[i].codec = "configuration" /\ toServer'[i].name \notin Acks
      OBVIOUS
    <3>1. i = Len(toServer) + 2
      BY <2>1
    <3> QED BY <1>7, <2>1, <3>1 DEF Acks
  <2>3. Acknowledges(toServer'[Len(toServer) + 1].name)
        /\ toServer'[Len(toServer) + 1].codec = state
    BY <1>3, <1>7, <2>1
  <2>4. Frames'
    BY <1>1, <1>2, <1>3, <1>4, <1>5, <1>8, <2>1, <2>2, <2>3, AheadFrames
  <2> QED BY <1>2, <1>3, <1>4, <2>4
<1>9. CASE conn # "open"
  BY <1>1, <1>2, <1>3, <1>4, <1>5, <1>6, <1>9, AheadFrames
<1> QED BY <1>2, <1>3, <1>4, <1>8, <1>9

LEMMA OneListener ==
    ASSUME Stage, state = "configuration", NEW name, HandlerOf(name) \in handlers
    PROVE  /\ Listening(name) = {HandlerOf(name)}
           /\ Cardinality(Listening(name)) = 1
<1>1. Listening(name) = {HandlerOf(name)}
  BY DEF Stage, Handlers, HandlerOf, Listening
<1> QED BY <1>1, FS_Singleton

LEMMA Repeats ==
    ASSUME NEW f
    PROVE  Repeat(f, 0) = <<>> /\ Repeat(f, 1) = <<f>>
BY DEF Repeat

LEMMA FinishFrames ==
    ASSUME Typed, Frames, Stage, OnFinishConfiguration, UNCHANGED peer
    PROVE  /\ Frames'
           /\ Together /\ Switching /\ toClient' = <<>> /\ options.config
           /\ state = "configuration" /\ state' = "play"
           /\ handlers' = {} /\ current' = 0 /\ joined' = 1
           /\ toServer' = IF conn = "open"
                          THEN Append(toServer, Packet("finish_configuration", "configuration"))
                          ELSE toServer
<1> DEFINE called == Listening("finish_configuration")
           a == Packet("finish_configuration", "configuration")
<1>1. /\ Parses("finish_configuration") /\ UNCHANGED <<options, conn>>
      /\ called # {} =>
           /\ Write(<<Packet("finish_configuration", state)>>
                    \o Repeat(Packet("finish_configuration", "play"), Cardinality(called) - 1))
           /\ handlers' = Cleared \ called /\ current' = 0 /\ state' = "play"
           /\ OnReady(Cardinality({h \in called : h.ready}))
  BY DEF OnFinishConfiguration
<1>2. Together /\ Asked("finish_configuration") /\ options.config /\ toClient' = <<>>
  BY <1>1, ReadsSwitch DEF Switches
<1>3. /\ peer = "finishing" /\ state = "configuration" /\ Switching
      /\ \A name : Acknowledges(name) <=> name = "finish_configuration"
  BY <1>2 DEF Asked, Together, PeerCodec, Switching, Acknowledges
<1> DEFINE h0 == HandlerOf("finish_configuration")
<1>4. called = {h0} /\ Cardinality(called) = 1
  BY <1>3, OneListener DEF Stage
<1>5. Ahead' /\ state' = "play"
  BY <1>1, <1>3, <1>4 DEF Ahead
<1>6. Cleared = {}
  BY <1>3 DEF Stage, Handlers, Cleared
<1>7. joined' = 1
  <2>1. h0.ready <=> entry = 1
    BY DEF HandlerOf
  <2>2. joined = IF entry = 1 THEN 0 ELSE 1
    BY <1>3 DEF Stage
  <2>3. joined' = joined + Cardinality({h \in called : h.ready})
    BY <1>1, <1>4 DEF OnReady
  <2> HIDE DEF h0, called
  <2>4. CASE entry = 1
    <3>1. {h \in called : h.ready} = {h0}
      BY <1>4, <2>1, <2>4
    <3>2. Cardinality({h0}) = 1
      BY FS_Singleton
    <3> QED BY <2>2, <2>3, <2>4, <3>1, <3>2
  <2>5. CASE entry # 1
    <3>1. {h \in called : h.ready} = {}
      BY <1>4, <2>1, <2>5
    <3> QED BY <2>2, <2>3, <2>5, <3>1, FS_EmptySet
  <2> QED BY <2>4, <2>5
<1>8. a \in Up /\ a.name = "finish_configuration" /\ a.codec = "configuration"
  BY EnterTypes DEF Packet, Frame
<1>9. toServer' = IF conn = "open" THEN Append(toServer, a) ELSE toServer
  <2>1. Write(<<a>> \o <<>>)
    <3>1. Repeat(Packet("finish_configuration", "play"), Cardinality(called) - 1) = <<>>
      BY <1>4, Repeats
    <3> HIDE DEF called
    <3> QED BY <1>1, <1>3, <1>4, <3>1
  <2> HIDE DEF a
  <2>2. <<a>> \o <<>> = <<a>>
    OBVIOUS
  <2> QED BY <1>8, <2>1, <2>2, WriteOne
<1>10. handlers' = {} /\ current' = 0
  BY <1>1, <1>4, <1>6
<1>11. Frames'
  <2> HIDE DEF a
  <2>1. CASE conn = "open"
    <3>1. /\ Len(toServer) \in Nat /\ Len(toServer') = Len(toServer) + 1
          /\ \A i \in 1..Len(toServer) : toServer'[i] = toServer[i]
          /\ toServer'[Len(toServer) + 1] = a
      BY <1>8, <1>9, <2>1, Appending DEF Typed
    <3>2. \A i \in 1..Len(toServer') : ~(i > Len(toServer) + 1)
      BY <3>1
    <3> QED BY <1>1, <1>2, <1>3, <1>5, <1>8, <2>1, <3>1, <3>2, AheadFrames
  <2>2. CASE conn # "open"
    BY <1>1, <1>2, <1>3, <1>5, <1>9, <2>2, AheadFrames
  <2> QED BY <2>1, <2>2
<1> QED BY <1>2, <1>3, <1>5, <1>7, <1>9, <1>10, <1>11

-----------------------------------------------------------------------------
(* What the listeners read and write *)

LEMMA StateCodec == Frames => state \in Codecs /\ PeerCodec \in Codecs
BY DEF Frames, Together, Behind, Ahead, PeerCodec, Codecs

LEMMA QuietRead ==
    ASSUME Typed, Frames, NEW name, name \notin Switches, Parses(name),
           UNCHANGED <<options, state, peer>>,
           conn' \in {"open", "ending", "ended"}, conn' = "open" => conn = "open",
           \/ toServer' = toServer
           \/ \E f \in Up : /\ f.codec = state /\ f.name \notin Acks /\ Write(<<f>>)
                            /\ name = "login_plugin_request" => f.name = "login_plugin_response"
    PROVE  Quiet /\ Together /\ Head(toClient).codec = state
<1>1. toClient # <<>> /\ toClient' = Tail(toClient) /\ Head(toClient).name = name
  BY DEF Parses
<1>2. /\ Together /\ Head(toClient).codec = state
      /\ peer = "login" => name = "login_plugin_request"
  BY <1>1, ReadTogether
<1>3. ~Behind
  BY <1>2 DEF Together, Behind, PeerCodec
<1>4. ASSUME NEW f \in Up, f.codec = state, f.name \notin Acks, Write(<<f>>),
             name = "login_plugin_request" => f.name = "login_plugin_response"
      PROVE  Quiet
  <2>1. toServer' = IF conn = "open" THEN Append(toServer, f) ELSE toServer
    BY <1>4, WriteOne
  <2> QED BY <1>1, <1>2, <1>3, <1>4, <2>1 DEF Quiet
<1>5. CASE toServer' = toServer
  BY <1>1, <1>2, <1>5 DEF Quiet
<1> QED BY <1>2, <1>4, <1>5

LEMMA HeadOf ==
    ASSUME Typed, NEW name, Parses(name)
    PROVE  /\ toClient # <<>> /\ toClient' = Tail(toClient) /\ toClient' \in Seq(Down)
           /\ Head(toClient) = toClient[1] /\ toClient[1] \in Down /\ toClient[1].name = name
           /\ Len(toClient) \in Nat /\ Len(toClient) >= 1 /\ 1 \in 1..Len(toClient)
           /\ Len(toClient') = Len(toClient) - 1
           /\ \A i \in 1..Len(toClient') :
                  i + 1 \in 2..Len(toClient) /\ i + 1 \in 1..Len(toClient)
                  /\ toClient'[i] = toClient[i + 1]
BY Tailing DEF Typed, Parses

LEMMA AskEffect ==
    ASSUME Typed, Frames, Stage, Questions, NEW name \in Asks, OnAsk(name), UNCHANGED peer
    PROVE  /\ state = "configuration" /\ HandlerOf(name) \in handlers
           /\ handlers' = handlers \ {HandlerOf(name)}
           /\ peer \in {"configuration", "finishing"} /\ name \in asked
           /\ Packet(Answer(name), state) \in Up
           /\ Write(<<Packet(Answer(name), state)>>)
           /\ Quiet
<1>1. /\ Parses(name) /\ UNCHANGED <<options, state, conn>>
      /\ Write(Repeat(Packet(Answer(name), state), Cardinality(Listening(name))))
      /\ handlers' = handlers \ Listening(name)
  BY DEF OnAsk
<1>2. name \notin Switches
  BY DEF Asks, Switches
<1>3. peer \in {"configuration", "finishing"} /\ name \in asked /\ HandlerOf(name) \in handlers
  BY <1>1, HeadOf DEF Questions
<1>4. state = "configuration"
  <2>1. Together
    BY <1>1, <1>2, HeadOf, ReadTogether
  <2> QED BY <1>3, <2>1 DEF Together, PeerCodec
<1>5. Listening(name) = {HandlerOf(name)} /\ Cardinality(Listening(name)) = 1
  BY <1>3, <1>4, OneListener
<1> DEFINE f == Packet(Answer(name), state)
<1>6. f \in Up /\ f.codec = state /\ f.name \notin Acks
  BY <1>4 DEF Packet, Frame, Up, Codecs, Answer, Answers, Asks, Acks
<1>7. Write(<<f>>)
  <2>1. Repeat(f, Cardinality(Listening(name))) = <<f>>
    BY <1>5, Repeats
  <2> HIDE DEF f
  <2> QED BY <1>1, <2>1 DEF f
<1>8. Quiet
  <2> HIDE DEF f
  <2>1. name # "login_plugin_request" /\ conn \in {"open", "ending", "ended"}
    BY DEF Asks, Typed
  <2> QED BY <1>1, <1>2, <1>6, <1>7, <2>1, QuietRead
<1> QED BY <1>1, <1>3, <1>4, <1>5, <1>6, <1>7, <1>8

LEMMA PacketUp ==
    ASSUME Frames, NEW name \in {"pong", "chat_session_update", "custom_payload"}
    PROVE  /\ Packet(name, state) \in Up /\ Packet(name, state).codec = state
           /\ Packet(name, state).name = name /\ name \notin Acks
<1>1. state \in Codecs
  BY StateCodec
<1> QED BY <1>1 DEF Packet, Frame, Up, Answers, Acks

LEMMA PingQuiet == Typed /\ Frames /\ OnPing /\ UNCHANGED peer => Quiet
<1> SUFFICES ASSUME Typed, Frames, OnPing, UNCHANGED peer PROVE Quiet
  OBVIOUS
<1>1. /\ Parses("ping") /\ UNCHANGED <<options, state, conn>>
      /\ toServer' = toServer \/ Write(<<Packet("pong", state)>>)
  BY DEF OnPing
<1>2. "ping" \notin Switches /\ conn \in {"open", "ending", "ended"}
  BY DEF Switches, Typed
<1>3. Packet("pong", state) \in Up /\ Packet("pong", state).codec = state
      /\ Packet("pong", state).name = "pong" /\ "pong" \notin Acks
  BY PacketUp
<1> QED BY <1>1, <1>2, <1>3, QuietRead

LEMMA LoginQuiet == Typed /\ Frames /\ OnLogin /\ UNCHANGED peer => Quiet
<1> SUFFICES ASSUME Typed, Frames, OnLogin, UNCHANGED peer PROVE Quiet
  OBVIOUS
<1>1. /\ Parses("login") /\ UNCHANGED <<options, state, conn>>
      /\ toServer' = toServer \/ Write(<<Packet("chat_session_update", state)>>)
  BY DEF OnLogin
<1>2. "login" \notin Switches /\ conn \in {"open", "ending", "ended"}
  BY DEF Switches, Typed
<1>3. /\ Packet("chat_session_update", state) \in Up
      /\ Packet("chat_session_update", state).codec = state
      /\ Packet("chat_session_update", state).name \notin Acks
  BY PacketUp
<1> QED BY <1>1, <1>2, <1>3, QuietRead

(* A cookie of the client, and what it is answered with. *)
LEMMA CookieFrame ==
    ASSUME Typed, Frames, NEW k \in Keys
    PROVE  /\ cookies[k] \in Values \cup {"none"}
           /\ Frame("cookie_response", cookies[k], state) \in Up
           /\ Frame("cookie_response", cookies[k], state).codec = state
           /\ Frame("cookie_response", cookies[k], state).name = "cookie_response"
<1>1. state \in Codecs
  BY StateCodec
<1>2. maps[1] \in [Keys -> Values \cup {"none"}]
  BY DEF Typed
<1>3. cookies[k] \in Values \cup {"none"}
  BY <1>2 DEF cookies
<1> HIDE DEF cookies
<1> QED BY <1>1, <1>3 DEF Frame, Up, Answers

LEMMA CookieQuiet ==
    ASSUME Typed, Frames, CookiesNext, UNCHANGED peer
    PROVE  Quiet
<1> USE DEF End
<1>1. CASE OnCookieRequest
  <2>1. /\ Parses("cookie_request") /\ UNCHANGED <<options, state>>
        /\ \/ Write(<<Frame("cookie_response", cookies[Arg], state)>>) /\ conn' = conn
           \/ toServer' = toServer /\ conn' = IF conn = "open" THEN "ending" ELSE conn
    BY <1>1 DEF OnCookieRequest
  <2>2. Arg \in Keys
    BY <2>1, HeadOf DEF Typed, Arg
  <2>3. "cookie_request" \notin Switches /\ "cookie_response" \notin Acks
        /\ conn \in {"open", "ending", "ended"}
    BY DEF Switches, Acks, Typed
  <2> QED BY <2>1, <2>2, <2>3, CookieFrame, QuietRead
<1>2. CASE OnStoreCookie
  <2>1. /\ Parses("store_cookie") /\ UNCHANGED <<options, state, toServer>>
        /\ conn' = conn \/ conn' = IF conn = "open" THEN "ending" ELSE conn
    BY <1>2 DEF OnStoreCookie
  <2>2. "store_cookie" \notin Switches /\ conn \in {"open", "ending", "ended"}
    BY DEF Switches, Typed
  <2> QED BY <2>1, <2>2, QuietRead
<1>3. CASE OnTransfer
  <2>1. /\ Parses("transfer") /\ UNCHANGED <<options, state, toServer>>
        /\ conn' = conn \/ conn' = IF conn = "open" THEN "ending" ELSE conn
    BY <1>3 DEF OnTransfer
  <2>2. "transfer" \notin Switches /\ conn \in {"open", "ending", "ended"}
    BY DEF Switches, Typed
  <2> QED BY <2>1, <2>2, QuietRead
<1> QED BY <1>1, <1>2, <1>3 DEF CookiesNext

(* What a challenge is answered with, if it is. *)
LEMMA PluginFrame ==
    ASSUME Frames, NEW response \in {"empty", "signed"}
    PROVE  /\ Frame("login_plugin_response", response, state) \in Up
           /\ Frame("login_plugin_response", response, state).codec = state
           /\ Frame("login_plugin_response", response, state).name = "login_plugin_response"
<1>1. state \in Codecs
  BY StateCodec
<1> QED BY <1>1 DEF Frame, Up, Answers

LEMMA PluginEffect ==
    ASSUME Typed, Frames, OnLoginPluginRequest
    PROVE  \/ lost' = lost + 1 /\ toServer' = toServer
           \/ /\ lost' = lost
              /\ \E response \in {"empty", "signed"} :
                     Write(<<Frame("login_plugin_response", response, state)>>)
<1> DEFINE response == IF Arg = Challenge /\ options.secret # "none"
                       THEN ForwardingResponse ELSE "empty"
<1>1. response \in {"thrown", "empty", "signed"}
  BY DEF ForwardingResponse
<1>2. IF response = "thrown" THEN lost' = lost + 1 /\ toServer' = toServer
      ELSE Write(<<Frame("login_plugin_response", response, state)>>) /\ lost' = lost
  BY DEF OnLoginPluginRequest
<1> HIDE DEF response
<1> QED BY <1>1, <1>2

LEMMA ChannelsQuiet ==
    ASSUME Typed, Frames, ChannelsNext, UNCHANGED peer
    PROVE  Quiet
<1>1. CASE OnCustomPayload
  <2>1. Parses("custom_payload") /\ UNCHANGED <<options, state, conn, toServer>>
    BY <1>1 DEF OnCustomPayload
  <2>2. "custom_payload" \notin Switches /\ conn \in {"open", "ending", "ended"}
    BY DEF Switches, Typed
  <2> QED BY <2>1, <2>2, QuietRead
<1>2. CASE OnLoginPluginRequest
  <2>1. Parses("login_plugin_request") /\ UNCHANGED <<options, state, conn>>
    BY <1>2 DEF OnLoginPluginRequest
  <2>2. "login_plugin_request" \notin Switches /\ "login_plugin_response" \notin Acks
        /\ conn \in {"open", "ending", "ended"}
    BY DEF Switches, Acks, Typed
  <2> QED BY <1>2, <2>1, <2>2, PluginEffect, PluginFrame, QuietRead
<1> QED BY <1>1, <1>2 DEF ChannelsNext

(* The user writes on channels only, and in a game or a configuration. *)
LEMMA ChannelsWrite ==
    ASSUME Frames, UserChannels
    PROVE  /\ UNCHANGED <<options, state, conn, toClient, peer>>
           /\ Write(<<Packet("custom_payload", state)>>) \/ Write(<<>>) \/ toServer' = toServer
           /\ joined > 0
<1>1. \/ \E name \in Names, typed, custom \in BOOLEAN : RegisterChannel(name, typed, custom)
      \/ \E name \in Names \cup OwnNames, custom \in BOOLEAN : UnregisterChannel(name, custom)
      \/ \E name \in Names : WriteChannel(name)
  BY DEF UserChannels
<1>2. peer' = peer /\ joined > 0
  BY DEF UserChannels
<1>3. ASSUME NEW channel, NEW custom \in BOOLEAN, Announce(channel, custom)
      PROVE  Write(<<Packet("custom_payload", state)>>) \/ Write(<<>>)
  BY <1>3 DEF Announce
<1>4. UNCHANGED <<options, state, conn, toClient>>
  BY <1>1 DEF RegisterChannel, UnregisterChannel, WriteChannel
<1>5. Write(<<Packet("custom_payload", state)>>) \/ Write(<<>>) \/ toServer' = toServer
  BY <1>1, <1>3 DEF RegisterChannel, UnregisterChannel, WriteChannel
<1> QED BY <1>2, <1>4, <1>5

LEMMA UserQuiet ==
    ASSUME Typed, Frames, Stage, UserChannels \/ UserCookies
    PROVE  Quiet
<1>1. CASE UserChannels
  <2>1. ~Behind /\ peer # "login"
    BY <1>1, ChannelsWrite DEF Frames, Behind, Stage, Together, Ahead, PeerCodec
  <2>2. /\ Packet("custom_payload", state) \in Up
        /\ Packet("custom_payload", state).codec = state
        /\ Packet("custom_payload", state).name \notin Acks
    BY PacketUp
  <2>3. \/ toServer' = toServer
        \/ conn = "open" /\ toServer' = Append(toServer, Packet("custom_payload", state))
    BY <1>1, <2>2, ChannelsWrite, WriteOne, WriteNone
  <2>4. conn \in {"open", "ending", "ended"}
    BY DEF Typed
  <2> QED BY <1>1, <2>1, <2>2, <2>3, <2>4, ChannelsWrite DEF Quiet
<1>2. CASE UserCookies
  BY <1>2 DEF UserCookies, UserSetsCookie, baseVars, Quiet, Typed
<1> QED BY <1>1, <1>2

LEMMA LoginEmpty ==
    ASSUME Typed, Frames, Owed, peer = "login", owing["login_plugin_response"] = 0
    PROVE  toClient = <<>> /\ toServer = <<>>
<1>1. /\ Count(toClient, "login_plugin_request") \in Nat
      /\ Count(toServer, "login_plugin_response") \in Nat
  BY CountType DEF Typed
<1>2. owing["login_plugin_response"] >=
          Count(toClient, "login_plugin_request") + Count(toServer, "login_plugin_response") + lost
  BY DEF Owed, Due, Question, Answers
<1>3. /\ Count(toClient, "login_plugin_request") = 0
      /\ Count(toServer, "login_plugin_response") = 0
  BY <1>1, <1>2 DEF Owed
<1> QED BY <1>3, CountNone DEF Frames, LoginOnly, Typed

LEMMA SaidDown ==
    ASSUME Frames, NEW name, NEW arg \in Args,
           name \in Asks \cup Switches
                    \cup {"login_plugin_request", "ping", "login", "cookie_request",
                          "store_cookie", "transfer", "custom_payload"}
    PROVE  Frame(name, arg, PeerCodec) \in Down
<1>1. PeerCodec \in Codecs
  BY StateCodec
<1> QED BY <1>1 DEF Frame, Down

(* What the server says of its own accord and on behalf of a user. *)
Said(name, arg) ==
    /\ peer' = peer
    /\ peer \in {"login", "configuration", "play"}
    /\ peer = "login" => name = "login_plugin_request"
    /\ arg \in Args
    /\ name \in Asks \cup {"login_plugin_request", "ping", "login", "cookie_request",
                           "store_cookie", "transfer", "custom_payload"}
    /\ name = "store_cookie" => arg \in Keys \X Values
    /\ name = "cookie_request" => arg \in Keys
    /\ name = "ping" => peer = "configuration"
    /\ name \in Asks => peer = "configuration" /\ name \notin asked
    /\ asked' = IF name \in Asks THEN asked \cup {name} ELSE asked
    /\ Sends(name, arg)

LEMMA SaidFrames ==
    ASSUME Typed, Frames, NEW name, NEW arg, Said(name, arg)
    PROVE  Frames'
<1>1. name \notin Switches /\ Frame(name, arg, PeerCodec) \in Down
  BY SaidDown DEF Said, Asks, Switches
<1> QED BY <1>1, SayFrames DEF Said

(* What the server says, and the answer it expects. *)
PeerSays ==
    \/ \E name \in Asks : PeerAsks(name)
    \/ PeerLogin
    \/ PeerPings
    \/ PeerPluginRequest
    \/ \E key \in Keys : PeerRequestsCookie(key)
    \/ \E key \in Keys, value \in Values : PeerTells("store_cookie", <<key, value>>)
    \/ PeerTells("transfer", "")
    \/ \E name \in Names, data \in {"good", "bad"} :
           PeerTells("custom_payload", <<name, data>>)

LEMMA Saying ==
    ASSUME PeerSays
    PROVE  \E name, arg :
               /\ Said(name, arg)
               /\ \/ \E a \in Answers : name = Question(a) /\ Expects(a)
                  \/ owing' = owing /\ \A a \in Answers : name # Question(a)
<1>1. ASSUME NEW name \in Asks, PeerAsks(name)
      PROVE  /\ Said(name, "")
             /\ name = Question(Answer(name)) /\ Answer(name) \in Answers /\ Expects(Answer(name))
  <2>1. name = Question(Answer(name)) /\ Answer(name) \in Answers
    BY DEF Question, Answer, Answers, Asks
  <2> QED BY <1>1, <2>1 DEF PeerAsks, Said, Args, Asks
<1>2. ASSUME PeerLogin
      PROVE  Said("login", "") /\ owing' = owing /\ \A a \in Answers : "login" # Question(a)
  BY <1>2 DEF PeerLogin, Said, Args, Asks, Question, Answers
<1>3. ASSUME PeerPings
      PROVE  Said("ping", "") /\ Expects("pong")
  BY <1>3 DEF PeerPings, PeerRequests, Said, Args, Asks
<1>4. ASSUME PeerPluginRequest
      PROVE  \E arg : Said("login_plugin_request", arg) /\ Expects("login_plugin_response")
  BY <1>4 DEF PeerPluginRequest, PeerRequests, Said, Args, Asks
<1>5. ASSUME NEW key \in Keys, PeerRequestsCookie(key)
      PROVE  Said("cookie_request", key) /\ Expects("cookie_response")
  BY <1>5 DEF PeerRequestsCookie, PeerRequests, Said, Args, Asks
<1>6. ASSUME NEW key \in Keys, NEW value \in Values, PeerTells("store_cookie", <<key, value>>)
      PROVE  Said("store_cookie", <<key, value>>) /\ owing' = owing
  BY <1>6 DEF PeerTells, Said, Args, Asks
<1>7. ASSUME PeerTells("transfer", "")
      PROVE  Said("transfer", "") /\ owing' = owing
  BY <1>7 DEF PeerTells, Said, Args, Asks
<1>8. ASSUME NEW name \in Names, NEW data \in {"good", "bad"},
             PeerTells("custom_payload", <<name, data>>)
      PROVE  Said("custom_payload", <<name, data>>) /\ owing' = owing
  BY <1>8 DEF PeerTells, Said, Args, Asks
<1>9. /\ {"pong", "login_plugin_response", "cookie_response"} \subseteq Answers
      /\ Question("pong") = "ping"
      /\ Question("login_plugin_response") = "login_plugin_request"
      /\ Question("cookie_response") = "cookie_request"
      /\ \A a \in Answers :
             Question(a) \notin {"login", "store_cookie", "transfer", "custom_payload"}
  BY DEF Question, Answers
<1> QED BY <1>1, <1>2, <1>3, <1>4, <1>5, <1>6, <1>7, <1>8, <1>9 DEF PeerSays

LEMMA PeerFrames ==
    ASSUME Typed, Frames, Owed, Peer
    PROVE  Frames'
<1>1. CASE PeerSays
  BY <1>1, Saying, SaidFrames
<1>2. CASE PeerSuccess
  <2>1. toClient = <<>> /\ toServer = <<>>
    BY <1>2, LoginEmpty DEF PeerSuccess
  <2>2. CASE options.config
    <3>1. Together /\ PeerCodec' = PeerCodec
      BY <1>2, <2>2 DEF PeerSuccess, Frames, Together, Behind, Ahead, PeerCodec
    <3>2. /\ peer = "login" /\ peer' = "waiting" /\ Sends("success", "")
          /\ \A n : Asked(n)' <=> n = "success"
      BY <1>2, <2>2 DEF PeerSuccess, Asked
    <3>3. Frame("success", "", PeerCodec) \in Down
      BY SaidDown DEF Switches, Args
    <3> QED BY <2>2, <3>1, <3>2, <3>3, SwitchFrames
  <2>3. CASE ~options.config
    BY <1>2, <2>1, <2>3, GameFrames DEF PeerSuccess
  <2> QED BY <2>2, <2>3
<1>3. CASE PeerFinish
  <2>1. /\ peer = "configuration" /\ peer' = "finishing" /\ Sends("finish_configuration", "")
        /\ \A n : Asked(n)' <=> n = "finish_configuration"
    BY <1>3 DEF PeerFinish, Asked
  <2>2. Together /\ PeerCodec' = PeerCodec /\ options.config
    BY <2>1 DEF Frames, Together, Behind, Ahead, PeerCodec
  <2>3. Frame("finish_configuration", "", PeerCodec) \in Down
    BY SaidDown DEF Switches, Args
  <2> QED BY <2>1, <2>2, <2>3, SwitchFrames
<1>4. CASE PeerReconfigure
  <2>1. /\ peer = "play" /\ peer' = "leaving" /\ Sends("start_configuration", "")
        /\ options.config
        /\ \A n : Asked(n)' <=> n = "start_configuration"
    BY <1>4 DEF PeerReconfigure, Asked
  <2>2. Together /\ PeerCodec' = PeerCodec
    BY <2>1 DEF Frames, DownFrames, Together, Behind, Ahead, PeerCodec
  <2>3. Frame("start_configuration", "", PeerCodec) \in Down
    BY SaidDown DEF Switches, Args
  <2> QED BY <2>1, <2>2, <2>3, SwitchFrames
<1>5. CASE PeerReads
  BY <1>5, ReadsFrames
<1> QED BY <1>1, <1>2, <1>3, <1>4, <1>5 DEF Peer, PeerSays

IInv == Typed /\ Frames /\ Stage /\ Questions /\ Owed

LEMMA NextFrames ==
    ASSUME IInv, [Next]_vars
    PROVE  Frames'
<1> USE DEF IInv
<1>1. CASE Listeners
  <2>1. peer' = peer
    BY <1>1 DEF Listeners, peerVars
  <2>2. CASE OnSuccess
    BY <2>1, <2>2, SuccessFrames
  <2>3. CASE OnStartConfiguration
    BY <2>1, <2>3, StartFrames
  <2>4. CASE OnFinishConfiguration
    BY <2>1, <2>4, FinishFrames
  <2>5. ASSUME NEW name \in Asks, OnAsk(name) PROVE Frames'
    BY <2>1, <2>5, AskEffect, QuietFrames
  <2>6. CASE OnPing \/ OnLogin
    BY <2>1, <2>6, PingQuiet, LoginQuiet, QuietFrames
  <2>7. CASE CookiesNext
    BY <2>1, <2>7, CookieQuiet, QuietFrames
  <2>8. CASE ChannelsNext
    BY <2>1, <2>8, ChannelsQuiet, QuietFrames
  <2> QED
    BY <1>1, <2>2, <2>3, <2>4, <2>5, <2>6, <2>7, <2>8 DEF Listeners, ConfigurationNext
<1>2. CASE SocketEnds
  <2>1. Quiet
    BY <1>2 DEF SocketEnds, Ended, peerVars, Quiet
  <2> QED BY <2>1, QuietFrames
<1>3. CASE Peer
  BY <1>3, PeerFrames
<1>4. CASE UserChannels \/ UserCookies
  BY <1>4, UserQuiet, QuietFrames
<1>5. CASE UNCHANGED vars
  <2>1. Quiet
    BY <1>5 DEF vars, baseVars, peerVars, Quiet, Typed
  <2> QED BY <2>1, QuietFrames
<1> QED BY <1>1, <1>2, <1>3, <1>4, <1>5 DEF Next

-----------------------------------------------------------------------------
(* Types *)

Lines ==
    /\ options \in Options
    /\ toClient \in Seq(Down) /\ toServer \in Seq(Up)
    /\ \A i \in 1..Len(toClient) :
        /\ toClient[i].name = "store_cookie" => toClient[i].arg \in Keys \X Values
        /\ toClient[i].name = "cookie_request" => toClient[i].arg \in Keys
    /\ conn \in {"open", "ending", "ended"}

Maps == maps \in Seq([Keys -> Values \cup {"none"}]) /\ Len(maps) >= 1

LEMMA TailLines ==
    ASSUME Typed, toClient # <<>>, toClient' = Tail(toClient),
           options' = options, toServer' \in Seq(Up), conn' \in {"open", "ending", "ended"}
    PROVE  Lines'
<1>1. /\ toClient' \in Seq(Down)
      /\ \A i \in 1..Len(toClient') :
             i + 1 \in 1..Len(toClient) /\ toClient'[i] = toClient[i + 1]
  BY Tailing DEF Typed
<1> QED BY <1>1 DEF Typed, Lines

LEMMA QuietLines ==
    ASSUME Typed, Quiet
    PROVE  Lines'
<1>1. toServer' \in Seq(Up)
  <2>1. toServer \in Seq(Up)
    BY DEF Typed
  <2>2. toServer' = toServer \/ \E f \in Up : toServer' = Append(toServer, f)
    BY DEF Quiet
  <2> QED BY ONLY <2>1, <2>2
<1>2. CASE toClient' = toClient
  BY <1>1, <1>2 DEF Typed, Quiet, Lines
<1>3. CASE toClient # <<>> /\ toClient' = Tail(toClient)
  BY <1>1, <1>3, TailLines DEF Quiet
<1> QED BY <1>2, <1>3 DEF Quiet

LEMMA SaidLines ==
    ASSUME Typed, NEW name, NEW arg, Sends(name, arg), Frame(name, arg, PeerCodec) \in Down,
           name = "store_cookie" => arg \in Keys \X Values,
           name = "cookie_request" => arg \in Keys
    PROVE  Lines'
<1> DEFINE f == Frame(name, arg, PeerCodec)
<1>1. /\ UNCHANGED <<options, conn, toServer>> /\ toClient' = Append(toClient, f)
      /\ f.name = name /\ f.arg = arg /\ f \in Down
  BY DEF Sends, Frame
<1> HIDE DEF f
<1>2. /\ toClient' \in Seq(Down) /\ Len(toClient) \in Nat
      /\ Len(toClient') = Len(toClient) + 1
      /\ \A i \in 1..Len(toClient) : toClient'[i] = toClient[i]
      /\ toClient'[Len(toClient) + 1] = f
  <2>1. toClient \in Seq(Down)
    BY DEF Typed
  <2> QED BY ONLY <1>1, <2>1, Appending
<1>3. \A i \in 1..Len(toClient') : i \in 1..Len(toClient) \/ i = Len(toClient) + 1
  BY ONLY <1>2
<1> QED BY <1>1, <1>2, <1>3 DEF Typed, Lines

LEMMA EnterSeq ==
    /\ state \in {"login", "play"} => EnterFrames \in Seq(Up)
    /\ state = "login" => <<Packet("login_acknowledged", state)>> \in Seq(Up)
BY EnterTypes DEF EnterFrames

LEMMA NextLines ==
    ASSUME IInv, [Next]_vars
    PROVE  Lines'
<1> USE DEF IInv
<1>1. CASE Listeners
  <2>1. peer' = peer /\ conn \in {"open", "ending", "ended"} /\ toServer \in Seq(Up)
    BY <1>1 DEF Listeners, peerVars, Typed
  <2>2. CASE OnSuccess
    <3>1. Parses("success") /\ UNCHANGED <<options, conn>>
      BY <2>2 DEF OnSuccess
    <3>2. toServer' \in Seq(Up)
      <4>1. CASE options.config
        <5>1. state = "login"
          BY <2>1, <2>2, <4>1, SuccessFrames
        <5>2. Write(<<Packet("login_acknowledged", state)>> \o EnterFrames)
          BY <2>2, <4>1 DEF OnSuccess
        <5>3. <<Packet("login_acknowledged", state)>> \o EnterFrames \in Seq(Up)
          BY <5>1, EnterSeq
        <5> QED BY <2>1, <5>2, <5>3 DEF Write
      <4>2. CASE ~options.config
        BY <2>1, <2>2, <4>2 DEF OnSuccess
      <4> QED BY <4>1, <4>2
    <3> QED BY <2>1, <3>1, <3>2, TailLines DEF Parses
  <2>3. CASE OnStartConfiguration
    <3>1. Parses("start_configuration") /\ UNCHANGED <<options, conn>>
      BY <2>3 DEF OnStartConfiguration
    <3>2. state = "play" /\ Write(EnterFrames)
      BY <2>1, <2>3, StartFrames
    <3>3. toServer' \in Seq(Up)
      BY <2>1, <3>2, EnterSeq DEF Write
    <3> QED BY <2>1, <3>1, <3>3, TailLines DEF Parses
  <2>4. CASE OnFinishConfiguration
    <3>1. Parses("finish_configuration") /\ UNCHANGED <<options, conn>>
      BY <2>4 DEF OnFinishConfiguration
    <3>2. toServer' \in Seq(Up)
      <4> DEFINE f == Packet("finish_configuration", "configuration")
      <4>1. toServer' = IF conn = "open" THEN Append(toServer, f) ELSE toServer
        BY <2>1, <2>4, FinishFrames
      <4>2. f \in Up
        BY EnterTypes
      <4> HIDE DEF f
      <4> QED BY <2>1, <4>1, <4>2
    <3> QED BY <2>1, <3>1, <3>2, TailLines DEF Parses
  <2>5. ASSUME NEW name \in Asks, OnAsk(name) PROVE Lines'
    BY <2>1, <2>5, AskEffect, QuietLines
  <2>6. CASE OnPing \/ OnLogin
    BY <2>1, <2>6, PingQuiet, LoginQuiet, QuietLines
  <2>7. CASE CookiesNext
    BY <2>1, <2>7, CookieQuiet, QuietLines
  <2>8. CASE ChannelsNext
    BY <2>1, <2>8, ChannelsQuiet, QuietLines
  <2> QED
    BY <1>1, <2>2, <2>3, <2>4, <2>5, <2>6, <2>7, <2>8 DEF Listeners, ConfigurationNext
<1>2. CASE SocketEnds
  BY <1>2 DEF SocketEnds, Ended, Typed, Lines
<1>3. CASE Peer
  <2>1. CASE PeerSays
    <3> PICK name, arg : Said(name, arg)
      BY <2>1, Saying
    <3>1. Frame(name, arg, PeerCodec) \in Down
      BY SaidDown DEF Said
    <3> QED BY <3>1, SaidLines DEF Said
  <2>2. CASE PeerSuccess \/ PeerFinish \/ PeerReconfigure
    <3>1. PICK name \in Switches : Sends(name, "")
      BY <2>2 DEF PeerSuccess, PeerFinish, PeerReconfigure, Switches
    <3>2. Frame(name, "", PeerCodec) \in Down
      BY SaidDown DEF Args
    <3>3. name # "store_cookie" /\ name # "cookie_request"
      BY DEF Switches
    <3> QED BY <3>1, <3>2, <3>3, SaidLines
  <2>3. CASE PeerReads
    <3>1. UNCHANGED <<options, conn, toClient>> /\ toServer # <<>> /\ toServer' = Tail(toServer)
      BY <2>3 DEF PeerReads
    <3>2. toServer' \in Seq(Up)
      BY <3>1, Tailing DEF Typed
    <3> QED BY <3>1, <3>2 DEF Typed, Lines
  <2> QED BY <1>3, <2>1, <2>2, <2>3 DEF Peer, PeerSays
<1>4. CASE UserChannels \/ UserCookies
  BY <1>4, UserQuiet, QuietLines
<1>5. CASE UNCHANGED vars
  BY <1>5 DEF vars, baseVars, Typed, Lines
<1> QED BY <1>1, <1>2, <1>3, <1>4, <1>5 DEF Next

(* The Map of a client, and that a transfer adds. *)
LEMMA NextMaps ==
    ASSUME IInv, [Next]_vars
    PROVE  Maps'
<1> USE DEF IInv
<1> DEFINE M == [Keys -> Values \cup {"none"}]
<1>1. maps \in Seq(M) /\ Len(maps) >= 1
  BY DEF Typed
<1>2. maps[1] \in M /\ cookies = maps[1]
  BY <1>1 DEF cookies
<1>3. ASSUME NEW m \in M, maps' = [maps EXCEPT ![1] = m]
      PROVE  Maps'
  BY <1>1, <1>3 DEF Maps
<1>4. CASE maps' = maps
  BY <1>1, <1>4 DEF Maps
<1>5. ASSUME NEW k, NEW v \in Values, maps' = [maps EXCEPT ![1][k] = v]
      PROVE  Maps'
  <2>1. [maps[1] EXCEPT ![k] = v] \in M
    BY <1>2
  <2> QED BY <1>3, <1>5, <2>1
<1>6. CASE maps' = Append(maps, cookies)
  BY <1>1, <1>2, <1>6, Appending DEF Maps
<1>7. CASE Listeners
  <2>1. CASE OnStoreCookie
    <3>1. toClient[1].name = "store_cookie" /\ Arg = toClient[1].arg /\ 1 \in 1..Len(toClient)
      BY <2>1, HeadOf DEF OnStoreCookie, Arg
    <3>2. Arg[2] \in Values
      BY <3>1 DEF Typed
    <3>3. maps' = maps \/ maps' = [maps EXCEPT ![1][Arg[1]] = Arg[2]]
      BY <2>1 DEF OnStoreCookie
    <3> QED BY <1>4, <1>5, <3>2, <3>3
  <2>2. CASE OnTransfer
    BY <1>4, <1>6, <2>2 DEF OnTransfer
  <2>3. CASE OnCookieRequest \/ UNCHANGED cookieVars
    BY <1>4, <2>3 DEF OnCookieRequest, cookieVars
  <2> QED BY <1>7, <2>1, <2>2, <2>3 DEF Listeners, CookiesNext
<1>8. CASE SocketEnds
  <2>1. [k \in Keys |-> "none"] \in M
    OBVIOUS
  <2> QED BY <1>3, <1>4, <1>8, <2>1 DEF SocketEnds, Ended
<1>9. CASE UserCookies
  BY <1>5, <1>9 DEF UserCookies, UserSetsCookie
<1>10. CASE Peer \/ UserChannels \/ UNCHANGED vars
  <2>1. maps' = maps
    BY <1>10 DEF Peer, UserChannels, vars, cookieVars, PeerSuccess, PeerAsks, PeerFinish,
                 PeerLogin, PeerReconfigure, PeerPings, PeerPluginRequest, PeerRequestsCookie,
                 PeerRequests, PeerTells, PeerReads, Sends
  <2> QED BY <1>4, <2>1
<1> QED BY <1>7, <1>8, <1>9, <1>10 DEF Next

LEMMA NextTyped ==
    ASSUME IInv, [Next]_vars
    PROVE  Typed'
BY NextLines, NextMaps DEF Lines, Maps, Typed

-----------------------------------------------------------------------------
(* Listeners and questions *)

LEMMA EnterStage ==
    ASSUME Stage, state # "configuration", options.config, entry \in Nat, NEW ready \in BOOLEAN,
           Enter(ready), options' = options, joined' = joined, restarts',
           ready <=> entry = 0, joined = IF entry = 0 THEN 0 ELSE 1
    PROVE  /\ Stage'
           /\ handlers' = Handlers(entry + 1, ready)
           /\ \A name \in Asks : HandlerOf(name)' \in handlers'
<1>1. /\ entry' = entry + 1 /\ current' = entry + 1 /\ state' = "configuration"
      /\ handlers' = Cleared \cup Handlers(entry + 1, ready)
  BY DEF Enter
<1>2. handlers' = Handlers(entry + 1, ready)
  BY <1>1 DEF Stage, Cleared
<1>3. (entry' = 1) = ready
  BY <1>1
<1>4. \A name \in Asks \cup {"finish_configuration"} : HandlerOf(name)' \in handlers'
  BY <1>1, <1>2, <1>3 DEF HandlerOf, Handlers
<1>5. joined' = IF entry' = 1 THEN 0 ELSE 1
  BY <1>1
<1>6. handlers' = Handlers(entry', entry' = 1)
  BY <1>1, <1>2, <1>3
<1>7. HandlerOf("finish_configuration")' \in handlers'
  BY <1>4
<1> QED BY <1>1, <1>2, <1>4, <1>5, <1>6, <1>7 DEF Stage

(* Switching, no question is under way. *)
LEMMA NoQuestions ==
    ASSUME Frames, Questions, Switching, toClient' = <<>>, UNCHANGED peer,
           state' = "configuration" => \A name \in Asks : HandlerOf(name)' \in handlers'
    PROVE  Questions'
<1>1. \A i \in 1..Len(toClient') : FALSE
  OBVIOUS
<1> QED BY <1>1 DEF Questions

(* A game has no listeners of a configuration. *)
LEMMA StageStays ==
    ASSUME Stage, UNCHANGED <<options, state, entry, current, restarts, joined, handlers>>
    PROVE  Stage' /\ \A name : HandlerOf(name)' = HandlerOf(name)
BY DEF Stage, HandlerOf

LEMMA QuestionsTail ==
    ASSUME Typed, Questions, toClient # <<>>, toClient' = Tail(toClient),
           UNCHANGED <<state, entry, peer, asked>>,
           \/ handlers' = handlers
           \/ /\ Head(toClient).name \in Asks
              /\ Head(toClient).name \in asked /\ peer \in {"configuration", "finishing"}
              /\ handlers' = handlers \ {HandlerOf(Head(toClient).name)}
    PROVE  Questions'
<1> SUFFICES ASSUME NEW name \in Asks
             PROVE  /\ \A i \in 1..Len(toClient') : toClient'[i].name = name =>
                           peer \in {"configuration", "finishing"} /\ name \in asked
                           /\ HandlerOf(name) \in handlers'
                    /\ \A i, j \in 1..Len(toClient') :
                           toClient'[i].name = name /\ toClient'[j].name = name => i = j
                    /\ state = "configuration"
                       /\ (peer \in {"waiting", "leaving"} \/ name \notin asked) =>
                           HandlerOf(name) \in handlers'
  BY DEF Questions, HandlerOf
<1>1. /\ Len(toClient) \in Nat /\ Head(toClient) = toClient[1] /\ 1 \in 1..Len(toClient)
      /\ \A i \in 1..Len(toClient') :
             i + 1 \in 2..Len(toClient) /\ i + 1 \in 1..Len(toClient)
             /\ toClient'[i] = toClient[i + 1]
  BY Tailing DEF Typed
<1>2. \A m, n : HandlerOf(m) = HandlerOf(n) => m = n
  BY DEF HandlerOf
<1>3. \A i \in 1..Len(toClient') : toClient'[i].name = name =>
          peer \in {"configuration", "finishing"} /\ name \in asked
          /\ HandlerOf(name) \in handlers /\ name # Head(toClient).name
  <2> SUFFICES ASSUME NEW i \in 1..Len(toClient'), toClient'[i].name = name
               PROVE  /\ peer \in {"configuration", "finishing"} /\ name \in asked
                      /\ HandlerOf(name) \in handlers /\ name # Head(toClient).name
    OBVIOUS
  <2>1. i + 1 \in 1..Len(toClient) /\ i + 1 # 1 /\ toClient[i + 1].name = name
    BY <1>1
  <2> QED BY <1>1, <2>1 DEF Questions
<1>4. \A i, j \in 1..Len(toClient') :
          toClient'[i].name = name /\ toClient'[j].name = name => i = j
  <2> SUFFICES ASSUME NEW i \in 1..Len(toClient'), NEW j \in 1..Len(toClient'),
                      toClient'[i].name = name, toClient'[j].name = name
               PROVE  i = j
    OBVIOUS
  <2>1. i + 1 = j + 1
    BY <1>1 DEF Questions
  <2> QED BY <2>1
<1>5. state = "configuration" /\ (peer \in {"waiting", "leaving"} \/ name \notin asked) =>
          HandlerOf(name) \in handlers'
  BY <1>2 DEF Questions
<1> QED BY <1>2, <1>3, <1>4, <1>5

LEMMA QuestionsAppend ==
    ASSUME Typed, Frames, Questions, NEW name, NEW arg, Said(name, arg),
           Frame(name, arg, PeerCodec) \in Down, UNCHANGED <<entry, handlers>>
    PROVE  Questions'
<1> DEFINE f == Frame(name, arg, PeerCodec)
<1>1. /\ UNCHANGED <<state, peer>> /\ toClient' = Append(toClient, f)
      /\ f.name = name /\ f \in Down
  BY DEF Said, Sends, Frame
<1> HIDE DEF f
<1>2. /\ Len(toClient) \in Nat /\ Len(toClient') = Len(toClient) + 1
      /\ \A i \in 1..Len(toClient) : toClient'[i] = toClient[i]
      /\ toClient'[Len(toClient) + 1] = f
  <2>1. toClient \in Seq(Down)
    BY DEF Typed
  <2> QED BY ONLY <1>1, <2>1, Appending
<1>3. \A i \in 1..Len(toClient') : i \in 1..Len(toClient) \/ i = Len(toClient) + 1
  BY ONLY <1>2
<1>4. name \in Asks =>
          peer = "configuration" /\ state = "configuration" /\ name \notin asked
  BY DEF Said, Frames, Together, Behind, Ahead, PeerCodec
<1>5. asked' = IF name \in Asks THEN asked \cup {name} ELSE asked
  BY DEF Said
<1> SUFFICES ASSUME NEW n \in Asks
             PROVE  /\ \A i \in 1..Len(toClient') : toClient'[i].name = n =>
                           peer \in {"configuration", "finishing"} /\ n \in asked'
                           /\ HandlerOf(n) \in handlers
                    /\ \A i, j \in 1..Len(toClient') :
                           toClient'[i].name = n /\ toClient'[j].name = n => i = j
                    /\ state = "configuration"
                       /\ (peer \in {"waiting", "leaving"} \/ n \notin asked') =>
                           HandlerOf(n) \in handlers
  BY <1>1 DEF Questions, HandlerOf
<1>6. n = name => /\ HandlerOf(n) \in handlers
                  /\ \A i \in 1..Len(toClient) : toClient[i].name # n
  BY <1>4 DEF Questions
<1>7. \A i \in 1..Len(toClient) : toClient[i].name = n =>
          peer \in {"configuration", "finishing"} /\ n \in asked /\ HandlerOf(n) \in handlers
  BY DEF Questions
<1>8. \A i, j \in 1..Len(toClient) : toClient[i].name = n /\ toClient[j].name = n => i = j
  BY DEF Questions
<1>9. state = "configuration" /\ (peer \in {"waiting", "leaving"} \/ n \notin asked) =>
          HandlerOf(n) \in handlers
  BY DEF Questions
<1>10. \A i \in 1..Len(toClient') : toClient'[i].name = n =>
           peer \in {"configuration", "finishing"} /\ n \in asked' /\ HandlerOf(n) \in handlers
  BY <1>1, <1>2, <1>3, <1>4, <1>5, <1>6, <1>7
<1>11. \A i, j \in 1..Len(toClient') :
           toClient'[i].name = n /\ toClient'[j].name = n => i = j
  BY <1>1, <1>2, <1>3, <1>6, <1>8
<1> QED BY <1>5, <1>9, <1>10, <1>11

(* What asks for a switch is no question. *)
LEMMA QuestionsSwitch ==
    ASSUME Typed, Questions, NEW name \in Switches, Sends(name, ""),
           Frame(name, "", PeerCodec) \in Down, asked' = asked,
           \/ peer = "configuration" /\ peer' = "finishing"
           \/ peer \notin {"configuration", "finishing"} /\ state # "configuration"
    PROVE  Questions'
<1> DEFINE f == Frame(name, "", PeerCodec)
<1>1. /\ UNCHANGED <<state, configurationVars>> /\ toClient' = Append(toClient, f)
      /\ f.name = name /\ f \in Down
  BY DEF Sends, Frame
<1> HIDE DEF f
<1>2. UNCHANGED <<state, entry, handlers>>
  BY <1>1 DEF configurationVars
<1>3. /\ Len(toClient) \in Nat /\ Len(toClient') = Len(toClient) + 1
      /\ \A i \in 1..Len(toClient) : toClient'[i] = toClient[i]
      /\ toClient'[Len(toClient) + 1] = f
  <2>1. toClient \in Seq(Down)
    BY DEF Typed
  <2> QED BY ONLY <1>1, <2>1, Appending
<1>4. \A i \in 1..Len(toClient') : i \in 1..Len(toClient) \/ i = Len(toClient) + 1
  BY ONLY <1>3
<1>5. name \notin Asks
  BY DEF Switches, Asks
<1>6. \A n \in Asks, i \in 1..Len(toClient') : toClient'[i].name = n =>
          i \in 1..Len(toClient) /\ toClient[i].name = n
  BY <1>1, <1>3, <1>4, <1>5
<1>7. ASSUME NEW n \in Asks
      PROVE  /\ \A i \in 1..Len(toClient') : toClient'[i].name = n =>
                    peer' \in {"configuration", "finishing"} /\ n \in asked
                    /\ HandlerOf(n) \in handlers
             /\ \A i, j \in 1..Len(toClient') :
                    toClient'[i].name = n /\ toClient'[j].name = n => i = j
             /\ state = "configuration" /\ (peer' \in {"waiting", "leaving"} \/ n \notin asked) =>
                    HandlerOf(n) \in handlers
  <2>1. \A i \in 1..Len(toClient) : toClient[i].name = n =>
            peer \in {"configuration", "finishing"} /\ n \in asked /\ HandlerOf(n) \in handlers
    BY DEF Questions
  <2>2. \A i, j \in 1..Len(toClient) : toClient[i].name = n /\ toClient[j].name = n => i = j
    BY DEF Questions
  <2>3. state = "configuration" /\ n \notin asked => HandlerOf(n) \in handlers
    BY DEF Questions
  <2>4. \A i \in 1..Len(toClient') : toClient'[i].name = n =>
            peer' \in {"configuration", "finishing"} /\ n \in asked
            /\ HandlerOf(n) \in handlers
    BY <1>6, <2>1
  <2>5. \A i, j \in 1..Len(toClient') :
            toClient'[i].name = n /\ toClient'[j].name = n => i = j
    BY <1>6, <2>2
  <2> QED BY <2>3, <2>4, <2>5
<1>8. \A n : HandlerOf(n)' = HandlerOf(n)
  BY <1>2 DEF HandlerOf
<1> QED BY <1>2, <1>7, <1>8 DEF Questions

LEMMA PeerListens ==
    ASSUME IInv, Peer
    PROVE  Stage' /\ Questions'
<1> USE DEF IInv
<1>1. CASE PeerSays
  <2> PICK name, arg : Said(name, arg)
    BY <1>1, Saying
  <2>1. UNCHANGED <<options, state, configurationVars>>
    BY DEF Said, Sends
  <2>2. Frame(name, arg, PeerCodec) \in Down
    BY SaidDown DEF Said
  <2> QED BY <2>1, <2>2, StageStays, QuestionsAppend DEF configurationVars
<1>2. CASE PeerSuccess \/ PeerFinish \/ PeerReconfigure
  <2>1. UNCHANGED <<options, state, configurationVars, asked>>
    BY <1>2 DEF PeerSuccess, PeerFinish, PeerReconfigure, Sends
  <2>2. PICK name \in Switches : Sends(name, "")
    BY <1>2 DEF PeerSuccess, PeerFinish, PeerReconfigure, Switches
  <2>3. Frame(name, "", PeerCodec) \in Down
    BY SaidDown DEF Args
  <2>4. \/ peer = "configuration" /\ peer' = "finishing"
        \/ peer \notin {"configuration", "finishing"} /\ state # "configuration"
    BY <1>2 DEF PeerSuccess, PeerFinish, PeerReconfigure, Frames, Together, Behind, Ahead,
                PeerCodec
  <2> QED BY <2>1, <2>2, <2>3, <2>4, StageStays, QuestionsSwitch DEF configurationVars
<1>3. CASE PeerReads
  <2>1. /\ UNCHANGED <<options, state, toClient, configurationVars>>
        /\ asked' = IF peer' = peer THEN asked ELSE {}
    BY <1>3 DEF PeerReads
  <2>2. \A n : HandlerOf(n)' = HandlerOf(n)
    BY <2>1 DEF HandlerOf, configurationVars
  <2>3. Stage'
    BY <2>1, StageStays DEF configurationVars
  <2>4. CASE peer' = peer
    BY <2>1, <2>2, <2>3, <2>4 DEF Questions, configurationVars
  <2>5. CASE peer' # peer
    <3>1. Ahead /\ toClient = <<>> /\ peer' \in {"configuration", "play"} /\ asked' = {}
      BY <1>3, <2>1, <2>5, ReadsFrames
    <3>2. \A n \in Asks : state = "configuration" => HandlerOf(n) \in handlers
      BY <3>1 DEF Ahead, Questions
    <3>3. \A i \in 1..Len(toClient') : FALSE
      BY <2>1, <3>1
    <3>4. Questions'
      BY <2>1, <2>2, <3>2, <3>3 DEF Questions, configurationVars
    <3> QED BY <2>3, <3>4
  <2> QED BY <2>4, <2>5
<1> QED BY <1>1, <1>2, <1>3 DEF Peer, PeerSays

LEMMA SuccessListens ==
    ASSUME IInv, OnSuccess, UNCHANGED <<peer, asked>>
    PROVE  Stage' /\ Questions'
<1> USE DEF IInv
<1>1. CASE options.config
  <2>1. Together /\ Switching /\ toClient' = <<>> /\ state = "login"
    BY <1>1, SuccessFrames
  <2>2. Enter(TRUE) /\ restarts' = TRUE /\ joined' = joined /\ options' = options
    BY <1>1 DEF OnSuccess
  <2>3. entry = 0 /\ joined = 0
    BY <2>1 DEF Stage
  <2>4. Stage' /\ \A name \in Asks : HandlerOf(name)' \in handlers'
    BY <1>1, <2>1, <2>2, <2>3, EnterStage
  <2> QED BY <2>1, <2>4, NoQuestions
<1>2. CASE ~options.config
  <2>1. /\ Parses("success") /\ state' = "play" /\ joined' = joined + 1
        /\ UNCHANGED <<options, entry, current, handlers, restarts>>
    BY <1>2 DEF OnSuccess, OnReady
  <2>2. Behind
    BY <1>2, SuccessFrames
  <2>3. Stage'
    BY <1>2, <2>1, <2>2 DEF Stage, Behind
  <2>4. \A i \in 1..Len(toClient') : toClient'[i].name \notin Asks
    <3>1. \A i \in 1..Len(toClient) : toClient[i].name \notin Asks
      BY <2>2 DEF Questions, Behind
    <3> QED BY <2>1, <3>1, HeadOf
  <2>5. Questions'
    BY <2>1, <2>4 DEF Questions
  <2> QED BY <2>3, <2>5
<1> QED BY <1>1, <1>2

LEMMA NextListens ==
    ASSUME IInv, [Next]_vars
    PROVE  Stage' /\ Questions'
<1> USE DEF IInv
<1>1. CASE Listeners
  <2>1. UNCHANGED <<peer, asked>>
    BY <1>1 DEF Listeners, peerVars
  <2>2. CASE OnSuccess
    BY <2>1, <2>2, SuccessListens
  <2>3. CASE OnStartConfiguration
    <3>1. /\ Together /\ Switching /\ toClient' = <<>> /\ options.config
          /\ state = "play" /\ Enter(FALSE)
      BY <2>1, <2>3, StartFrames
    <3>2. UNCHANGED <<options, restarts, joined>>
      BY <2>3 DEF OnStartConfiguration
    <3>3. restarts /\ entry >= 1 /\ entry \in Nat /\ joined = 1 /\ entry # 0
      BY <3>1 DEF Stage
    <3>4. Stage' /\ \A name \in Asks : HandlerOf(name)' \in handlers'
      BY <3>1, <3>2, <3>3, EnterStage
    <3> QED BY <2>1, <3>1, <3>4, NoQuestions
  <2>4. CASE OnFinishConfiguration
    <3>1. /\ Together /\ Switching /\ toClient' = <<>>
          /\ state = "configuration" /\ state' = "play"
          /\ handlers' = {} /\ current' = 0 /\ joined' = 1
      BY <2>1, <2>4, FinishFrames
    <3>2. UNCHANGED <<options, entry, restarts>>
      BY <2>4 DEF OnFinishConfiguration
    <3>3. Stage'
      BY <3>1, <3>2 DEF Stage
    <3> QED BY <2>1, <3>1, <3>3, NoQuestions
  <2>5. ASSUME NEW name \in Asks, OnAsk(name) PROVE Stage' /\ Questions'
    <3>1. /\ state = "configuration" /\ handlers' = handlers \ {HandlerOf(name)}
          /\ peer \in {"configuration", "finishing"} /\ name \in asked
      BY <2>1, <2>5, AskEffect
    <3>2. /\ Parses(name)
          /\ UNCHANGED <<options, state, entry, current, restarts, joined>>
      BY <2>5 DEF OnAsk
    <3>3. Stage'
      <4>1. HandlerOf("finish_configuration") # HandlerOf(name)
        BY DEF HandlerOf, Asks
      <4>2. HandlerOf("finish_configuration")' = HandlerOf("finish_configuration")
        BY <3>2 DEF HandlerOf
      <4> QED BY <3>1, <3>2, <4>1, <4>2 DEF Stage
    <3>4. Questions'
      BY <2>1, <3>1, <3>2, HeadOf, QuestionsTail
    <3> QED BY <3>3, <3>4
  <2>6. CASE OnPing \/ OnLogin
    <3>1. /\ UNCHANGED <<options, state, entry, current, restarts, joined, handlers>>
          /\ toClient # <<>> /\ toClient' = Tail(toClient)
      BY <2>6 DEF OnPing, OnLogin, configurationVars, Parses
    <3> QED BY <2>1, <3>1, StageStays, QuestionsTail
  <2>7. CASE (CookiesNext \/ ChannelsNext) /\ UNCHANGED configurationVars
    <3>1. UNCHANGED <<options, state>> /\ toClient # <<>> /\ toClient' = Tail(toClient)
      BY <2>7 DEF CookiesNext, ChannelsNext, OnCookieRequest, OnStoreCookie, OnTransfer,
                  OnCustomPayload, OnLoginPluginRequest, Parses
    <3> QED BY <2>1, <2>7, <3>1, StageStays, QuestionsTail DEF configurationVars
  <2> QED BY <1>1, <2>2, <2>3, <2>4, <2>5, <2>6, <2>7 DEF Listeners, ConfigurationNext
<1>2. CASE Peer
  BY <1>2, PeerListens
<1>3. CASE SocketEnds \/ UserChannels \/ UserCookies \/ UNCHANGED vars
  <2>1. UNCHANGED <<options, state, configurationVars, toClient, peer, asked>>
    <3>1. CASE SocketEnds
      BY <3>1 DEF SocketEnds, Ended, peerVars
    <3>2. CASE UserChannels
      BY <3>2, ChannelsWrite DEF UserChannels
    <3>3. CASE UserCookies
      BY <3>3 DEF UserCookies, UserSetsCookie, baseVars
    <3>4. CASE UNCHANGED vars
      BY <3>4 DEF vars, baseVars, peerVars
    <3> QED BY <1>3, <3>1, <3>2, <3>3, <3>4
  <2>2. Stage' /\ \A name : HandlerOf(name)' = HandlerOf(name)
    BY <2>1, StageStays DEF configurationVars
  <2> QED BY <2>1, <2>2 DEF Questions, configurationVars
<1> QED BY <1>1, <1>2, <1>3 DEF Next

-----------------------------------------------------------------------------
(* What is owed *)

Pings == \A i \in 1..Len(toClient) :
             toClient[i].name = "ping" => toClient[i].codec = "configuration"

Lost(a) == IF a = "login_plugin_response" THEN lost ELSE 0

(* Nothing of it changes. *)
LEMMA OwedStays ==
    ASSUME Owed, Pings', UNCHANGED <<owing, lost>>, conn' = "open" => conn = "open",
           \A a \in Answers : /\ Count(toClient, Question(a))' = Count(toClient, Question(a))
                              /\ Count(toServer, a)' = Count(toServer, a)
    PROVE  Owed'
BY DEF Owed, Due, Pings

LEMMA PingsTail ==
    ASSUME Typed, Owed, toClient # <<>>, toClient' = Tail(toClient)
    PROVE  Pings'
<1>1. \A i \in 1..Len(toClient') :
          i + 1 \in 1..Len(toClient) /\ toClient'[i] = toClient[i + 1]
  BY Tailing DEF Typed
<1> QED BY <1>1 DEF Owed, Pings

LEMMA DueType ==
    ASSUME Typed, NEW a
    PROVE  Count(toClient, Question(a)) \in Nat /\ Count(toServer, a) \in Nat
BY CountType DEF Typed

(* No answer is written. *)
LEMMA WritesCount ==
    ASSUME Typed, NEW f \in Up, f.name \notin Answers,
           toServer' = (IF conn = "open" THEN Append(toServer, f) ELSE toServer)
    PROVE  \A a \in Answers : Count(toServer, a)' = Count(toServer, a)
<1> SUFFICES ASSUME NEW a \in Answers PROVE Count(toServer', a) = Count(toServer, a)
  BY DEF Count
<1>1. Count(Append(toServer, f), a) = Count(toServer, a) + 0
  BY CountAppend DEF Typed
<1>2. Count(toServer, a) \in Nat
  BY DueType
<1> QED BY <1>1, <1>2

(* What is read is no question. *)
LEMMA ReadsCount ==
    ASSUME Typed, toClient # <<>>, toClient' = Tail(toClient),
           \A a \in Answers : Head(toClient).name # Question(a)
    PROVE  \A a \in Answers : Count(toClient, Question(a))' = Count(toClient, Question(a))
<1> SUFFICES ASSUME NEW a \in Answers
             PROVE  Count(toClient', Question(a)) = Count(toClient, Question(a))
  BY DEF Count, Question
<1>1. Count(toClient, Question(a)) = Count(Tail(toClient), Question(a)) + 0
  BY CountTail DEF Typed
<1>2. Tail(toClient) \in Seq(Down)
  BY Tailing DEF Typed
<1>3. Count(Tail(toClient), Question(a)) \in Nat
  BY <1>2, CountType
<1> QED BY <1>1, <1>3

(***************************************************************************)
(* A question is read, and answered, or lost, or the connection ends; an   *)
(* answer is dropped where the connection is ending already.               *)
(***************************************************************************)
LEMMA AnswersOnce ==
    ASSUME Typed, Owed, NEW b \in Answers, Parses(Question(b)), owing' = owing,
           \/ /\ \E f \in Up : f.name = b /\ Write(<<f>>)
              /\ conn' = conn /\ lost' = lost
           \/ /\ toServer' = toServer /\ conn' = conn
              /\ b = "login_plugin_response" /\ lost' = lost + 1
           \/ toServer' = toServer /\ conn' # "open" /\ lost' = lost
    PROVE  Owed'
<1>1. /\ toClient # <<>> /\ toClient' = Tail(toClient) /\ toClient' \in Seq(Down)
      /\ Head(toClient).name = Question(b)
  BY HeadOf
<1>2. Pings'
  BY <1>1, PingsTail
<1>3. \A a \in Answers : Question(a) = Question(b) => a = b
  BY DEF Question, Answers
<1>4. ASSUME NEW a \in Answers
      PROVE  Count(toClient, Question(a)) =
                 Count(toClient', Question(a)) + (IF a = b THEN 1 ELSE 0)
  BY <1>1, <1>3, CountTail DEF Typed
<1>5. \A a \in Answers : /\ Count(toClient, Question(a)) \in Nat
                         /\ Count(toServer, a) \in Nat
                         /\ Count(toClient', Question(a)) \in Nat
  BY <1>1, DueType, CountType
<1>6. \A a \in Answers : /\ Due(a) = Count(toClient, Question(a)) + Count(toServer, a) + Lost(a)
                         /\ Due(a)' = Count(toClient', Question(a)) + Count(toServer', a) + Lost(a)'
  BY DEF Due, Lost, Question
<1>7. lost \in Nat /\ owing \in [Answers -> Int]
      /\ \A a \in Answers : owing[a] >= Due(a) /\ (conn = "open" => owing[a] = Due(a))
  BY DEF Owed
<1>8. CASE toServer' # toServer \/ (conn' = "open" /\ lost' = lost)
  <2> PICK f \in Up : f.name = b /\ Write(<<f>>)
    <3>1. lost + 1 # lost
      BY <1>7
    <3> QED BY <1>8, <3>1
  <2>1. toServer' = IF conn = "open" THEN Append(toServer, f) ELSE toServer
    BY WriteOne
  <2>2. ASSUME NEW a \in Answers
        PROVE  Count(toServer', a) =
                   Count(toServer, a) + (IF a = b /\ conn = "open" THEN 1 ELSE 0)
    <3>1. Count(Append(toServer, f), a) = Count(toServer, a) + (IF b = a THEN 1 ELSE 0)
      BY CountAppend DEF Typed
    <3> QED BY <1>5, <2>1, <3>1
  <2>3. conn' = conn /\ lost' = lost
    BY <1>7, <1>8
  <2>4. ASSUME NEW a \in Answers
        PROVE  owing[a] >= Due(a)' /\ (conn = "open" => owing[a] = Due(a)')
    <3>1. Lost(a)' = Lost(a) /\ Lost(a) \in Nat
      BY <1>7, <2>3 DEF Lost
    <3>2. owing[a] \in Int
      BY <1>7
    <3> QED BY <1>4, <1>5, <1>6, <1>7, <2>2, <3>1, <3>2
  <2> QED BY <1>2, <1>7, <2>3, <2>4 DEF Owed, Pings
<1>9. CASE toServer' = toServer /\ conn' = conn
           /\ b = "login_plugin_response" /\ lost' = lost + 1
  <2>1. ASSUME NEW a \in Answers
        PROVE  owing[a] >= Due(a)' /\ (conn = "open" => owing[a] = Due(a)')
    <3>1. /\ Lost(a)' = Lost(a) + (IF a = b THEN 1 ELSE 0) /\ Lost(a) \in Nat
      BY <1>7, <1>9 DEF Lost
    <3>2. owing[a] \in Int /\ Count(toServer', a) = Count(toServer, a)
      BY <1>7, <1>9
    <3> QED BY <1>4, <1>5, <1>6, <1>7, <3>1, <3>2
  <2> QED BY <1>2, <1>7, <1>9, <2>1 DEF Owed, Pings
<1>10. CASE toServer' = toServer /\ conn' # "open" /\ lost' = lost
  <2>1. ASSUME NEW a \in Answers
        PROVE  owing[a] >= Due(a)'
    <3>1. Lost(a)' = Lost(a) /\ Lost(a) \in Nat
      BY <1>7, <1>10 DEF Lost
    <3>2. owing[a] \in Int /\ Count(toServer', a) = Count(toServer, a)
      BY <1>7, <1>10
    <3> QED BY <1>4, <1>5, <1>6, <1>7, <3>1, <3>2
  <2> QED BY <1>2, <1>7, <1>10, <2>1 DEF Owed, Pings
<1> QED BY <1>8, <1>9, <1>10

(* The server asks, and waits for one more answer. *)
LEMMA ExpectsMore ==
    ASSUME Typed, Owed, NEW b \in Answers, NEW arg, Sends(Question(b), arg),
           Frame(Question(b), arg, PeerCodec) \in Down, Expects(b),
           Question(b) = "ping" => peer = "configuration"
    PROVE  Owed'
<1> DEFINE f == Frame(Question(b), arg, PeerCodec)
<1>1. /\ UNCHANGED <<conn, toServer, channelVars>> /\ toClient' = Append(toClient, f)
      /\ f.name = Question(b) /\ f.codec = PeerCodec /\ f \in Down
  BY DEF Sends, Frame
<1> HIDE DEF f
<1>2. /\ lost' = lost /\ lost \in Nat /\ owing \in [Answers -> Int]
      /\ owing' = [owing EXCEPT ![b] = owing[b] + 1]
      /\ \A a \in Answers : owing[a] >= Due(a) /\ (conn = "open" => owing[a] = Due(a))
  BY <1>1 DEF Expects, Owed, channelVars
<1>3. Pings'
  <2>1. toClient \in Seq(Down)
    BY DEF Typed
  <2>2. /\ Len(toClient') = Len(toClient) + 1 /\ Len(toClient) \in Nat
        /\ \A i \in 1..Len(toClient) : toClient'[i] = toClient[i]
        /\ toClient'[Len(toClient) + 1] = f
    BY ONLY <1>1, <2>1, Appending
  <2>3. \A i \in 1..Len(toClient') : i \in 1..Len(toClient) \/ i = Len(toClient) + 1
    BY ONLY <2>2
  <2>4. f.name = "ping" => f.codec = "configuration"
    BY <1>1 DEF PeerCodec
  <2> QED BY <2>2, <2>3, <2>4 DEF Owed, Pings
<1>4. \A a \in Answers : Question(a) = Question(b) <=> a = b
  BY DEF Question, Answers
<1>5. ASSUME NEW a \in Answers
      PROVE  Count(toClient', Question(a)) =
                 Count(toClient, Question(a)) + (IF a = b THEN 1 ELSE 0)
  <2>1. Count(Append(toClient, f), Question(a)) =
            Count(toClient, Question(a)) + (IF f.name = Question(a) THEN 1 ELSE 0)
    <3>1. toClient \in Seq(Down)
      BY DEF Typed
    <3> QED BY ONLY <1>1, <3>1, CountAppend
  <2> QED BY <1>1, <1>4, <2>1
<1>6. ASSUME NEW a \in Answers
      PROVE  owing'[a] >= Due(a)' /\ (conn = "open" => owing'[a] = Due(a)')
  <2>1. /\ Due(a) = Count(toClient, Question(a)) + Count(toServer, a) + Lost(a)
        /\ Due(a)' = Count(toClient', Question(a)) + Count(toServer, a) + Lost(a)
    BY <1>1, <1>2 DEF Due, Lost, Question, Count
  <2>2. /\ Count(toClient, Question(a)) \in Nat /\ Count(toServer, a) \in Nat
        /\ Lost(a) \in Nat /\ owing[a] \in Int
    BY <1>2, DueType DEF Lost
  <2>3. owing'[a] = owing[a] + (IF a = b THEN 1 ELSE 0)
    BY <1>2, <2>2
  <2> QED BY <1>2, <1>5, <2>1, <2>2, <2>3
<1> QED BY <1>1, <1>2, <1>3, <1>6 DEF Owed, Pings

(* The server says what needs no answer. *)
LEMMA ExpectsNothing ==
    ASSUME Typed, Owed, NEW name, NEW arg, Sends(name, arg), owing' = owing,
           Frame(name, arg, PeerCodec) \in Down, \A a \in Answers : name # Question(a)
    PROVE  Owed'
<1> DEFINE f == Frame(name, arg, PeerCodec)
<1>1. /\ UNCHANGED <<conn, toServer, channelVars>> /\ toClient' = Append(toClient, f)
      /\ f.name = name /\ f \in Down /\ f.name # "ping"
  <2>1. Question("pong") = "ping" /\ "pong" \in Answers
    BY DEF Question, Answers
  <2> QED BY <2>1 DEF Sends, Frame
<1> HIDE DEF f
<1>2. toClient \in Seq(Down)
  BY DEF Typed
<1>3. Pings'
  <2>1. /\ Len(toClient') = Len(toClient) + 1 /\ Len(toClient) \in Nat
        /\ \A i \in 1..Len(toClient) : toClient'[i] = toClient[i]
        /\ toClient'[Len(toClient) + 1] = f
    BY ONLY <1>1, <1>2, Appending
  <2>2. \A i \in 1..Len(toClient') : i \in 1..Len(toClient) \/ i = Len(toClient) + 1
    BY ONLY <2>1
  <2> QED BY <1>1, <2>1, <2>2 DEF Owed, Pings
<1>4. ASSUME NEW a \in Answers
      PROVE  Count(toClient', Question(a)) = Count(toClient, Question(a))
  <2>1. Count(Append(toClient, f), Question(a)) =
            Count(toClient, Question(a)) + (IF f.name = Question(a) THEN 1 ELSE 0)
    BY ONLY <1>1, <1>2, CountAppend
  <2>2. Count(toClient, Question(a)) \in Nat
    BY DueType
  <2> QED BY <1>1, <2>1, <2>2
<1>5. \A a \in Answers : /\ Count(toClient, Question(a))' = Count(toClient, Question(a))
                         /\ Count(toServer, a)' = Count(toServer, a)
  BY <1>1, <1>4 DEF Count, Question
<1> QED BY <1>1, <1>3, <1>5, OwedStays DEF channelVars

(* The server reads an answer, or something else. *)
LEMMA ReadsOwed ==
    ASSUME Typed, Owed, PeerReads
    PROVE  Owed'
<1> DEFINE name == Head(toServer).name
<1>1. /\ UNCHANGED <<conn, toClient, channelVars>>
      /\ toServer # <<>> /\ toServer' = Tail(toServer)
      /\ owing' = IF name \in Answers THEN [owing EXCEPT ![name] = owing[name] - 1] ELSE owing
  BY DEF PeerReads
<1>2. /\ lost' = lost /\ lost \in Nat /\ owing \in [Answers -> Int]
      /\ \A a \in Answers : owing[a] >= Due(a) /\ (conn = "open" => owing[a] = Due(a))
  BY <1>1 DEF Owed, channelVars
<1>3. Pings'
  BY <1>1 DEF Owed, Pings
<1>4. ASSUME NEW a
      PROVE  /\ Count(toServer, a) = Count(toServer', a) + (IF name = a THEN 1 ELSE 0)
             /\ Count(toServer', a) \in Nat
  <2>1. toServer \in Seq(Up) /\ toServer' \in Seq(Up)
    BY <1>1, Tailing DEF Typed
  <2> QED BY ONLY <1>1, <2>1, CountTail, CountType
<1> HIDE DEF name
<1>5. owing' \in [Answers -> Int]
  BY <1>1, <1>2
<1>6. ASSUME NEW a \in Answers
      PROVE  owing'[a] >= Due(a)' /\ (conn = "open" => owing'[a] = Due(a)')
  <2>1. /\ Due(a) = Count(toClient, Question(a)) + Count(toServer, a) + Lost(a)
        /\ Due(a)' = Count(toClient, Question(a)) + Count(toServer', a) + Lost(a)
    BY <1>1, <1>2 DEF Due, Lost, Question, Count
  <2>2. Count(toClient, Question(a)) \in Nat /\ Lost(a) \in Nat /\ owing[a] \in Int
    BY <1>2, DueType DEF Lost
  <2>3. owing'[a] = owing[a] - (IF name = a THEN 1 ELSE 0)
    BY <1>1, <1>2, <2>2
  <2> QED BY <1>2, <1>4, <2>1, <2>2, <2>3
<1> QED BY <1>1, <1>2, <1>3, <1>5, <1>6 DEF Owed, Pings

LEMMA CountSame ==
    ASSUME NEW s \in Seq(Up), NEW f \in Up, f.name \notin Answers
    PROVE  /\ Append(s, f) \in Seq(Up)
           /\ \A a \in Answers : Count(Append(s, f), a) = Count(s, a)
<1>1. Append(s, f) \in Seq(Up)
  OBVIOUS
<1>2. ASSUME NEW a \in Answers PROVE Count(Append(s, f), a) = Count(s, a)
  <2>1. Count(Append(s, f), a) = Count(s, a) + 0
    BY <1>2, CountAppend
  <2>2. Count(s, a) \in Nat
    BY CountType
  <2> QED BY <2>1, <2>2
<1> QED BY <1>1, <1>2

(* Entering a configuration answers no question. *)
LEMMA EnterCount ==
    ASSUME Typed,
           \/ state = "login" /\ Write(<<Packet("login_acknowledged", state)>> \o EnterFrames)
           \/ state = "play" /\ Write(EnterFrames)
    PROVE  \A n \in Answers : Count(toServer', n) = Count(toServer, n)
<1> DEFINE a == Packet("login_acknowledged", "login")
           b == Packet("custom_payload", "configuration")
           c == Packet("settings", "configuration")
           d == Packet("configuration_acknowledged", "play")
<1>1. /\ {a, b, c, d} \subseteq Up
      /\ {a.name, b.name, c.name, d.name} \cap Answers = {}
  BY EnterTypes DEF Packet, Frame, Answers
<1>2. \/ Write(<<a>> \o (<<b>> \o <<c>>))
      \/ Write(<<d>> \o <<c>>)
  BY DEF EnterFrames
<1> HIDE DEF a, b, c, d
<1>3. toServer \in Seq(Up)
  BY DEF Typed
<1>4. \/ toServer' = toServer
      \/ toServer' = Append(Append(Append(toServer, a), b), c)
      \/ toServer' = Append(Append(toServer, d), c)
  BY <1>1, <1>2, WriteTwo, WriteThree
<1>5. \A n \in Answers :
          /\ Count(Append(Append(Append(toServer, a), b), c), n) = Count(toServer, n)
          /\ Count(Append(Append(toServer, d), c), n) = Count(toServer, n)
  <2>1. /\ Append(toServer, a) \in Seq(Up) /\ Append(toServer, d) \in Seq(Up)
        /\ \A n \in Answers : /\ Count(Append(toServer, a), n) = Count(toServer, n)
                               /\ Count(Append(toServer, d), n) = Count(toServer, n)
    BY ONLY <1>1, <1>3, CountSame
  <2> DEFINE sa == Append(toServer, a)
             sd == Append(toServer, d)
  <2>2. sa \in Seq(Up) /\ sd \in Seq(Up)
    BY <2>1
  <2> HIDE DEF sa, sd
  <2>3. /\ Append(sa, b) \in Seq(Up)
        /\ \A n \in Answers : /\ Count(Append(sa, b), n) = Count(sa, n)
                               /\ Count(Append(sd, c), n) = Count(sd, n)
    BY ONLY <1>1, <2>2, CountSame
  <2>4. \A n \in Answers : Count(Append(Append(sa, b), c), n) = Count(Append(sa, b), n)
    BY ONLY <1>1, <2>3, CountSame
  <2> QED BY <2>1, <2>3, <2>4 DEF sa, sd
<1> QED BY <1>4, <1>5

(* What is read is no question, and what is written no answer. *)
LEMMA OwedElse ==
    ASSUME Typed, Owed, UNCHANGED <<owing, lost>>, conn' = "open" => conn = "open",
           \/ toClient' = toClient
           \/ /\ toClient # <<>> /\ toClient' = Tail(toClient)
              /\ \A a \in Answers : Head(toClient).name # Question(a),
           \A a \in Answers : Count(toServer', a) = Count(toServer, a)
    PROVE  Owed'
<1>1. Pings'
  <2>1. CASE toClient' = toClient
    BY <2>1 DEF Owed, Pings
  <2>2. CASE toClient # <<>> /\ toClient' = Tail(toClient)
    BY <2>2, PingsTail
  <2> QED BY <2>1, <2>2
<1>2. \A a \in Answers : Count(toClient, Question(a))' = Count(toClient, Question(a))
  <2>1. CASE toClient' = toClient
    BY <2>1 DEF Count, Question
  <2>2. CASE /\ toClient # <<>> /\ toClient' = Tail(toClient)
             /\ \A a \in Answers : Head(toClient).name # Question(a)
    BY <2>2, ReadsCount
  <2> QED BY <2>1, <2>2
<1>3. \A a \in Answers : Count(toServer, a)' = Count(toServer, a)
  BY DEF Count
<1> QED BY <1>1, <1>2, <1>3, OwedStays

LEMMA NoQuestion ==
    ASSUME NEW name \in Switches \cup {"login", "store_cookie", "transfer", "custom_payload"}
    PROVE  \A a \in Answers : name # Question(a)
BY DEF Question, Answers, Switches

LEMMA ListenersOwed ==
    ASSUME IInv, Listeners
    PROVE  Owed'
<1> USE DEF IInv
<1>1. UNCHANGED <<peer, owing>>
  BY DEF Listeners, peerVars
<1>2. CASE OnSuccess /\ UNCHANGED channelVars
  <2>1. Parses("success") /\ conn' = conn /\ lost' = lost
    BY <1>2 DEF OnSuccess, channelVars
  <2>2. \A n \in Answers : Count(toServer', n) = Count(toServer, n)
    <3>1. CASE options.config
      <4>1. state = "login"
        BY <1>1, <1>2, <3>1, SuccessFrames
      <4>2. Write(<<Packet("login_acknowledged", state)>> \o EnterFrames)
        BY <1>2, <3>1 DEF OnSuccess
      <4> QED BY <4>1, <4>2, EnterCount
    <3>2. CASE ~options.config
      BY <1>2, <3>2 DEF OnSuccess
    <3> QED BY <3>1, <3>2
  <2>3. \A a \in Answers : "success" # Question(a)
    BY NoQuestion DEF Switches
  <2> QED BY <1>1, <2>1, <2>2, <2>3, HeadOf, OwedElse
<1>3. CASE OnStartConfiguration /\ UNCHANGED channelVars
  <2>1. Parses("start_configuration") /\ conn' = conn /\ lost' = lost
    BY <1>3 DEF OnStartConfiguration, channelVars
  <2>2. state = "play" /\ Write(EnterFrames)
    BY <1>1, <1>3, StartFrames
  <2>3. \A n \in Answers : Count(toServer', n) = Count(toServer, n)
    BY <2>2, EnterCount
  <2>4. \A a \in Answers : "start_configuration" # Question(a)
    BY NoQuestion DEF Switches
  <2> QED BY <1>1, <2>1, <2>3, <2>4, HeadOf, OwedElse
<1>4. CASE OnFinishConfiguration /\ UNCHANGED channelVars
  <2> DEFINE f == Packet("finish_configuration", "configuration")
  <2>1. Parses("finish_configuration") /\ conn' = conn /\ lost' = lost
    BY <1>4 DEF OnFinishConfiguration, channelVars
  <2>2. toServer' = IF conn = "open" THEN Append(toServer, f) ELSE toServer
    BY <1>1, <1>4, FinishFrames
  <2>3. f \in Up /\ f.name \notin Answers
    BY EnterTypes DEF Packet, Frame, Answers
  <2>4. toServer \in Seq(Up)
    BY DEF Typed
  <2> HIDE DEF f
  <2>5. \A n \in Answers : Count(toServer', n) = Count(toServer, n)
    BY <2>2, <2>3, <2>4, CountSame
  <2>6. \A a \in Answers : "finish_configuration" # Question(a)
    BY NoQuestion DEF Switches
  <2> QED BY <1>1, <2>1, <2>5, <2>6, HeadOf, OwedElse
<1>5. ASSUME NEW name \in Asks, OnAsk(name), UNCHANGED channelVars PROVE Owed'
  <2> DEFINE f == Packet(Answer(name), state)
  <2>1. Parses(name) /\ conn' = conn /\ lost' = lost
    BY <1>5 DEF OnAsk, channelVars
  <2>2. f \in Up /\ Write(<<f>>)
    BY <1>1, <1>5, AskEffect
  <2>3. f.name = Answer(name) /\ Answer(name) \in Answers /\ Question(Answer(name)) = name
    BY DEF Packet, Frame, Answer, Answers, Asks, Question
  <2> HIDE DEF f
  <2> QED BY <1>1, <2>1, <2>2, <2>3, AnswersOnce
<1>6. CASE OnPing /\ UNCHANGED channelVars
  <2>1. Parses("ping") /\ conn' = conn /\ lost' = lost
    BY <1>6 DEF OnPing, channelVars
  <2>2. state = "configuration"
    <3>1. Head(toClient).codec = state
      BY <2>1, HeadOf, ReadTogether DEF Switches
    <3> QED BY <2>1, <3>1, HeadOf DEF Owed
  <2>3. Write(<<Packet("pong", state)>>)
    BY <1>6, <2>2 DEF OnPing
  <2>4. /\ Packet("pong", state) \in Up /\ Packet("pong", state).name = "pong"
        /\ "pong" \in Answers /\ Question("pong") = "ping"
    BY PacketUp DEF Answers, Question
  <2> QED BY <1>1, <2>1, <2>3, <2>4, AnswersOnce
<1>7. CASE OnLogin /\ UNCHANGED channelVars
  <2>1. /\ Parses("login") /\ conn' = conn /\ lost' = lost
        /\ toServer' = toServer \/ Write(<<Packet("chat_session_update", state)>>)
    BY <1>7 DEF OnLogin, channelVars
  <2>2. /\ Packet("chat_session_update", state) \in Up
        /\ Packet("chat_session_update", state).name \notin Answers
    BY PacketUp DEF Answers
  <2>3. \A n \in Answers : Count(toServer', n) = Count(toServer, n)
    <3>1. toServer \in Seq(Up)
      BY DEF Typed
    <3> QED BY <2>1, <2>2, <3>1, WriteOne, CountSame
  <2>4. \A a \in Answers : "login" # Question(a)
    BY NoQuestion
  <2> QED BY <1>1, <2>1, <2>3, <2>4, HeadOf, OwedElse
<1>8. CASE OnCookieRequest /\ UNCHANGED channelVars
  <2>1. /\ Parses("cookie_request") /\ lost' = lost
        /\ \/ Write(<<Frame("cookie_response", cookies[Arg], state)>>) /\ conn' = conn
           \/ toServer' = toServer /\ conn' = IF conn = "open" THEN "ending" ELSE conn
    BY <1>8 DEF OnCookieRequest, End, channelVars
  <2>2. Arg \in Keys
    BY <2>1, HeadOf DEF Typed, Arg
  <2>3. "cookie_response" \in Answers /\ Question("cookie_response") = "cookie_request"
    BY DEF Answers, Question
  <2> QED BY <1>1, <2>1, <2>2, <2>3, CookieFrame, AnswersOnce
<1>9. CASE (OnStoreCookie \/ OnTransfer) /\ UNCHANGED channelVars
  <2>1. /\ Parses("store_cookie") \/ Parses("transfer")
        /\ toServer' = toServer /\ lost' = lost
        /\ conn' = conn \/ conn' = IF conn = "open" THEN "ending" ELSE conn
    BY <1>9 DEF OnStoreCookie, OnTransfer, End, channelVars
  <2>2. \A a \in Answers : "store_cookie" # Question(a) /\ "transfer" # Question(a)
    BY NoQuestion
  <2> QED BY <1>1, <2>1, <2>2, HeadOf, OwedElse
<1>10. CASE OnCustomPayload
  <2>1. /\ Parses("custom_payload") /\ toServer' = toServer /\ lost' = lost /\ conn' = conn
    BY <1>10 DEF OnCustomPayload
  <2>2. \A a \in Answers : "custom_payload" # Question(a)
    BY NoQuestion
  <2> QED BY <1>1, <2>1, <2>2, HeadOf, OwedElse
<1>11. CASE OnLoginPluginRequest
  <2>1. Parses("login_plugin_request") /\ conn' = conn
    BY <1>11 DEF OnLoginPluginRequest
  <2>2. /\ "login_plugin_response" \in Answers
        /\ Question("login_plugin_response") = "login_plugin_request"
    BY DEF Answers, Question
  <2> QED BY <1>1, <1>11, <2>1, <2>2, PluginEffect, PluginFrame, AnswersOnce
<1> QED
  BY <1>2, <1>3, <1>4, <1>5, <1>6, <1>7, <1>8, <1>9, <1>10, <1>11
     DEF Listeners, ConfigurationNext, CookiesNext, ChannelsNext

LEMMA NextOwed ==
    ASSUME IInv, [Next]_vars
    PROVE  Owed'
<1> USE DEF IInv
<1>1. CASE Listeners
  BY <1>1, ListenersOwed
<1>2. CASE Peer
  <2>1. CASE PeerSays
    <3> PICK name, arg :
            /\ Said(name, arg)
            /\ \/ \E a \in Answers : name = Question(a) /\ Expects(a)
               \/ owing' = owing /\ \A a \in Answers : name # Question(a)
      BY <2>1, Saying
    <3>1. Frame(name, arg, PeerCodec) \in Down /\ Sends(name, arg)
          /\ (name = "ping" => peer = "configuration")
      BY SaidDown DEF Said
    <3>2. ASSUME NEW a \in Answers, name = Question(a), Expects(a) PROVE Owed'
      BY <3>1, <3>2, ExpectsMore
    <3>3. CASE owing' = owing /\ \A a \in Answers : name # Question(a)
      BY <3>1, <3>3, ExpectsNothing
    <3> QED BY <3>2, <3>3
  <2>2. CASE PeerSuccess \/ PeerFinish \/ PeerReconfigure
    <3>1. PICK name \in Switches : Sends(name, "")
      BY <2>2 DEF PeerSuccess, PeerFinish, PeerReconfigure, Switches
    <3>2. Frame(name, "", PeerCodec) \in Down /\ owing' = owing
      BY <2>2, SaidDown DEF Args, PeerSuccess, PeerFinish, PeerReconfigure
    <3> QED BY <3>1, <3>2, NoQuestion, ExpectsNothing
  <2>3. CASE PeerReads
    BY <2>3, ReadsOwed
  <2> QED BY <1>2, <2>1, <2>2, <2>3 DEF Peer, PeerSays
<1>3. CASE UserChannels
  <2>1. /\ UNCHANGED <<conn, toClient, owing>>
        /\ Write(<<Packet("custom_payload", state)>>) \/ Write(<<>>) \/ toServer' = toServer
    BY <1>3, ChannelsWrite DEF UserChannels
  <2>2. lost' = lost
    BY <1>3 DEF UserChannels, RegisterChannel, UnregisterChannel, WriteChannel, channelVars
  <2>3. /\ Packet("custom_payload", state) \in Up
        /\ Packet("custom_payload", state).name \notin Answers
    BY PacketUp DEF Answers
  <2>4. \A n \in Answers : Count(toServer', n) = Count(toServer, n)
    <3>1. toServer \in Seq(Up)
      BY DEF Typed
    <3> QED BY <2>1, <2>3, <3>1, WriteOne, WriteNone, CountSame
  <2> QED BY <2>1, <2>2, <2>4, OwedElse
<1>4. CASE SocketEnds \/ UserCookies \/ UNCHANGED vars
  <2>1. UNCHANGED <<toClient, toServer, owing, lost>> /\ (conn' = "open" => conn = "open")
    BY <1>4 DEF SocketEnds, Ended, UserCookies, UserSetsCookie, vars, baseVars, channelVars,
                peerVars
  <2> QED BY <2>1, OwedElse
<1> QED BY <1>1, <1>2, <1>3, <1>4 DEF Next

-----------------------------------------------------------------------------
(* The invariant *)

LEMMA InitInv == Init => IInv
<1> SUFFICES ASSUME Init PROVE IInv
  OBVIOUS
<1>1. /\ options \in Options /\ state = "login" /\ conn = "open"
      /\ toServer = <<>> /\ toClient = <<>> /\ Len(<<>>) = 0
  BY DEF Init, BaseInit
<1>2. Typed
  <2>1. toClient \in Seq(Down) /\ toServer \in Seq(Up)
    BY <1>1, EmptySeq
  <2>2. \A i \in 1..Len(toClient) : FALSE
    BY <1>1
  <2>3. maps \in Seq([Keys -> Values \cup {"none"}]) /\ Len(maps) >= 1
    <3>1. maps = <<[k \in Keys |-> "none"]>>
      BY DEF Init, CookiesInit
    <3>2. [k \in Keys |-> "none"] \in [Keys -> Values \cup {"none"}]
      OBVIOUS
    <3> QED BY <3>1, <3>2
  <2> QED BY <1>1, <2>1, <2>2, <2>3 DEF Typed
<1>3. Frames
  <2>1. peer = "login" /\ Together /\ ~Behind /\ ~Ahead /\ ~Switching
    BY <1>1 DEF Init, Together, Behind, Ahead, Switching, PeerCodec
  <2>2. \A i \in 1..Len(<<>>) : FALSE
    BY <1>1
  <2> QED BY <1>1, <2>1, <2>2 DEF Frames, DownFrames, UpFrames, LoginOnly
<1>4. Stage
  BY <1>1 DEF Init, ConfigurationInit, Stage
<1>5. \A i \in 1..Len(toClient) : FALSE
  BY <1>1
<1>6. Questions
  BY <1>1, <1>5 DEF Init, Questions
<1>7. Owed
  <2>1. \A n : Count(<<>>, n) = 0
    <3>1. \A n : {i \in DOMAIN <<>> : <<>>[i].name = n} = {}
      BY EmptySeq
    <3> QED BY <3>1, FS_EmptySet DEF Count
  <2>2. lost = 0 /\ owing = [a \in Answers |-> 0]
    BY DEF Init, ChannelsInit
  <2>3. \A a \in Answers : Due(a) = 0
    BY <1>1, <2>1, <2>2 DEF Due
  <2> QED BY <1>5, <2>2, <2>3 DEF Owed
<1> QED BY <1>2, <1>3, <1>4, <1>6, <1>7 DEF IInv

LEMMA NextInv == IInv /\ [Next]_vars => IInv'
BY NextTyped, NextFrames, NextListens, NextOwed DEF IInv

(***************************************************************************)
(* A frame is read in the protocol state it was written in, at both ends   *)
(* and through every switch, for any bounds (client/play.js).              *)
(***************************************************************************)
THEOREM StatesAgree == Spec => []CodecTogether
<1>1. IInv => CodecTogether
  <2> SUFFICES ASSUME IInv PROVE CodecTogether
    OBVIOUS
  <2> USE DEF IInv
  <2>1. ASSUME toServer # <<>> PROVE Head(toServer).codec = PeerCodec
    <3>1. 1 \in 1..Len(toServer) /\ Head(toServer) = toServer[1]
      BY <2>1, Tailing DEF Typed
    <3>2. CASE Together
      BY <3>1, <3>2 DEF Frames, UpFrames, Together
    <3>3. CASE Ahead
      <4> PICK k \in 1..Len(toServer) + 1 : Switched(k)
        BY <3>3 DEF Frames, UpFrames
      <4>1. CASE k = 1
        BY <3>1, <4>1 DEF Switched
      <4>2. CASE k # 1
        <5>1. 1 < k
          BY <3>1, <4>2
        <5> QED BY <3>1, <5>1 DEF Switched
      <4> QED BY <4>1, <4>2
    <3>4. ~Behind
      BY <2>1 DEF Frames, UpFrames
    <3> QED BY <3>2, <3>3, <3>4 DEF Frames
  <2>2. ASSUME toClient # <<>> PROVE Head(toClient).codec = state
    <3>1. 1 \in 1..Len(toClient) /\ Head(toClient) = toClient[1]
      BY <2>2, Tailing DEF Typed
    <3>2. CASE Together
      BY <3>1, <3>2 DEF Frames, DownFrames
    <3>3. CASE Behind
      BY <3>1, <3>3 DEF Frames, DownFrames, Behind
    <3>4. ~Ahead
      BY <2>2 DEF Frames, DownFrames
    <3> QED BY <3>2, <3>3, <3>4 DEF Frames
  <2> QED BY <2>1, <2>2 DEF CodecTogether
<1> QED BY InitInv, NextInv, <1>1, PTL DEF Spec

(***************************************************************************)
(* Every question is answered, and answered once, but for a challenge      *)
(* whose response could not be built; and the game is joined once          *)
(* (client/play.js, client/cookie.js, client/pluginChannels.js).           *)
(***************************************************************************)
THEOREM QuestionsAnswered == Spec => []AnsweredOnce
<1>1. IInv => AnsweredOnce
  <2> SUFFICES ASSUME IInv PROVE AnsweredOnce
    OBVIOUS
  <2> USE DEF IInv
  <2>1. ASSUME NEW a \in Answers
        PROVE  /\ owing[a] >= 0
               /\ toServer = <<>> /\ toClient = <<>> /\ conn = "open" =>
                      owing[a] = IF a = "login_plugin_response" THEN lost ELSE 0
    <3>1. /\ owing[a] \in Int /\ owing[a] >= Due(a) /\ (conn = "open" => owing[a] = Due(a))
          /\ Count(toClient, Question(a)) \in Nat /\ Count(toServer, a) \in Nat
          /\ Lost(a) \in Nat
          /\ Due(a) = Count(toClient, Question(a)) + Count(toServer, a) + Lost(a)
      BY DueType DEF Owed, Due, Lost
    <3>2. \A n : Count(<<>>, n) = 0
      <4>1. \A n : {i \in DOMAIN <<>> : <<>>[i].name = n} = {}
        BY EmptySeq
      <4> QED BY <4>1, FS_EmptySet DEF Count
    <3> QED BY <3>1, <3>2 DEF Lost
  <2>2. joined <= 1 /\ (state = "play" => joined = 1)
    BY DEF Stage, Frames, Together, Behind, Ahead, PeerCodec
  <2> QED BY <2>1, <2>2 DEF AnsweredOnce
<1> QED BY InitInv, NextInv, <1>1, PTL DEF Spec

-----------------------------------------------------------------------------
(* The session, the listener of custom_payload, and the cookies handed on *)

(* The server and a user who only handles cookies leave the rest alone. *)
LEMMA PeerLeaves ==
    ASSUME Peer
    PROVE  UNCHANGED <<options, configurationVars, cookieVars, channelVars>>
BY DEF Peer, PeerSuccess, PeerAsks, PeerFinish, PeerLogin, PeerReconfigure, PeerPings,
       PeerPluginRequest, PeerRequestsCookie, PeerRequests, PeerTells, PeerReads, Sends

LEMMA NextSessions == Sessions /\ [Next]_vars => Sessions'
<1> SUFFICES ASSUME Sessions, [Next]_vars PROVE Sessions'
  OBVIOUS
<1>1. CASE OnLogin
  BY <1>1 DEF OnLogin, Sessions
<1>2. CASE UNCHANGED <<options, session, announced>>
  BY <1>2 DEF Sessions
<1>3. CASE Listeners /\ ~OnLogin
  <2>1. UNCHANGED <<options, session, announced>>
    BY <1>3 DEF Listeners, ConfigurationNext, OnSuccess, OnStartConfiguration, OnAsk,
                OnFinishConfiguration, OnPing, CookiesNext, ChannelsNext, OnCookieRequest,
                OnStoreCookie, OnTransfer, OnCustomPayload, OnLoginPluginRequest,
                configurationVars
  <2> QED BY <1>2, <2>1
<1>4. CASE SocketEnds \/ UserChannels \/ UserCookies \/ UNCHANGED vars
  <2>1. UNCHANGED <<options, session, announced>>
    BY <1>4 DEF SocketEnds, Ended, UserChannels, UserCookies, UserSetsCookie, RegisterChannel,
                UnregisterChannel, WriteChannel, vars, baseVars, configurationVars
  <2> QED BY <1>2, <2>1
<1>5. CASE Peer
  BY <1>2, <1>5, PeerLeaves DEF configurationVars
<1> QED BY <1>1, <1>3, <1>4, <1>5 DEF Next

LEMMA NextChannels == Listens /\ [Next]_vars => Listens'
<1> SUFFICES ASSUME Listens, [Next]_vars PROVE Listens'
  OBVIOUS
<1>1. CASE UNCHANGED <<channels, listeners, heard>>
  BY <1>1 DEF Listens
<1>2. CASE UserChannels
  <2>1. ASSUME NEW name \in Names, NEW typed, NEW custom, RegisterChannel(name, typed, custom)
        PROVE  Listens'
    <3>1. /\ channels' = Append(channels, name) /\ heard' = heard
          /\ listeners' = IF channels = <<>> THEN listeners + 1 ELSE listeners
      BY <2>1 DEF RegisterChannel
    <3>2. channels' \in Seq(Names \cup OwnNames) /\ channels' # <<>>
      BY <3>1, Appending DEF Listens
    <3> QED BY <3>1, <3>2 DEF Listens
  <2>2. ASSUME NEW name, NEW custom, UnregisterChannel(name, custom)
        PROVE  Listens'
    <3>1. CASE Known(name)
      <4>1. /\ channels' = Tail(channels) /\ heard' = heard
            /\ listeners' = IF Len(channels) = 1 THEN listeners - 1 ELSE listeners
        BY <2>2, <3>1 DEF UnregisterChannel
      <4>2. channels \in Seq(Names \cup OwnNames) /\ channels # <<>>
        BY <3>1 DEF Known, Listens
      <4>3. /\ Tail(channels) \in Seq(Names \cup OwnNames) /\ Len(channels) \in Nat
            /\ Len(channels) >= 1 /\ Len(Tail(channels)) = Len(channels) - 1
        BY <4>2, Tailing
      <4>4. Tail(channels) = <<>> <=> Len(channels) = 1
        BY <4>3
      <4> QED BY <4>1, <4>2, <4>3, <4>4 DEF Listens
    <3>2. CASE ~Known(name)
      BY <1>1, <2>2, <3>2 DEF UnregisterChannel
    <3> QED BY <3>1, <3>2
  <2>3. ASSUME NEW name, WriteChannel(name) PROVE Listens'
    BY <1>1, <2>3 DEF WriteChannel, channelVars
  <2> QED BY <1>2, <2>1, <2>2, <2>3 DEF UserChannels
<1>3. CASE OnCustomPayload
  BY <1>3 DEF OnCustomPayload, Listens
<1>4. CASE Listeners /\ ~OnCustomPayload
  <2>1. UNCHANGED <<channels, listeners, heard>>
    BY <1>4 DEF Listeners, ChannelsNext, OnLoginPluginRequest, channelVars
  <2> QED BY <1>1, <2>1
<1>5. CASE SocketEnds \/ UserCookies \/ UNCHANGED vars
  <2>1. UNCHANGED channelVars
    BY <1>5 DEF SocketEnds, UserCookies, vars
  <2> QED BY <1>1, <2>1 DEF channelVars
<1>6. CASE Peer
  BY <1>1, <1>6, PeerLeaves DEF channelVars
<1> QED BY <1>2, <1>3, <1>4, <1>5, <1>6 DEF Next

(* The first Map may change; the others stay, and there are never fewer. *)
LEMMA MapsStay ==
    ASSUME Handoffs, Typed, handoffs' = handoffs, maps' \in Seq([Keys -> Values \cup {"none"}]),
           Len(maps') = Len(maps), \A i \in 2..Len(maps) : maps'[i] = maps[i]
    PROVE  Handoffs'
BY DEF Handoffs, HandoffSurvives, Valid

LEMMA NextHandoffs == IInv /\ Handoffs /\ [Next]_vars => Handoffs'
<1> SUFFICES ASSUME IInv, Handoffs, [Next]_vars PROVE Handoffs'
  OBVIOUS
<1> USE DEF IInv
<1> DEFINE M == [Keys -> Values \cup {"none"}]
<1>1. maps \in Seq(M) /\ Len(maps) \in Nat /\ Len(maps) >= 1
  BY DEF Typed
<1>2. maps' \in Seq(M)
  BY NextMaps DEF Maps
<1>3. CASE maps' = maps /\ handoffs' = handoffs
  BY <1>1, <1>3, MapsStay
<1>4. ASSUME NEW m, maps' = [maps EXCEPT ![1] = m], handoffs' = handoffs
      PROVE  Handoffs'
  <2>1. Len(maps') = Len(maps) /\ \A i \in 2..Len(maps) : maps'[i] = maps[i]
    BY <1>1, <1>2, <1>4
  <2> QED BY <1>2, <1>4, <2>1, MapsStay
<1>5. CASE OnTransfer
  <2>1. CASE ~AllValid
    BY <1>3, <1>5, <2>1 DEF OnTransfer
  <2>2. CASE AllValid
    <3> DEFINE H == [map: Nat, held: M]
               h == [map |-> Len(maps) + 1, held |-> cookies]
    <3>1. maps' = Append(maps, cookies) /\ handoffs' = Append(handoffs, h)
      BY <1>5, <2>2 DEF OnTransfer
    <3>2. cookies \in M /\ \A k \in Keys : Valid(cookies[k])
      BY <1>1, <2>2 DEF cookies, AllValid
    <3>3. h \in H /\ h.map = Len(maps) + 1 /\ h.held = cookies
      BY <1>1, <3>2
    <3>4. handoffs \in Seq(H) /\ DOMAIN handoffs = 1..Len(handoffs)
      BY DEF Handoffs
    <3> HIDE DEF M, H, h, cookies
    <3>5. /\ Len(maps') = Len(maps) + 1 /\ maps'[Len(maps) + 1] = cookies
          /\ \A i \in 1..Len(maps) : maps'[i] = maps[i]
      BY <1>1, <3>1, <3>2, Appending
    <3>6. /\ handoffs' \in Seq(H) /\ Len(handoffs) \in Nat
          /\ Len(handoffs') = Len(handoffs) + 1 /\ handoffs'[Len(handoffs) + 1] = h
          /\ \A i \in 1..Len(handoffs) : handoffs'[i] = handoffs[i]
      BY <3>1, <3>3, <3>4, Appending
    <3>7. DOMAIN handoffs' = 1..Len(handoffs) + 1
      BY <3>6
    <3>8. ASSUME NEW i \in DOMAIN handoffs'
          PROVE  /\ handoffs'[i].map \in 2..Len(maps')
                 /\ maps'[handoffs'[i].map] = handoffs'[i].held
                 /\ \A k \in Keys : Valid(handoffs'[i].held[k])
      <4>1. CASE i \in 1..Len(handoffs)
        <5>1. /\ handoffs[i].map \in 2..Len(maps) /\ maps[handoffs[i].map] = handoffs[i].held
              /\ \A k \in Keys : Valid(handoffs[i].held[k])
          BY <3>4, <4>1 DEF Handoffs, HandoffSurvives
        <5> QED BY <1>1, <3>5, <3>6, <4>1, <5>1
      <4>2. CASE i = Len(handoffs) + 1
        BY <1>1, <3>2, <3>3, <3>5, <3>6, <4>2
      <4> QED BY <3>6, <3>7, <4>1, <4>2
    <3>9. handoffs' \in Seq([map: Nat, held: [Keys -> Values \cup {"none"}]])
      BY <3>6 DEF H, M
    <3>10. HandoffSurvives'
      BY <3>8 DEF HandoffSurvives, Valid
    <3> QED BY <3>8, <3>9, <3>10 DEF Handoffs
  <2> QED BY <2>1, <2>2
<1>6. CASE OnStoreCookie
  BY <1>3, <1>4, <1>6 DEF OnStoreCookie
<1>7. CASE Listeners /\ ~OnTransfer /\ ~OnStoreCookie
  BY <1>3, <1>7 DEF Listeners, CookiesNext, OnCookieRequest, cookieVars
<1>8. CASE SocketEnds
  BY <1>3, <1>4, <1>8 DEF SocketEnds, Ended
<1>9. CASE UserCookies
  BY <1>4, <1>9 DEF UserCookies, UserSetsCookie
<1>10. CASE UserChannels \/ UNCHANGED vars
  BY <1>3, <1>10 DEF UserChannels, vars, cookieVars
<1>11. CASE Peer
  BY <1>3, <1>11, PeerLeaves DEF cookieVars
<1> QED BY <1>5, <1>6, <1>7, <1>8, <1>9, <1>10, <1>11 DEF Next

(***************************************************************************)
(* Messages are signed in the session the server was told last, whichever  *)
(* listener of 'login' was installed first (client/chat.js).               *)
(***************************************************************************)
THEOREM SessionIsAnnounced == Spec => []SessionAnnounced
<1>1. Init => Sessions
  BY DEF Init, ConfigurationInit, Sessions
<1>2. Sessions => SessionAnnounced
  BY DEF Sessions, SessionAnnounced
<1> QED BY <1>1, <1>2, NextSessions, PTL DEF Spec

(***************************************************************************)
(* A payload is heard once, and only while there is a channel, however     *)
(* channels are registered and unregistered (client/pluginChannels.js).    *)
(***************************************************************************)
THEOREM PayloadHeardOnce == Spec => []ListensOnce
<1>1. Init => Listens
  <2> SUFFICES ASSUME Init PROVE Listens
    OBVIOUS
  <2>1. channels = <<"minecraft:register", "minecraft:unregister">>
        /\ listeners = 1 /\ heard = 0
    BY DEF Init, ChannelsInit
  <2>2. channels \in Seq(Names \cup OwnNames) /\ channels # <<>>
    BY <2>1 DEF OwnNames
  <2> QED BY <2>1, <2>2 DEF Listens
<1>2. Listens => ListensOnce
  BY DEF Listens, ListensOnce
<1> QED BY <1>1, <1>2, NextChannels, PTL DEF Spec

(***************************************************************************)
(* A Map that a transfer handed on is no one's to change, and holds what   *)
(* passed the check (client/cookie.js).                                    *)
(***************************************************************************)
THEOREM HandoffsSurvive == Spec => []HandoffSurvives
<1>1. Init => Handoffs
  <2> SUFFICES ASSUME Init PROVE Handoffs
    OBVIOUS
  <2>1. handoffs = <<>>
    BY DEF Init, CookiesInit
  <2>2. DOMAIN handoffs = {} /\ handoffs \in Seq([map: Nat, held: [Keys -> Values \cup {"none"}]])
    BY <2>1, EmptySeq
  <2> QED BY <2>2 DEF Handoffs, HandoffSurvives
<1>2. IInv /\ Handoffs /\ [Next]_vars => (IInv /\ Handoffs)'
  BY NextInv, NextHandoffs
<1>3. Init => IInv /\ Handoffs
  BY InitInv, <1>1
<1>4. IInv /\ Handoffs => HandoffSurvives
  BY DEF Handoffs
<1> QED BY <1>2, <1>3, <1>4, PTL DEF Spec
=============================================================================
