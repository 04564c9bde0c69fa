----------------------------- MODULE ServerProofs -----------------------------
(***************************************************************************)
(* The server: its registry, its keepalive and the window of signed chat.  *)
(*                                                                         *)
(* The registry, for any number of connections and calls of listen.  Ids   *)
(* are given out in order, so that those of the clients that are there     *)
(* differ and are below the next one: the entry that a connection writes   *)
(* is nobody's, and the one that an 'end' deletes is its own.              *)
(*                                                                         *)
(* The windows of ChatWindow, for every capacity, report threshold and     *)
(* bound.  The messages of a game are numbered on from the last one before *)
(* it; the server's window and the client's ring are then both given by    *)
(* the numbers of their last entry and of the last one that was told, and  *)
(* what is under way to the server is a walk from the one to the other,    *)
(* which also counts the index of the session.                             *)
(***************************************************************************)
EXTENDS ServerKeepalive, Server, ChatWindow, Integers, SequenceTheorems, TLAPS

Links == {"none", "open", "ending", "ended"}

States == {"handshaking", "status", "login", "configuration", "play"}

Phases == {"open", "closing", "closed"}

Clients == [id: Nat, listener: Nat, state: States, link: Links,
            handshake: {"due", "done"}, query: {"due", "running", "answered"},
            pong: {"none", "sent"},
            login: {"due", "asked", "done", "refused"}, configures: BOOLEAN]

Typed ==
    /\ listeners \in Seq(Phases) /\ Current >= 1
    /\ nextId \in Nat
    /\ relisten \in BOOLEAN
    /\ client \in [Socket -> Clients]

(* The ids of the clients that are there. *)
IdsDiffer ==
    ~relisten =>
        \A s \in Live :
            /\ client[s].id < nextId
            /\ \A t \in Live : client[t].id = client[s].id => t = s

IInv == Typed /\ IdsDiffer /\ RegistryExact

LEMMA InitInv == ServerInit => IInv
<1> SUFFICES ASSUME ServerInit PROVE IInv
  OBVIOUS
<1>1. NoClient \in Clients
  BY DEF NoClient, Clients, Links, States
<1>2. Typed
  <2>1. "open" \in Phases
    BY DEF Phases
  <2>2. <<"open">> \in Seq(Phases) /\ Len(<<"open">>) = 1
    BY <2>1
  <2>3. listeners \in Seq(Phases) /\ Current >= 1
    BY <2>2 DEF ServerInit, Current
  <2>4. client \in [Socket -> Clients]
    BY <1>1 DEF ServerInit
  <2> QED BY <2>3, <2>4 DEF ServerInit, Typed
<1>3. Live = {}
  BY DEF ServerInit, Live, NoClient
<1>4. {Entry(client[s].id, s) : s \in Live} = {}
  BY <1>3
<1>5. RegistryExact
  BY <1>4 DEF ServerInit, RegistryExact
<1>6. IdsDiffer
  BY <1>3 DEF IdsDiffer
<1> QED BY <1>2, <1>5, <1>6 DEF IInv

(***************************************************************************)
(* An end() leaves a client in the registry, with its id and its socket.   *)
(***************************************************************************)
Stays(c, d) ==
    /\ d.id = c.id
    /\ d.link \in {"open", "ending"} <=> c.link \in {"open", "ending"}

LEMMA SameClients ==
    ASSUME IInv, Typed', \A s \in Socket : Stays(client[s], client'[s]),
           UNCHANGED <<nextId, registry, relisten>>
    PROVE  IInv'
<1>1. Live' = Live
  BY DEF Live, Stays
<1>2. \A s \in Live : client'[s].id = client[s].id
  BY DEF Live, Stays
<1>3. IdsDiffer'
  BY <1>1, <1>2 DEF IInv, IdsDiffer
<1>4. RegistryExact'
  BY <1>1, <1>2 DEF IInv, RegistryExact, Entry
<1> QED BY <1>3, <1>4 DEF IInv

(* The steps of a client that neither comes nor goes. *)
LEMMA HandlesInv ==
    ASSUME IInv, NEW s \in Socket,
           Handles(s) \/ LogsIn(s) \/ End(s)
    PROVE  IInv'
<1> DEFINE Becomes(d) ==
        /\ client' = [client EXCEPT ![s] = d]
        /\ d \in Clients
        /\ Stays(client[s], d)
<1>1. client[s] \in Clients /\ Ended(client[s]) \in Clients
  BY DEF IInv, Typed, Clients, Links, Ended
<1>2. Stays(client[s], client[s]) /\ Stays(client[s], Ended(client[s]))
  BY <1>1 DEF Stays, Ended, Clients, Links
<1>3. \E d : Becomes(d)
  <2>1. ASSUME NEW n \in {"status", "login"}, NEW v \in BOOLEAN, NEW f \in BOOLEAN,
               OnHandshake(s, n, v, f)
        PROVE  \E d : Becomes(d)
    <3> DEFINE c == IF v THEN client[s] ELSE Ended(client[s])
    <3>1. Becomes([c EXCEPT !.handshake = "done", !.state = n, !.configures = f])
      BY <1>1, <1>2, <2>1 DEF OnHandshake, Stays, Clients, States
    <3> QED BY <3>1
  <2>2. ASSUME NEW a, AnswerToPing(s, a) PROVE \E d : Becomes(d)
    <3> DEFINE c == IF a = "false" THEN Ended(client[s]) ELSE client[s]
    <3>1. Becomes([c EXCEPT !.query = "answered"])
      BY <1>1, <1>2, <2>2 DEF AnswerToPing, Stays, Clients
    <3> QED BY <3>1
  <2>3. ASSUME OnPingLater(s) PROVE \E d : Becomes(d)
    <3>1. Becomes([client[s] EXCEPT !.query = "running"])
      BY <1>1, <1>2, <2>3 DEF OnPingLater, Stays, Clients
    <3> QED BY <3>1
  <2>4. ASSUME OnPong(s) PROVE \E d : Becomes(d)
    <3>1. Becomes([Ended(client[s]) EXCEPT !.pong = "sent"])
      BY <1>1, <1>2, <2>4 DEF OnPong, Stays, Clients
    <3> QED BY <3>1
  <2>5. ASSUME OnClientLoginAck(s) \/ EntersPlay(s) \/ LeavesPlay(s)
        PROVE  \E d : Becomes(d)
    <3>1. PICK p \in {"play", "configuration"} :
              client' = [client EXCEPT ![s].state = p]
      BY <2>5 DEF OnClientLoginAck, EntersPlay, LeavesPlay
    <3>2. Becomes([client[s] EXCEPT !.state = p])
      BY <1>1, <1>2, <3>1 DEF Stays, Clients, States
    <3> QED BY <3>2
  <2>6. ASSUME End(s) PROVE \E d : Becomes(d)
    <3>1. Becomes(Ended(client[s]))
      BY <1>1, <1>2, <2>6 DEF End
    <3> QED BY <3>1
  <2>7. ASSUME VerifyUsername(s) PROVE \E d : Becomes(d)
    <3>1. Becomes([client[s] EXCEPT !.login = "asked"])
      BY <1>1, <1>2, <2>7 DEF VerifyUsername, Stays, Clients
    <3> QED BY <3>1
  <2>8. ASSUME LoginClient(s) PROVE \E d : Becomes(d)
    <3> DEFINE p == IF client[s].configures THEN client[s].state ELSE "play"
    <3>1. Becomes([client[s] EXCEPT !.login = "done", !.state = p])
      BY <1>1, <1>2, <2>8 DEF LoginClient, Stays, Clients, States
    <3> QED BY <3>1
  <2>9. ASSUME HasNotJoined(s) PROVE \E d : Becomes(d)
    <3>1. Becomes([Ended(client[s]) EXCEPT !.login = "refused"])
      BY <1>1, <1>2, <2>9 DEF HasNotJoined, Stays, Clients
    <3> QED BY <3>1
  <2> QED
    BY <2>1, <2>2, <2>3, <2>4, <2>5, <2>6, <2>7, <2>8, <2>9
       DEF Handles, LogsIn, OnPing, BeforePingCallsBack
<1>4. UNCHANGED <<listeners, nextId, registry, relisten>>
  BY DEF Handles, OnHandshake, AnswerToPing, OnPing, OnPingLater,
         BeforePingCallsBack, OnPong, LogsIn, VerifyUsername, LoginClient,
         HasNotJoined, OnClientLoginAck, EntersPlay, LeavesPlay, End
<1>5. Typed' /\ \A x \in Socket : Stays(client[x], client'[x])
  BY <1>3, <1>4 DEF IInv, Typed, Current, Stays
<1> QED BY <1>4, <1>5, SameClients

(* A connection gets an id that no entry has. *)
LEMMA ConnectionInv ==
    ASSUME IInv, NEW s \in Socket, Connection(s)
    PROVE  IInv'
<1> USE DEF Links, Clients, States
<1>1. Typed'
  <2> DEFINE d == [client[s] EXCEPT !.link = "open", !.id = nextId, !.listener = Current]
  <2>1. d \in Clients
    <3>1. Current \in Nat /\ nextId \in Nat /\ client[s] \in Clients
      BY DEF Current, IInv, Typed
    <3> QED BY <3>1
  <2>2. client' = [client EXCEPT ![s] = d]
    BY DEF Connection
  <2> QED BY <2>1, <2>2 DEF Connection, IInv, Typed, Current
<1> SUFFICES ASSUME ~relisten PROVE IdsDiffer' /\ RegistryExact'
  BY <1>1 DEF Connection, IInv, IdsDiffer, RegistryExact
<1>2. Live' = Live \cup {s} /\ s \notin Live
  BY DEF Connection, Live, IInv, Typed
<1>3. client'[s].id = nextId /\ \A t \in Live : client'[t] = client[t]
  BY <1>2 DEF Connection, Live, IInv, Typed
<1>4. IdsDiffer'
  BY <1>2, <1>3 DEF Connection, IInv, Typed, IdsDiffer, Live
<1>5. Without(nextId) = registry
  BY DEF Without, Entry, IInv, RegistryExact, IdsDiffer, Typed, Live
<1>6. RegistryExact'
  BY <1>2, <1>3, <1>5 DEF Connection, IInv, RegistryExact, Entry
<1> QED BY <1>4, <1>6

(* An 'end' deletes the entry of its client and no other. *)
LEMMA SocketEndsInv ==
    ASSUME IInv, NEW s \in Socket, SocketEnds(s)
    PROVE  IInv'
<1> USE DEF Links, Clients, States
<1>1. Typed'
  <2> DEFINE d == [client[s] EXCEPT !.link = "ended"]
  <2>1. d \in Clients
    <3>1. ASSUME NEW c \in Clients PROVE [c EXCEPT !.link = "ended"] \in Clients
      BY <3>1
    <3>2. client[s] \in Clients
      BY DEF IInv, Typed
    <3> QED BY <3>1, <3>2
  <2>2. client' = [client EXCEPT ![s] = d]
    BY DEF SocketEnds
  <2> QED BY <2>1, <2>2 DEF SocketEnds, IInv, Typed, Current
<1> SUFFICES ASSUME ~relisten PROVE IdsDiffer' /\ RegistryExact'
  BY <1>1 DEF SocketEnds, IInv, IdsDiffer, RegistryExact
<1>2. Live' = Live \ {s} /\ s \in Live
  BY DEF SocketEnds, Parses, Live, IInv, Typed
<1>3. \A t \in Live' : client'[t] = client[t]
  BY <1>2 DEF SocketEnds, Live, IInv, Typed
<1>4. IdsDiffer'
  BY <1>2, <1>3 DEF SocketEnds, IInv, IdsDiffer
<1>5. Without(client[s].id) = {Entry(client[t].id, t) : t \in Live \ {s}}
  BY <1>2 DEF Without, Entry, IInv, RegistryExact, IdsDiffer
<1>6. RegistryExact'
  BY <1>2, <1>3, <1>5 DEF SocketEnds, RegistryExact
<1> QED BY <1>4, <1>6

(* A net.Server changes its phase. *)
LEMMA PhaseSet ==
    ASSUME listeners \in Seq(Phases), NEW l \in 1..Current, NEW p \in Phases,
           listeners' = [listeners EXCEPT ![l] = p]
    PROVE  listeners' \in Seq(Phases) /\ Current' = Current
BY ExceptSeq DEF Current

LEMMA CloseInv == IInv /\ Close => IInv'
<1> SUFFICES ASSUME IInv, Close PROVE IInv'
  OBVIOUS
<1> USE DEF Links, Clients, States
<1>1. Typed'
  <2>1. \A s \in Socket : client[s] \in Clients /\ Ended(client[s]) \in Clients
    <3>1. ASSUME NEW c \in Clients PROVE Ended(c) \in Clients
      BY DEF Ended
    <3>2. \A s \in Socket : client[s] \in Clients
      BY DEF IInv, Typed
    <3> QED BY <3>1, <3>2
  <2>2. client' \in [Socket -> Clients]
    BY <2>1 DEF Close
  <2>3. listeners' \in Seq(Phases) /\ Current' >= 1
    BY PhaseSet DEF Close, Phases, IInv, Typed, Current
  <2> QED BY <2>2, <2>3 DEF Close, IInv, Typed
<1>2. \A s \in Socket : Stays(client[s], client'[s])
  BY DEF Close, Ended, Stays, IInv, Typed
<1> QED BY <1>1, <1>2, SameClients DEF Close

(* Ids start again when nobody is there, or nothing is claimed. *)
LEMMA ListenInv == IInv /\ Listen => IInv'
<1> SUFFICES ASSUME IInv, Listen PROVE IInv'
  OBVIOUS
<1>1. Typed'
  <2>1. "open" \in Phases /\ listeners \in Seq(Phases) /\ Current >= 1
    BY DEF Phases, IInv, Typed
  <2>2. listeners' \in Seq(Phases) /\ Current' >= 1
    BY <2>1 DEF Listen, Current
  <2> QED BY <2>2 DEF Listen, IInv, Typed
<1>2. Live' = Live
  BY DEF Listen, Live
<1>3. CASE relisten'
  BY <1>1, <1>3 DEF IInv, IdsDiffer, RegistryExact
<1>4. CASE ~relisten'
  <2>1. Live = {} /\ ~relisten
    BY <1>4 DEF Listen, IInv, Typed
  <2>2. {Entry(client[s].id, s) : s \in Live} = {}
    BY <2>1
  <2>3. {Entry(client'[s].id, s) : s \in Live'} = {}
    BY <1>2, <2>1
  <2>4. registry' = {}
    BY <2>1, <2>2 DEF Listen, IInv, RegistryExact
  <2>5. IdsDiffer'
    BY <1>2, <2>1 DEF IdsDiffer
  <2>6. RegistryExact'
    BY <2>3, <2>4 DEF RegistryExact
  <2> QED BY <1>1, <2>5, <2>6 DEF IInv
<1> QED BY <1>3, <1>4

LEMMA NextInv == IInv /\ [ServerNext]_serverVars => IInv'
<1> SUFFICES ASSUME IInv, [ServerNext]_serverVars PROVE IInv'
  OBVIOUS
<1>1. CASE \E s \in Socket : Connection(s)
  BY <1>1, ConnectionInv
<1>2. CASE \E s \in Socket : Handles(s) \/ LogsIn(s) \/ End(s)
  BY <1>2, HandlesInv
<1>3. CASE \E s \in Socket : SocketEnds(s)
  BY <1>3, SocketEndsInv
<1>4. CASE Close
  BY <1>4, CloseInv
<1>5. CASE Listen
  BY <1>5, ListenInv
<1>6. CASE (\E l \in 1..Current : EmitsClose(l)) \/ UNCHANGED serverVars
  <2>1. UNCHANGED <<nextId, registry, client, relisten>>
    BY <1>6 DEF EmitsClose, serverVars
  <2>2. listeners' \in Seq(Phases) /\ Current' >= 1
    BY <1>6, PhaseSet DEF EmitsClose, serverVars, Phases, IInv, Typed, Current
  <2> QED BY <2>1, <2>2 DEF IInv, Typed, IdsDiffer, RegistryExact, Live
<1> QED BY <1>1, <1>2, <1>3, <1>4, <1>5, <1>6 DEF ServerNext

(***************************************************************************)
(* server.clients (server.js:42-46) has each client that is connected and  *)
(* no other, until ids are given out again while old clients are there.    *)
(***************************************************************************)
THEOREM RegistryCorrect == ServerSpec => []RegistryExact
<1>1. IInv => RegistryExact
  BY DEF IInv
<1> QED BY InitInv, NextInv, <1>1, PTL DEF ServerSpec

-----------------------------------------------------------------------------
(***************************************************************************)
(* The keep alive loop.  A client that answers is never kicked, one that   *)
(* does not is in time, for every interval and timeout.                    *)
(***************************************************************************)
(***************************************************************************)
(* Every entry into PLAY left an interval, and 'end' stopped one of those  *)
(* that it found.                                                          *)
(***************************************************************************)
Counted ==
    IF conn = "ended" THEN LoopsEnd ELSE late = 0 /\ Len(loops) = plays

Together == quiet = silence

Answered == \A j \in DOMAIN inflight : inflight[j] <= MaxAnswer

(***************************************************************************)
(* Each interval fires before the timeout is an interval old.              *)
(***************************************************************************)
Overdue ==
    conn = "open" => \A i \in DOMAIN loops : quiet + loops[i] <= KickTimeout + Interval

(***************************************************************************)
(* A prompt client has answered, and an interval will soon ask again, or   *)
(* it was asked within an interval of its last answer.                     *)
(***************************************************************************)
Asked ==
    conn = "open" /\ peer = "prompt" /\ plays > 0 =>
        IF inflight = <<>>
        THEN \E i \in DOMAIN loops : quiet + loops[i] <= Interval
        ELSE quiet <= Interval + inflight[1]

LoopInv ==
    /\ TypeOK
    /\ Counted
    /\ Together
    /\ Answered
    /\ Overdue
    /\ Asked
    /\ PromptClientStays

(* The bounds are numbers the provers may calculate with. *)
LEMMA Constants ==
    /\ Interval \in Nat /\ Interval > 0
    /\ KickTimeout \in Nat /\ MaxAnswer \in Nat /\ MaxPlays \in Nat
    /\ Latest \in Nat
    /\ MaxAnswer + Interval <= KickTimeout
BY ServerKeepaliveAssumption DEF Latest

(***************************************************************************)
(* The lengths and the types of what the actions do to the sequences.      *)
(***************************************************************************)
LEMMA SeqFacts ==
    ASSUME NEW S, NEW s \in Seq(S)
    PROVE  /\ Len(s) \in Nat /\ DOMAIN s = 1..Len(s)
           /\ \A i \in DOMAIN s : s[i] \in S
           /\ s = <<>> <=> Len(s) = 0
<1>1. Len(s) \in Nat /\ DOMAIN s = 1..Len(s)
  BY LenProperties
<1>2. \A i \in 1..Len(s) : s[i] \in S
  BY ElementOfSeq
<1>3. s = <<>> <=> Len(s) = 0
  BY EmptySeq
<1> QED
  BY <1>1, <1>2, <1>3

(* What clearing the newest interval leaves. *)
LEMMA AllButLastFacts ==
    ASSUME NEW S, NEW s \in Seq(S), s # <<>>
    PROVE  AllButLast(s) \in Seq(S) /\ Len(AllButLast(s)) = Len(s) - 1
<1>1. Len(s) \in Nat /\ Len(s) > 0
  BY EmptySeq, LenProperties
<1>2. \A i \in 1..Len(s) - 1 : s[i] \in S
  BY <1>1, ElementOfSeq
<1>3. /\ SubSeq(s, 1, Len(s) - 1) \in Seq(S)
      /\ Len(SubSeq(s, 1, Len(s) - 1)) =
            IF 1 <= Len(s) - 1 THEN (Len(s) - 1) - 1 + 1 ELSE 0
  <2>1. 1 \in Int /\ Len(s) - 1 \in Int
    BY <1>1
  <2> QED
    BY ONLY <2>1, <1>2, SubSeqProperties
<1> DEFINE t == SubSeq(s, 1, Len(s) - 1)
           n == Len(s)
<1>4. /\ t \in Seq(S) /\ n \in Nat /\ n > 0
      /\ Len(t) = IF 1 <= n - 1 THEN (n - 1) - 1 + 1 ELSE 0
  BY <1>1, <1>3
<1> HIDE DEF t, n
<1>5. Len(t) = n - 1
  BY <1>4
<1> QED
  BY <1>4, <1>5 DEF t, n, AllButLast

(* Starting an interval, or sending a keep_alive, appends to a sequence. *)
LEMMA LongerFacts ==
    ASSUME NEW S, NEW s \in Seq(S), NEW e \in S
    PROVE  /\ Append(s, e) \in Seq(S)
           /\ Append(s, e) # <<>>
           /\ \A j \in DOMAIN Append(s, e) :
                 \/ Append(s, e)[j] = e
                 \/ j \in DOMAIN s /\ Append(s, e)[j] = s[j]
           /\ Append(s, e)[1] = IF s = <<>> THEN e ELSE s[1]
<1>1. /\ Append(s, e) \in Seq(S) /\ Append(s, e) # <<>>
      /\ Len(Append(s, e)) = Len(s) + 1
      /\ \A j \in 1..Len(s) : Append(s, e)[j] = s[j]
      /\ Append(s, e)[Len(s) + 1] = e
  BY AppendProperties
<1> DEFINE t == Append(s, e)
<1>2. /\ t \in Seq(S) /\ t # <<>>
      /\ Len(t) = Len(s) + 1
      /\ \A j \in 1..Len(s) : t[j] = s[j]
      /\ t[Len(s) + 1] = e
  BY <1>1
<1> HIDE DEF t
<1>3. Len(s) \in Nat /\ DOMAIN s = 1..Len(s) /\ DOMAIN t = 1..Len(t)
  BY <1>2, LenProperties
<1>4. s # <<>> => Len(s) > 0
  BY <1>3, EmptySeq
<1>5. s = <<>> => Len(s) = 0
  BY EmptySeq
<1>6. \A j \in DOMAIN t : t[j] = e \/ (j \in DOMAIN s /\ t[j] = s[j])
  BY <1>2, <1>3
<1>7. t[1] = IF s = <<>> THEN e ELSE s[1]
  BY <1>2, <1>3, <1>4, <1>5
<1> QED
  BY <1>2, <1>6, <1>7 DEF t

(* A function on 1..n is a sequence of length n. *)
LEMMA FunctionIsSeq ==
    ASSUME NEW S, NEW f, NEW n \in Nat, f \in [1..n -> S]
    PROVE  f \in Seq(S) /\ Len(f) = n
OBVIOUS

(* Answering the oldest keep_alive shifts the others down by one. *)
LEMMA TailFacts ==
    ASSUME NEW S, NEW s \in Seq(S), s # <<>>
    PROVE  /\ Tail(s) \in Seq(S)
           /\ \A j \in DOMAIN Tail(s) : j + 1 \in DOMAIN s /\ Tail(s)[j] = s[j + 1]
<1>1. /\ Tail(s) \in Seq(S) /\ Len(Tail(s)) = Len(s) - 1
      /\ \A j \in 1..Len(Tail(s)) : Tail(s)[j] = s[j + 1]
  BY HeadTailProperties
<1>2. DOMAIN Tail(s) = 1..Len(Tail(s)) /\ DOMAIN s = 1..Len(s) /\ Len(s) \in Nat
  BY <1>1, LenProperties
<1> QED
  BY <1>1, <1>2

(* The connection starts out of PLAY, with no interval and nothing to answer. *)
LEMMA InitLoop == Init => LoopInv
<1> SUFFICES ASSUME Init PROVE LoopInv
  OBVIOUS
<1> USE Constants DEF Init
<1>1. loops = <<>> /\ inflight = <<>> /\ plays = 0 /\ Len(<<>>) = 0
      /\ DOMAIN <<>> = {}
  BY EmptySeq
<1>2. TypeOK
  <2>1. loops \in Seq(0..Interval) /\ inflight \in Seq(0..Latest)
    BY <1>1, EmptySeq
  <2>2. {quiet, silence} \subseteq 0..Latest /\ latency \in 0..Latest
    OBVIOUS
  <2>3. plays \in 0..MaxPlays /\ late \in 0..plays /\ Len(loops) <= plays
    BY <1>1
  <2>4. /\ state \in {"configuration", "play"} /\ peer \in {"prompt", "silent"}
        /\ conn \in {"open", "ending", "ended"} /\ kicked \in BOOLEAN
    OBVIOUS
  <2> QED
    BY ONLY <2>1, <2>2, <2>3, <2>4 DEF TypeOK
<1>3. Counted /\ Together /\ Answered
  BY <1>1 DEF Counted, Together, Answered
<1>4. Overdue /\ Asked /\ PromptClientStays
  BY <1>1 DEF Overdue, Asked, PromptClientStays
<1> QED
  BY <1>2, <1>3, <1>4 DEF LoopInv

(* startKeepAlive keeps the invariant: it resets the answer and starts an interval. *)
LEMMA StartStep == LoopInv /\ StartKeepAlive => LoopInv'
<1> SUFFICES ASSUME LoopInv, StartKeepAlive PROVE LoopInv'
  OBVIOUS
<1> USE Constants DEF LoopInv, StartKeepAlive
<1>1. /\ loops' \in Seq(0..Interval)
      /\ Len(loops') = Len(loops) + 1
      /\ \A i \in 1..Len(loops) : loops'[i] = loops[i]
      /\ loops'[Len(loops) + 1] = Interval
      /\ DOMAIN loops' = 1..Len(loops) + 1
  <2>1. loops \in Seq(0..Interval) /\ Interval \in 0..Interval
    BY DEF TypeOK
  <2> QED
    BY <2>1, AppendProperties, LenProperties
<1>2. Len(loops) \in Nat /\ \A i \in 1..Len(loops) : loops[i] \in 0..Interval
  BY ElementOfSeq, LenProperties DEF TypeOK
<1>3. TypeOK'
  BY <1>1, <1>2 DEF TypeOK
<1>4. Counted' /\ Together'
  <2>1. plays \in Nat /\ late \in 0..plays
    BY DEF TypeOK
  <2>2. conn = "ended" => InTime' = InTime
    BY <2>1 DEF InTime
  <2> QED
    BY <1>1, <1>2, <2>1, <2>2 DEF Counted, LoopsEnd, InTime, Together
<1>5. Answered' /\ PromptClientStays'
  BY DEF Answered, PromptClientStays
<1>6. \A i \in DOMAIN loops' : quiet' + loops'[i] <= Interval
  BY <1>1, <1>2
<1>7. Overdue'
  BY <1>6, <1>1, <1>3 DEF Overdue, TypeOK
<1>8. Asked'
  <2>1. inflight # <<>> => inflight[1] \in Nat
    BY ElementOfSeq, EmptySeq, LenProperties DEF TypeOK
  <2>2. Len(loops) + 1 \in DOMAIN loops'
    BY <1>1, <1>2
  <2> QED
    BY <1>6, <2>1, <2>2 DEF Asked
<1> QED
  BY <1>3, <1>4, <1>5, <1>7, <1>8

(* keepAliveLoop keeps the invariant, whether it asks or kicks. *)
LEMMA LoopStep ==
    ASSUME LoopInv, NEW i \in DOMAIN loops, KeepAliveLoop(i)
    PROVE  LoopInv'
<1> USE Constants DEF LoopInv, KeepAliveLoop
<1>1. /\ loops \in Seq(0..Interval)
      /\ DOMAIN loops = 1..Len(loops) /\ Len(loops) \in Nat
      /\ \A k \in 1..Len(loops) : loops[k] \in 0..Interval
  BY ElementOfSeq, LenProperties DEF TypeOK
<1>2. /\ loops' \in Seq(0..Interval)
      /\ Len(loops') = Len(loops)
      /\ DOMAIN loops' = DOMAIN loops
      /\ loops'[i] = Interval
      /\ \A k \in DOMAIN loops : k # i => loops'[k] = loops[k]
  BY <1>1, ExceptSeq
<1>3. plays > 0
  BY <1>1 DEF TypeOK
<1>4. quiet \in Nat /\ inflight \in Seq(0..Latest)
  BY DEF TypeOK
<1>5. CASE quiet > KickTimeout
  <2>1. TypeOK' /\ Counted' /\ Together' /\ Answered'
    BY <1>2, <1>5 DEF TypeOK, Counted, LoopsEnd, InTime, Together, Answered
  <2>2. conn' # "open"
    BY <1>5
  <2>3. Overdue' /\ Asked'
    BY <2>2 DEF Overdue, Asked
  <2>4. PromptClientStays'
    <3> SUFFICES ASSUME conn = "open", peer = "prompt" PROVE FALSE
      BY <1>5 DEF PromptClientStays, TypeOK
    <3>1. CASE inflight = <<>>
      BY <3>1, <1>1, <1>3, <1>4, <1>5 DEF Asked
    <3>2. CASE inflight # <<>>
      <4>1. 1 \in DOMAIN inflight /\ inflight[1] \in Nat
        BY <3>2, <1>4, ElementOfSeq, EmptySeq, LenProperties
      <4> QED
        BY <4>1, <3>2, <1>3, <1>4, <1>5 DEF Asked, Answered
    <3> QED
      BY <3>1, <3>2
  <2> QED
    BY <2>1, <2>3, <2>4
<1>6. CASE ~(quiet > KickTimeout)
  <2> DEFINE longer == Append(inflight, 0)
  <2>1. inflight' = inflight \/ inflight' = longer
    BY <1>6
  <2>2. /\ longer \in Seq(0..Latest)
        /\ longer # <<>>
        /\ \A j \in DOMAIN longer :
              longer[j] = 0 \/ (j \in DOMAIN inflight /\ longer[j] = inflight[j])
        /\ longer[1] = IF inflight = <<>> THEN 0 ELSE inflight[1]
    <3>1. 0 \in 0..Latest
      OBVIOUS
    <3>2. /\ Append(inflight, 0) \in Seq(0..Latest)
          /\ Append(inflight, 0) # <<>>
          /\ \A j \in DOMAIN Append(inflight, 0) :
                \/ Append(inflight, 0)[j] = 0
                \/ j \in DOMAIN inflight /\ Append(inflight, 0)[j] = inflight[j]
          /\ Append(inflight, 0)[1] = IF inflight = <<>> THEN 0 ELSE inflight[1]
      <4> DEFINE S == 0..Latest
      <4>1. inflight \in Seq(S) /\ 0 \in S
        BY <1>4, <3>1
      <4> HIDE DEF S
      <4>2. /\ Append(inflight, 0) \in Seq(S)
            /\ Append(inflight, 0) # <<>>
            /\ \A j \in DOMAIN Append(inflight, 0) :
                  \/ Append(inflight, 0)[j] = 0
                  \/ j \in DOMAIN inflight /\ Append(inflight, 0)[j] = inflight[j]
            /\ Append(inflight, 0)[1] = IF inflight = <<>> THEN 0 ELSE inflight[1]
        BY ONLY <4>1, LongerFacts
      <4> QED
        BY ONLY <4>2 DEF S
    <3> QED
      BY ONLY <3>2
  <2>3. conn = "open" /\ peer = "prompt" => inflight' = longer
    BY <1>6
  <2> HIDE DEF longer
  <2>4. TypeOK' /\ Counted' /\ Together'
    BY <1>2, <1>6, <2>1, <2>2 DEF TypeOK, Counted, LoopsEnd, InTime, Together
  <2>5. Answered'
    <3> SUFFICES ASSUME NEW j \in DOMAIN inflight'
                 PROVE  inflight'[j] <= MaxAnswer
      BY DEF Answered
    <3>1. inflight'[j] = 0 \/ (j \in DOMAIN inflight /\ inflight'[j] = inflight[j])
      BY <2>1, <2>2
    <3> QED
      BY <3>1 DEF Answered
  <2>6. Overdue'
    <3> SUFFICES ASSUME conn = "open", NEW k \in DOMAIN loops'
                 PROVE  quiet + loops'[k] <= KickTimeout + Interval
      BY <1>6 DEF Overdue
    <3>1. CASE k = i
      BY <3>1, <1>2, <1>4, <1>6
    <3>2. CASE k # i
      BY <3>2, <1>2 DEF Overdue
    <3> QED
      BY <3>1, <3>2
  <2>7. Asked'
    <3> SUFFICES ASSUME conn = "open", peer = "prompt"
                 PROVE  inflight' # <<>> /\ quiet <= Interval + inflight'[1]
      BY <1>6 DEF Asked
    <3>1. inflight = <<>> => quiet <= Interval
      BY <1>1, <1>3, <1>4 DEF Asked
    <3>2. inflight # <<>> => quiet <= Interval + inflight[1]
      BY <1>3 DEF Asked
    <3>3. inflight' = longer
      BY <2>3
    <3>4. inflight' # <<>> /\ inflight'[1] = IF inflight = <<>> THEN 0 ELSE inflight[1]
      BY <2>2, <3>3
    <3>5. CASE inflight = <<>>
      BY <1>4, <3>1, <3>4, <3>5
    <3>6. CASE inflight # <<>>
      BY <3>2, <3>4, <3>6
    <3> QED
      BY <3>5, <3>6
  <2>8. PromptClientStays'
    BY <1>6 DEF PromptClientStays
  <2> QED
    BY <2>4, <2>5, <2>6, <2>7, <2>8
<1> QED
  BY <1>5, <1>6

(* onKeepAlive keeps the invariant: the next question is at most an interval off. *)
LEMMA AnswerStep == LoopInv /\ OnKeepAlive => LoopInv'
<1> SUFFICES ASSUME LoopInv, OnKeepAlive PROVE LoopInv'
  OBVIOUS
<1> USE Constants DEF LoopInv, OnKeepAlive
<1>1. /\ inflight \in Seq(0..Latest) /\ inflight # <<>>
      /\ loops \in Seq(0..Interval)
  BY DEF TypeOK
<1>2. /\ inflight' \in Seq(0..Latest)
      /\ \A j \in DOMAIN inflight' :
            j + 1 \in DOMAIN inflight /\ inflight'[j] = inflight[j + 1]
  BY <1>1, TailFacts
<1>3. latency' \in 0..Latest
  BY <1>1, ElementOfSeq, EmptySeq, LenProperties
<1>4. TypeOK'
  BY <1>2, <1>3 DEF TypeOK
<1>5. Counted' /\ Together' /\ PromptClientStays'
  BY DEF Counted, LoopsEnd, InTime, Together, PromptClientStays
<1>6. Answered'
  BY <1>2 DEF Answered
<1>7. DOMAIN loops = 1..Len(loops) /\ \A i \in DOMAIN loops : loops[i] \in 0..Interval
  BY <1>1, ElementOfSeq, LenProperties
<1>8. Overdue'
  BY <1>7 DEF Overdue
<1>9. Asked'
  <2> SUFFICES ASSUME conn = "open", plays > 0
               PROVE  IF inflight' = <<>>
                      THEN \E i \in DOMAIN loops : 0 + loops[i] <= Interval
                      ELSE 0 <= Interval + inflight'[1]
    BY DEF Asked
  <2>1. 1 \in DOMAIN loops
    BY <1>7 DEF Counted, TypeOK
  <2>2. inflight' # <<>> => inflight'[1] \in Nat
    BY <1>2, ElementOfSeq, EmptySeq, LenProperties
  <2> QED
    BY <2>1, <2>2, <1>7
<1> QED
  BY <1>4, <1>5, <1>6, <1>8, <1>9

(* Time keeps the invariant: an interval or an answer is due before a bound is passed. *)
LEMMA TickStep == LoopInv /\ Tick => LoopInv'
<1> SUFFICES ASSUME LoopInv, Tick PROVE LoopInv'
  OBVIOUS
<1> USE Constants DEF LoopInv, Tick
<1>1. /\ loops \in Seq(0..Interval) /\ inflight \in Seq(0..Latest)
      /\ DOMAIN loops = 1..Len(loops) /\ Len(loops) \in Nat
      /\ DOMAIN inflight = 1..Len(inflight) /\ Len(inflight) \in Nat
      /\ \A i \in DOMAIN loops : loops[i] \in 1..Interval
      /\ \A j \in DOMAIN inflight : inflight[j] \in 0..Latest
  <2>1. loops \in Seq(0..Interval) /\ inflight \in Seq(0..Latest)
    BY DEF TypeOK
  <2>2. /\ DOMAIN loops = 1..Len(loops) /\ Len(loops) \in Nat
        /\ \A i \in DOMAIN loops : loops[i] \in 0..Interval
    BY ONLY <2>1, SeqFacts
  <2>3. /\ DOMAIN inflight = 1..Len(inflight) /\ Len(inflight) \in Nat
        /\ \A j \in DOMAIN inflight : inflight[j] \in 0..Latest
    BY ONLY <2>1, SeqFacts
  <2> QED
    BY <2>1, <2>2, <2>3
<1>2. /\ DOMAIN loops' = DOMAIN loops
      /\ \A i \in DOMAIN loops : loops'[i] = loops[i] - 1
      /\ DOMAIN inflight' = DOMAIN inflight
      /\ \A j \in DOMAIN inflight : inflight'[j] = inflight[j] + 1
  OBVIOUS
<1>3. MaxAnswer <= Latest
  BY DEF Latest
<1>4. \A j \in DOMAIN inflight : inflight'[j] \in 0..Latest
  BY <1>1, <1>2, <1>3
<1>5. loops' \in Seq(0..Interval) /\ Len(loops') = Len(loops)
  <2>1. \A i \in 1..Len(loops) : loops[i] - 1 \in 0..Interval
    <3> SUFFICES ASSUME NEW i \in 1..Len(loops) PROVE loops[i] - 1 \in 0..Interval
      OBVIOUS
    <3>1. loops[i] \in 1..Interval
      BY <1>1
    <3> QED
      BY ONLY <3>1, Constants
  <2> QED
    BY <1>1, <2>1, FunctionIsSeq
<1>6. inflight' \in Seq(0..Latest) /\ Len(inflight') = Len(inflight)
  <2>1. \A j \in 1..Len(inflight) : inflight[j] + 1 \in 0..Latest
    BY <1>1, <1>2, <1>4
  <2> QED
    BY <1>1, <2>1, FunctionIsSeq
<1>7. quiet \in 0..Latest /\ silence \in 0..Latest
  BY DEF TypeOK
<1>8. quiet' \in 0..Latest /\ quiet' <= quiet + 1 /\ silence' = quiet'
  BY <1>7 DEF Least, Together
<1>9. TypeOK'
  BY <1>5, <1>6, <1>8 DEF TypeOK
<1>10. Counted' /\ Together' /\ PromptClientStays'
  BY <1>5, <1>8 DEF Counted, LoopsEnd, InTime, Together, PromptClientStays
<1>11. Answered'
  BY <1>1, <1>2 DEF Answered
<1>12. Overdue'
  BY <1>1, <1>2, <1>7, <1>8 DEF Overdue
<1>13. Asked'
  <2> SUFFICES ASSUME conn = "open", peer = "prompt", plays > 0
               PROVE  IF inflight' = <<>>
                      THEN \E i \in DOMAIN loops' : quiet' + loops'[i] <= Interval
                      ELSE quiet' <= Interval + inflight'[1]
    BY DEF Asked
  <2>1. (inflight = <<>> <=> Len(inflight) = 0) /\ (inflight' = <<>> <=> Len(inflight) = 0)
    BY <1>1, <1>6, EmptySeq
  <2>2. CASE inflight = <<>>
    <3>1. PICK i \in DOMAIN loops : quiet + loops[i] <= Interval
      BY <2>2 DEF Asked
    <3>2. i \in DOMAIN loops' /\ quiet' + loops'[i] <= Interval
      BY <3>1, <1>1, <1>2, <1>7, <1>8
    <3> QED
      BY <2>1, <2>2, <3>2
  <2>3. CASE inflight # <<>>
    <3>1. 1 \in DOMAIN inflight
      BY <2>1, <2>3, <1>1
    <3>2. quiet <= Interval + inflight[1]
      BY <2>3 DEF Asked
    <3>3. inflight'[1] = inflight[1] + 1 /\ inflight[1] \in Nat
      BY <3>1, <1>1, <1>2
    <3>4. inflight' # <<>>
      BY <2>1, <2>3
    <3>5. quiet' <= Interval + inflight'[1]
      BY ONLY <3>2, <3>3, <1>7, <1>8, Constants
    <3> QED
      BY <3>4, <3>5
  <2> QED
    BY <2>2, <2>3
<1> QED
  BY <1>9, <1>10, <1>11, <1>12, <1>13

(* The end of the socket stops one interval. *)
LEMMA EndStep == LoopInv /\ EndSocket => LoopInv'
<1> SUFFICES ASSUME LoopInv, EndSocket PROVE LoopInv'
  OBVIOUS
<1> USE Constants DEF LoopInv, EndSocket
<1>1. loops \in Seq(0..Interval) /\ plays \in Nat /\ Len(loops) = plays /\ late = 0
  BY DEF TypeOK, Counted
<1>2. loops' \in Seq(0..Interval) /\ Len(loops') = IF plays > 0 THEN plays - 1 ELSE 0
  <2>1. loops # <<>> <=> plays > 0
    BY <1>1, EmptySeq
  <2> QED
    BY <1>1, <2>1, AllButLastFacts, EmptySeq
<1>3. inflight' \in Seq(0..Latest) /\ DOMAIN inflight' = {}
  BY EmptySeq
<1>4. TypeOK'
  BY <1>1, <1>2, <1>3 DEF TypeOK
<1>5. Counted' /\ Together' /\ Answered'
  BY <1>1, <1>2, <1>3 DEF Counted, LoopsEnd, InTime, Together, Answered
<1>6. Overdue' /\ Asked' /\ PromptClientStays'
  BY DEF Overdue, Asked, PromptClientStays
<1> QED
  BY <1>4, <1>5, <1>6

(* Steps that leave the intervals and the clocks alone keep the invariant. *)
LEMMA OtherSteps == LoopInv /\ (Reconfigure \/ FallSilent \/ EndCalled \/ UNCHANGED vars) => LoopInv'
<1> SUFFICES ASSUME LoopInv PROVE Reconfigure \/ FallSilent \/ EndCalled \/ UNCHANGED vars => LoopInv'
  OBVIOUS
<1> USE Constants DEF LoopInv
<1>1. CASE Reconfigure
  <2>1. TypeOK'
    BY <1>1 DEF TypeOK, Reconfigure
  <2> QED
    BY <1>1, <2>1 DEF Reconfigure, Counted, LoopsEnd, InTime, Together, Answered,
                      Overdue, Asked, PromptClientStays
<1>2. CASE FallSilent
  <2>1. inflight' \in Seq(0..Latest) /\ DOMAIN inflight' = {} /\ peer' = "silent"
    BY <1>2, EmptySeq DEF FallSilent
  <2>2. TypeOK'
    BY <1>2, <2>1 DEF TypeOK, FallSilent
  <2> QED
    BY <1>2, <2>1, <2>2 DEF FallSilent, Counted, LoopsEnd, InTime, Together,
                            Answered, Overdue, Asked, PromptClientStays
<1>3. CASE EndCalled
  BY <1>3 DEF EndCalled, TypeOK, Counted, LoopsEnd, InTime, Together, Answered,
              Overdue, Asked, PromptClientStays
<1>4. CASE UNCHANGED vars
  BY <1>4 DEF vars, TypeOK, Counted, LoopsEnd, InTime, Together, Answered,
              Overdue, Asked, PromptClientStays
<1> QED
  BY <1>1, <1>2, <1>3, <1>4

(* The inductive invariant holds for every interval, timeout and bound. *)
THEOREM Invariance == Spec => []LoopInv
<1>1. LoopInv /\ [Next]_vars => LoopInv'
  BY StartStep, LoopStep, AnswerStep, TickStep, EndStep, OtherSteps
     DEF Next, LoopFires
<1> QED
  BY InitLoop, <1>1, PTL DEF Spec

-----------------------------------------------------------------------------

(***************************************************************************)
(* The state of the loop keeps its types, and no more intervals run than   *)
(* PLAY was entered, for every interval, timeout and bound.                *)
(***************************************************************************)
THEOREM TypeCorrect == Spec => []TypeOK
<1>1. LoopInv => TypeOK
  BY DEF LoopInv
<1> QED
  BY <1>1, Invariance, PTL

(***************************************************************************)
(* keepAliveLoop never kicks a client that answers within MaxAnswer,       *)
(* whatever the interval, provided that and one interval fit the timeout.  *)
(***************************************************************************)
THEOREM NeverKicked == Spec => []PromptClientStays
<1>1. LoopInv => PromptClientStays
  BY DEF LoopInv
<1> QED
  BY <1>1, Invariance, PTL

(***************************************************************************)
(* keepAliveLoop leaves no client open that was silent for the timeout and *)
(* an interval.                                                            *)
(***************************************************************************)
THEOREM SilenceIsBounded == Spec => []KickedInTime
<1>1. LoopInv => KickedInTime
  <2> SUFFICES ASSUME LoopInv, plays > 0, conn = "open"
               PROVE  silence <= KickTimeout + Interval
    BY DEF KickedInTime
  <2>1. Len(loops) = plays /\ loops \in Seq(0..Interval) /\ plays \in Nat
    BY DEF LoopInv, TypeOK, Counted
  <2>2. 1 \in DOMAIN loops /\ loops[1] \in Nat
    <3>1. DOMAIN loops = 1..Len(loops) /\ \A i \in DOMAIN loops : loops[i] \in 0..Interval
      BY ONLY <2>1, SeqFacts
    <3> QED
      BY <2>1, <3>1
  <2> QED
    BY <2>2, Constants DEF LoopInv, TypeOK, Together, Overdue
<1> QED
  BY <1>1, Invariance, PTL

(***************************************************************************)
(* What keepalive.js leaves running of a connection that has ended is the  *)
(* interval of each entry into PLAY that another followed before the end,  *)
(* and of each behind it, for every interval, timeout and bound.           *)
(***************************************************************************)
THEOREM IntervalsLeft == Spec => []LoopsEnd
<1>1. LoopInv => LoopsEnd
  BY DEF LoopInv, Counted, LoopsEnd
<1> QED
  BY <1>1, Invariance, PTL

-----------------------------------------------------------------------------
(***************************************************************************)
(* The keep_alives on their way are younger one after the other, and with  *)
(* one interval each but the newest is older than it.                      *)
(***************************************************************************)
Sorted == \A i, j \in DOMAIN inflight : i <= j => inflight[j] <= inflight[i]

Spaced ==
    plays = 1 =>
        \A j \in DOMAIN inflight :
            /\ \A i \in DOMAIN loops : Interval <= loops[i] + inflight[j]
            /\ j < Len(inflight) => Interval <= inflight[j]

Rounds ==
    /\ Sorted
    /\ Spaced
    /\ plays = 0 => inflight = <<>>

LEMMA InitRounds == Init => Rounds
BY EmptySeq DEF Init, Rounds, Sorted, Spaced

LEMMA StepRounds == LoopInv /\ Rounds /\ [Next]_vars => Rounds'
<1> SUFFICES ASSUME LoopInv, Rounds, [Next]_vars PROVE Rounds'
  OBVIOUS
<1> USE Constants DEF Rounds
<1>1. loops \in Seq(0..Interval) /\ inflight \in Seq(0..Latest) /\ plays \in Nat
  BY DEF LoopInv, TypeOK
<1>2. /\ Len(loops) \in Nat /\ DOMAIN loops = 1..Len(loops)
      /\ \A i \in DOMAIN loops : loops[i] \in 0..Interval
      /\ Len(inflight) \in Nat /\ DOMAIN inflight = 1..Len(inflight)
      /\ \A j \in DOMAIN inflight : inflight[j] \in 0..Latest
      /\ inflight = <<>> <=> Len(inflight) = 0
  <2>1. /\ Len(loops) \in Nat /\ DOMAIN loops = 1..Len(loops)
        /\ \A i \in DOMAIN loops : loops[i] \in 0..Interval
    BY ONLY <1>1, SeqFacts
  <2>2. /\ Len(inflight) \in Nat /\ DOMAIN inflight = 1..Len(inflight)
        /\ \A j \in DOMAIN inflight : inflight[j] \in 0..Latest
        /\ inflight = <<>> <=> Len(inflight) = 0
    BY ONLY <1>1, SeqFacts
  <2> QED BY <2>1, <2>2
<1>3. Len(loops) <= plays
  BY DEF LoopInv, TypeOK
<1>4. ASSUME inflight' = <<>>
      PROVE  Rounds'
  <2>1. DOMAIN inflight' = {}
    BY <1>4, EmptySeq
  <2> QED BY <1>4, <2>1 DEF Sorted, Spaced
<1>5. CASE StartKeepAlive
  <2>1. inflight' = inflight /\ plays' = plays + 1 /\ (plays' = 1 => plays = 0)
    BY <1>1, <1>5 DEF StartKeepAlive
  <2> QED BY <1>2, <1>4, <1>1, <2>1 DEF Sorted, Spaced
<1>6. ASSUME NEW k \in DOMAIN loops, KeepAliveLoop(k)
      PROVE  Rounds'
  <2>1. plays' = plays /\ plays # 0 /\ loops[k] = 0
    BY <1>2, <1>3, <1>6 DEF KeepAliveLoop
  <2>2. /\ DOMAIN loops' = DOMAIN loops /\ loops'[k] = Interval
        /\ plays = 1 => \A i \in DOMAIN loops : i = k
    BY <1>1, <1>2, <1>3, <1>6 DEF KeepAliveLoop
  <2>3. CASE inflight' = inflight
    BY <1>2, <2>1, <2>2, <2>3 DEF Sorted, Spaced
  <2>4. CASE inflight' = Append(inflight, 0)
    <3>1. 0 \in 0..Latest
      OBVIOUS
    <3>2. /\ Append(inflight, 0) \in Seq(0..Latest)
          /\ Len(Append(inflight, 0)) = Len(inflight) + 1
          /\ \A j \in 1..Len(inflight) : Append(inflight, 0)[j] = inflight[j]
          /\ Append(inflight, 0)[Len(inflight) + 1] = 0
      BY ONLY <1>1, <3>1, AppendProperties
    <3>3. DOMAIN Append(inflight, 0) = 1..Len(Append(inflight, 0))
      BY ONLY <3>2, LenProperties
    <3>4. /\ Len(inflight') = Len(inflight) + 1 /\ DOMAIN inflight' = 1..Len(inflight')
          /\ \A j \in 1..Len(inflight) : inflight'[j] = inflight[j]
          /\ inflight'[Len(inflight) + 1] = 0
      BY <2>4, <3>2, <3>3
    <3>5. Sorted'
      BY <1>2, <3>4 DEF Sorted
    <3>6. Spaced'
      <4> SUFFICES ASSUME plays = 1, NEW j \in DOMAIN inflight'
                   PROVE  /\ \A i \in DOMAIN loops' : Interval <= loops'[i] + inflight'[j]
                          /\ j < Len(inflight') => Interval <= inflight'[j]
        BY <2>1 DEF Spaced
      <4>1. inflight'[j] \in Nat
        BY <1>2, <3>4
      <4>2. j < Len(inflight') => Interval <= inflight'[j]
        BY <1>2, <2>1, <3>4 DEF Spaced
      <4> QED BY <2>2, <4>1, <4>2
    <3> QED BY <2>1, <3>5, <3>6
  <2> QED BY <1>6, <2>3, <2>4 DEF KeepAliveLoop
<1>7. CASE OnKeepAlive
  <2>1. inflight # <<>> /\ inflight' = Tail(inflight) /\ plays' = plays /\ loops' = loops
    BY <1>7 DEF OnKeepAlive
  <2>2. /\ Len(inflight') = Len(inflight) - 1 /\ DOMAIN inflight' = 1..Len(inflight')
        /\ \A j \in 1..Len(inflight') : inflight'[j] = inflight[j + 1]
    BY <1>1, <1>2, <2>1
  <2>3. \A j \in DOMAIN inflight' : j + 1 \in DOMAIN inflight
    BY <1>2, <2>2
  <2>4. Sorted'
    BY <1>2, <2>2, <2>3 DEF Sorted
  <2>5. Spaced'
    BY <1>2, <2>1, <2>2, <2>3 DEF Spaced
  <2>6. plays # 0
    BY <2>1
  <2> QED BY <2>1, <2>4, <2>5, <2>6
<1>8. CASE Tick
  <2>1. /\ DOMAIN loops' = DOMAIN loops /\ plays' = plays
        /\ \A i \in DOMAIN loops : loops'[i] = loops[i] - 1
        /\ DOMAIN inflight' = DOMAIN inflight
        /\ \A j \in DOMAIN inflight : inflight'[j] = inflight[j] + 1
    BY <1>8 DEF Tick
  <2>2. Len(inflight') = Len(inflight)
    <3>1. inflight' \in Seq(Nat) /\ Len(inflight') = Len(inflight)
      <4>1. \A j \in 1..Len(inflight) : inflight[j] + 1 \in Nat
        BY <1>2
      <4>2. inflight' \in [1..Len(inflight) -> Nat]
        BY <1>2, <1>8, <4>1 DEF Tick
      <4> QED BY <1>2, <4>2, FunctionIsSeq
    <3> QED BY <3>1
  <2>3. Sorted'
    BY <1>2, <2>1 DEF Sorted
  <2>4. Spaced'
    BY <1>2, <2>1, <2>2 DEF Spaced
  <2>5. plays' = 0 => inflight' = <<>>
    <3>1. inflight = <<>> => inflight' = <<>>
      BY <1>2, <1>8 DEF Tick
    <3> QED BY <2>1, <3>1
  <2> QED BY <2>3, <2>4, <2>5
<1>9. CASE EndSocket \/ FallSilent
  BY <1>4, <1>9 DEF EndSocket, FallSilent
<1>10. CASE Reconfigure \/ EndCalled \/ UNCHANGED vars
  BY <1>10 DEF Reconfigure, EndCalled, vars, Sorted, Spaced
<1> QED BY <1>5, <1>6, <1>7, <1>8, <1>9, <1>10 DEF Next, LoopFires

(***************************************************************************)
(* What onKeepAlive makes of the latency is never more than the round trip *)
(* took, and is just that if one interval runs and it took less than one,  *)
(* for every interval and timeout.                                         *)
(***************************************************************************)
THEOREM RoundTripMeasured == Spec => LatencyExact
<1>1. LoopInv /\ Rounds =>
        [OnKeepAlive => /\ latency' <= inflight[1]
                        /\ plays = 1 /\ inflight[1] < Interval => latency' = inflight[1]]_vars
  <2> SUFFICES ASSUME LoopInv, Rounds, OnKeepAlive
               PROVE  /\ latency' <= inflight[1]
                      /\ plays = 1 /\ inflight[1] < Interval => latency' = inflight[1]
    OBVIOUS
  <2> USE Constants DEF Rounds
  <2>1. inflight \in Seq(0..Latest) /\ inflight # <<>> /\ latency' = inflight[Len(inflight)]
    BY DEF LoopInv, TypeOK, OnKeepAlive
  <2>2. /\ Len(inflight) \in Nat /\ DOMAIN inflight = 1..Len(inflight)
        /\ \A j \in DOMAIN inflight : inflight[j] \in 0..Latest
        /\ inflight = <<>> <=> Len(inflight) = 0
    BY ONLY <2>1, SeqFacts
  <2>3. 1 \in DOMAIN inflight /\ Len(inflight) \in DOMAIN inflight /\ 1 <= Len(inflight)
    BY <2>1, <2>2
  <2>4. latency' <= inflight[1]
    BY <2>1, <2>3 DEF Sorted
  <2>5. ASSUME plays = 1, inflight[1] < Interval
        PROVE  latency' = inflight[1]
    <3>1. ~(1 < Len(inflight))
      BY <2>2, <2>3, <2>5 DEF Spaced
    <3>2. Len(inflight) = 1
      BY <2>2, <2>3, <3>1
    <3> QED BY <2>1, <3>2
  <2> QED BY <2>4, <2>5
<1>2. LoopInv /\ [Next]_vars => LoopInv'
  BY StartStep, LoopStep, AnswerStep, TickStep, EndStep, OtherSteps
     DEF Next, LoopFires
<1> QED BY <1>1, <1>2, InitLoop, InitRounds, StepRounds, PTL DEF Spec, LatencyExact
-----------------------------------------------------------------------------
(***************************************************************************)
(* The windows of signed chat                                              *)
(***************************************************************************)

(***************************************************************************)
(* The messages of a game are numbered on from base.  The n-th is pending  *)
(* if it was broadcast behind the one that a chat_message told last; what  *)
(* is not behind base is a place that was never filled.                    *)
(***************************************************************************)
LatestAt(base, known, n) ==
    [signature |-> IF n > base THEN n ELSE NoSignature, pending |-> n > known]

(* The window w ends with the message that was broadcast last. *)
Kept(w, all, base, known) ==
    /\ Len(w) >= Capacity
    /\ \A q \in 1..Len(w) : w[q] = LatestAt(base, known, all - Len(w) + q)

(* The ring r, read from o on, ends with the message that was handled last. *)
Round(r, o, base, known, last) ==
    \A i \in Slot : r[(o + i) % Capacity] = LatestAt(base, known, last - Capacity + i + 1)

(* What is broadcast and not handled is under way, in order. *)
Unread(s, last, all) ==
    /\ \A x \in 1..Len(s) : s[x].name = "player_chat" => s[x].signature \in last + 1..all
    /\ \A x, y \in 1..Len(s) :
          s[x].name = "player_chat" /\ s[y].name = "player_chat" /\ x < y =>
              s[x].signature < s[y].signature
    /\ \A n \in last + 1..all :
          \E x \in 1..Len(s) : s[x].name = "player_chat" /\ s[x].signature = n

(***************************************************************************)
(* A packet of the client takes the server from one point to another: the  *)
(* number of the message at the end of its window's first Capacity         *)
(* entries, that of the one that was told last, and the session's index.   *)
(* Where something is acknowledged the index stays, for Buffer.concat      *)
(* throws before it is counted.                                            *)
(***************************************************************************)
Point == [front: Int, told: Int, index: Int]

Moves(p, a, b, base) ==
    \/ /\ p.name \in {"configuration_acknowledged", "chat_command"}
       /\ b = a
    \/ /\ p.name = "message_acknowledgement"
       /\ b.front = a.front + p.count /\ b.told = a.told /\ b.index = a.index
    \/ /\ p.name = "chat_session_update"
       /\ b.front = a.front /\ b.told = a.told /\ b.index = 0
    \/ /\ p.name = "chat_message"
       /\ b.front = a.front + p.offset /\ b.told = b.front
       /\ p.acknowledged = {i \in Slot : b.front - Capacity + i + 1 > base}
       /\ \/ p.acknowledged = {} /\ p.index = a.index /\ b.index = a.index + 1
          \/ p.acknowledged # {} /\ b.index = a.index

Within(a, base, last) == base <= a.told /\ a.told <= a.front /\ a.front <= last

(* The packets under way take the server's window to the client's ring. *)
Leads(s, h, base, last) ==
    /\ h \in [0..Len(s) -> Point]
    /\ \A j \in 1..Len(s) : Moves(s[j], h[j - 1], h[j], base)
    /\ \A j \in 0..Len(s) : Within(h[j], base, last)

Follows(base, last, h) ==
    /\ base <= last /\ last <= sent
    /\ Unread(toClient, last, sent)
    /\ Kept(window, sent, base, h[0].told)
    /\ h[0].front = sent - Len(window) + Capacity
    /\ Leads(toServer, h, base, last)
    /\ h[Len(toServer)].front = last - pending
    /\ Round(ring, offset, base, h[Len(toServer)].told, last)
    /\ enforced => h[0].index = expects
    /\ last = base => h[Len(toServer)].index = index

Aligned ==
    \E base, last \in Nat : \E h : Follows(base, last, h)

(* The game is new to the client, which has not handled its login packet. *)
Fresh ==
    \E base \in Nat :
        /\ base <= sent
        /\ Unread(toClient, base, sent)
        /\ Kept(window, sent, base, base)
        /\ base = sent - Len(window) + Capacity

-----------------------------------------------------------------------------

(* From its k-th packet on s is a game, to its end if the server leaves it. *)
Game(s, k, leaves) ==
    /\ \A x \in k..Len(s) :
          /\ s[x].name \in {"player_chat", "hide_message", "start_configuration"}
          /\ s[x].name = "start_configuration" <=> leaves /\ x = Len(s)
    /\ leaves => Len(s) >= k

Playing ==
    /\ clientState = "play" /\ serverState \in {"play", "leaving"}
    /\ Game(toClient, 1, serverState = "leaving")
    /\ \A j \in 1..Len(toServer) : toServer[j].name # "configuration_acknowledged"

Leaving ==
    /\ clientState = "configuration" /\ serverState = "leaving"
    /\ toClient = <<>> /\ toServer # <<>>
    /\ \A j \in 1..Len(toServer) :
          toServer[j].name = "configuration_acknowledged" <=> j = Len(toServer)

Between ==
    /\ clientState = "configuration" /\ serverState = "configuration"
    /\ toClient = <<>> /\ toServer = <<>>

Entering ==
    /\ clientState = "configuration" /\ serverState \in {"play", "leaving"}
    /\ toServer = <<>> /\ toClient # <<>>
    /\ toClient[1].name = "login"
    /\ Game(toClient, 2, serverState = "leaving")

Seens == [signature: Nat, pending: BOOLEAN]

ToClient ==
    [name: {"player_chat"}, signature: Nat]
        \cup [name: {"hide_message"}, signature: Nat, cached: BOOLEAN]
        \cup [name: {"start_configuration", "login"}]

ToServer ==
    [name: {"chat_message"}, offset: Nat, acknowledged: SUBSET Slot, index: Nat]
        \cup [name: {"message_acknowledgement"}, count: Nat]
        \cup [name: {"configuration_acknowledged", "chat_command", "chat_session_update"}]

WindowTyped ==
    /\ ring \in [Slot -> Seens] /\ offset \in Slot /\ pending \in Nat
    /\ window \in Seq(Seens)
    /\ toClient \in Seq(ToClient) /\ toServer \in Seq(ToServer)
    /\ sent \in Nat /\ index \in Nat /\ expects \in Nat

(* Nothing was astray: a server that logs no message has sent none. *)
Followed ==
    /\ ~enforced => sent = 0
    /\ Playing \/ Leaving => Aligned
    /\ Entering => Fresh

WindowInv ==
    /\ WindowTyped
    /\ Connected => Playing \/ Leaving \/ Between \/ Entering
    /\ Connected /\ ~astray => Followed
    /\ FaultlessClient

LEMMA Sizes ==
    /\ Capacity \in Nat /\ Capacity >= 1
    /\ AckAfter \in Nat /\ AckAfter >= 1
BY ChatWindowAssumption

LEMMA Wraps ==
    ASSUME NEW a \in Nat, NEW b \in Nat, a < Capacity, b <= Capacity
    PROVE  (a + b) % Capacity = IF a + b < Capacity THEN a + b ELSE a + b - Capacity
<1> USE Sizes
<1> PICK n \in Nat : n = a + b
  OBVIOUS
<1>1. CASE n < Capacity
  BY <1>1
<1>2. CASE n >= Capacity
  BY <1>2
<1> QED BY <1>1, <1>2

(* The entries there are: not filled, told and pending. *)
LEMMA Latest3 ==
    ASSUME NEW base \in Int, NEW known \in Int, NEW n \in Int
    PROVE  /\ n <= base /\ n <= known => LatestAt(base, known, n) = Empty
           /\ n > base /\ n <= known =>
                  LatestAt(base, known, n) = [signature |-> n, pending |-> FALSE]
           /\ n > base /\ n > known =>
                  LatestAt(base, known, n) = [signature |-> n, pending |-> TRUE]
<1>1. ASSUME n <= base, n <= known PROVE LatestAt(base, known, n) = Empty
  <2>1. (IF n > base THEN n ELSE NoSignature) = NoSignature /\ (n > known) = FALSE
    BY <1>1
  <2> QED BY ONLY <2>1, Zenon DEF LatestAt, Empty
<1>2. ASSUME n > base, n <= known
      PROVE  LatestAt(base, known, n) = [signature |-> n, pending |-> FALSE]
  <2>1. (IF n > base THEN n ELSE NoSignature) = n /\ (n > known) = FALSE
    BY <1>2
  <2> QED BY ONLY <2>1, Zenon DEF LatestAt
<1>3. ASSUME n > base, n > known
      PROVE  LatestAt(base, known, n) = [signature |-> n, pending |-> TRUE]
  <2>1. (IF n > base THEN n ELSE NoSignature) = n /\ (n > known) = TRUE
    BY <1>3
  <2> QED BY ONLY <2>1, Zenon DEF LatestAt
<1> QED BY <1>1, <1>2, <1>3

(***************************************************************************)
(* The client's ring                                                       *)
(***************************************************************************)
LEMMA RingPush ==
    ASSUME NEW r \in [Slot -> Seens], NEW o \in Slot,
           NEW base \in Nat, NEW known \in Int, NEW last \in Nat,
           base <= known, known <= last, Round(r, o, base, known, last)
    PROVE  LET p == [signature |-> last + 1, pending |-> TRUE]
               t == [r EXCEPT ![o] = p]
           IN  /\ t \in [Slot -> Seens] /\ (o + 1) % Capacity \in Slot
               /\ Round(t, (o + 1) % Capacity, base, known, last + 1)
<1> DEFINE p == [signature |-> last + 1, pending |-> TRUE]
           t == [r EXCEPT ![o] = p]
           next == (o + 1) % Capacity
<1> USE Sizes DEF Slot
<1>1. p \in Seens
  BY DEF Seens
<1>2. t \in [Slot -> Seens]
  BY <1>1
<1>3. next = IF o + 1 < Capacity THEN o + 1 ELSE 0
  <2>1. o \in Nat /\ o < Capacity /\ 1 \in Nat /\ 1 <= Capacity
    OBVIOUS
  <2>2. (o + 1) % Capacity = IF o + 1 < Capacity THEN o + 1 ELSE o + 1 - Capacity
    BY ONLY <2>1, Wraps
  <2> QED BY <2>1, <2>2
<1>4. next \in Slot
  BY <1>3
<1>5. LatestAt(base, known, last + 1) = p
  <2>1. last + 1 \in Int /\ last + 1 > base /\ last + 1 > known
    OBVIOUS
  <2> QED BY ONLY base \in Int, known \in Int, <2>1, Latest3
<1>6. ASSUME NEW i \in Slot
      PROVE  t[(next + i) % Capacity] = LatestAt(base, known, last + 1 - Capacity + i + 1)
  <2>1. (next + i) % Capacity = IF next + i < Capacity THEN next + i ELSE next + i - Capacity
    <3> HIDE DEF next
    <3>1. next \in Nat /\ next < Capacity /\ i \in Nat /\ i <= Capacity
      BY <1>4
    <3> QED BY ONLY <3>1, Wraps
  <2>2. CASE i = Capacity - 1
    <3>1. (next + i) % Capacity = o
      BY <2>1, <2>2, <1>3
    <3>2. last + 1 - Capacity + i + 1 = last + 1
      BY <2>2
    <3>3. t[o] = p
      BY <1>1
    <3> QED BY <3>1, <3>2, <3>3, <1>5
  <2>3. CASE i # Capacity - 1
    <3>1. i + 1 \in Slot
      BY <2>3
    <3>2. (o + (i + 1)) % Capacity =
              IF o + (i + 1) < Capacity THEN o + (i + 1) ELSE o + (i + 1) - Capacity
      <4>1. o \in Nat /\ o < Capacity /\ i + 1 \in Nat /\ i + 1 <= Capacity
        BY <3>1
      <4> QED BY ONLY <4>1, Wraps
    <3>3. (next + i) % Capacity = (o + (i + 1)) % Capacity /\ (next + i) % Capacity # o
          /\ (next + i) % Capacity \in Slot
      <4> HIDE DEF next
      <4>1. PICK n \in Nat : n = next
        BY <1>4
      <4>2. PICK m \in Nat : m = Capacity
        OBVIOUS
      <4>3. /\ n = IF o + 1 < m THEN o + 1 ELSE 0
            /\ (next + i) % Capacity = IF n + i < m THEN n + i ELSE n + i - m
            /\ (o + (i + 1)) % Capacity = IF o + (i + 1) < m THEN o + (i + 1) ELSE o + (i + 1) - m
            /\ o \in 0..m - 1 /\ i \in 0..m - 1 /\ i # m - 1
        BY <2>1, <3>2, <1>3, <2>3, <4>1, <4>2
      <4>4. PICK u \in Int, v \in Int : u = (next + i) % Capacity /\ v = (o + (i + 1)) % Capacity
        BY <4>3
      <4>5. u = v /\ u # o /\ u \in 0..m - 1
        BY ONLY <4>3, <4>4, n \in Nat, m \in Nat, u \in Int, v \in Int
      <4> QED BY <4>2, <4>4, <4>5
    <3>4. r[(o + (i + 1)) % Capacity] = LatestAt(base, known, last - Capacity + (i + 1) + 1)
      BY <3>1 DEF Round
    <3>5. last - Capacity + (i + 1) + 1 = last + 1 - Capacity + i + 1
      OBVIOUS
    <3>6. t[(next + i) % Capacity] = r[(next + i) % Capacity]
      BY <3>3
    <3> HIDE DEF t, next
    <3> QED BY <3>3, <3>4, <3>5, <3>6
  <2> QED BY <2>2, <2>3
<1>7. Round(t, next, base, known, last + 1)
  <2> HIDE DEF t, next, Slot
  <2> QED BY <1>6 DEF Round
<1> QED BY <1>2, <1>4, <1>7

(* A chat_message says of all that was seen that it was. *)
LEMMA RingTold ==
    ASSUME NEW r \in [Slot -> Seens], NEW o \in Slot,
           NEW base \in Nat, NEW known \in Int, NEW last \in Nat,
           base <= known, known <= last, Round(r, o, base, known, last)
    PROVE  LET t == [i \in Slot |-> Told(r[i])]
           IN  /\ t \in [Slot -> Seens]
               /\ Round(t, o, base, last, last)
<1> DEFINE t == [i \in Slot |-> Told(r[i])]
<1>1. t \in [Slot -> Seens]
  BY DEF Seens, Told
<1>2. ASSUME NEW i \in Slot
      PROVE  t[(o + i) % Capacity] = LatestAt(base, last, last - Capacity + i + 1)
  <2>1. (o + i) % Capacity \in Slot
    BY Wraps, Sizes DEF Slot
  <2>2. i \in Int /\ last - Capacity + i + 1 \in Int /\ last - Capacity + i + 1 <= last
    BY Sizes DEF Slot
  <2> DEFINE k == (o + i) % Capacity
             n == last - Capacity + i + 1
  <2>3. r[k] = LatestAt(base, known, n)
    BY DEF Round
  <2>4. t[k] = IF Seen(r[k]) THEN [r[k] EXCEPT !.pending = FALSE] ELSE r[k]
    BY <2>1 DEF Told
  <2> HIDE DEF k, n, t
  <2>5. n \in Int /\ n <= last
    BY <2>2 DEF n
  <2>6. CASE n > base
    <3>1. r[k].signature = n
      <4>1. LatestAt(base, known, n).signature = n
        BY <2>6 DEF LatestAt
      <4> QED BY <2>3, <4>1
    <3>2. Seen(r[k])
      BY <3>1, <2>6 DEF Seen, NoSignature
    <3>3. LatestAt(base, last, n) = [signature |-> n, pending |-> FALSE]
      BY ONLY base \in Int, last \in Int, <2>5, <2>6, Latest3
    <3>4. r[k] \in Seens
      BY <2>1 DEF k
    <3>5. t[k] = [signature |-> r[k].signature, pending |-> FALSE]
      BY <2>4, <3>2, <3>4 DEF Seens
    <3> QED BY <3>1, <3>3, <3>5 DEF k, n
  <2>7. CASE n <= base
    <3>1. r[k] = Empty
      BY <2>3, <2>5, <2>7, Latest3
    <3>2. t[k] = Empty
      BY <3>1, <2>4 DEF Seen, Empty
    <3>3. LatestAt(base, last, n) = Empty
      BY <2>5, <2>7, Latest3
    <3> QED BY <3>2, <3>3 DEF k, n
  <2> QED BY <2>5, <2>6, <2>7
<1>3. Round(t, o, base, last, last)
  <2> HIDE DEF t
  <2> QED BY <1>2 DEF Round
<1> QED BY <1>1, <1>3

LEMMA RingEmpty ==
    ASSUME NEW base \in Nat
    PROVE  /\ EmptyRing \in [Slot -> Seens] /\ 0 \in Slot
           /\ Round(EmptyRing, 0, base, base, base)
<1>1. Empty \in Seens
  BY DEF Empty, Seens, NoSignature
<1>2. 0 \in Slot
  BY Sizes DEF Slot
<1>3. ASSUME NEW i \in Slot
      PROVE  EmptyRing[(0 + i) % Capacity] = LatestAt(base, base, base - Capacity + i + 1)
  <2>1. (0 + i) % Capacity \in Slot
    BY Wraps, Sizes DEF Slot
  <2>2. EmptyRing[(0 + i) % Capacity] = Empty
    BY <2>1 DEF EmptyRing
  <2>3. base - Capacity + i + 1 \in Int /\ base - Capacity + i + 1 <= base
    BY Sizes DEF Slot
  <2>4. LatestAt(base, base, base - Capacity + i + 1) = Empty
    BY <2>3, Latest3
  <2> QED BY <2>2, <2>4
<1> QED BY <1>1, <1>2, <1>3 DEF Round, EmptyRing

(***************************************************************************)
(* The server's window                                                     *)
(***************************************************************************)
LEMMA KeptEmpty ==
    ASSUME NEW base \in Nat
    PROVE  /\ EmptyWindow \in Seq(Seens) /\ Len(EmptyWindow) = Capacity
           /\ Kept(EmptyWindow, base, base, base)
<1>1. Empty \in Seens
  BY DEF Empty, Seens, NoSignature
<1>2. EmptyWindow \in [1..Capacity -> Seens]
  BY <1>1 DEF EmptyWindow
<1>3. EmptyWindow \in Seq(Seens) /\ Len(EmptyWindow) = Capacity
  BY <1>2, Sizes, FunctionIsSeq
<1>4. ASSUME NEW q \in 1..Capacity
      PROVE  EmptyWindow[q] = LatestAt(base, base, base - Capacity + q)
  <2>1. base - Capacity + q \in Int /\ base - Capacity + q <= base
    BY Sizes
  <2>2. LatestAt(base, base, base - Capacity + q) = Empty
    BY <2>1, Latest3
  <2> QED BY <2>2 DEF EmptyWindow
<1> QED BY <1>3, <1>4, Sizes DEF Kept

LEMMA KeptLonger ==
    ASSUME NEW w \in Seq(Seens), NEW all \in Nat, NEW base \in Nat, NEW known \in Int,
           base <= all, known <= all, Kept(w, all, base, known)
    PROVE  LET t == Append(w, [signature |-> all + 1, pending |-> TRUE])
           IN  t \in Seq(Seens) /\ Len(t) = Len(w) + 1 /\ Kept(t, all + 1, base, known)
<1> DEFINE p == [signature |-> all + 1, pending |-> TRUE]
           t == Append(w, p)
<1>1. p \in Seens
  BY DEF Seens
<1>2. /\ t \in Seq(Seens) /\ Len(t) = Len(w) + 1
      /\ \A q \in 1..Len(w) : t[q] = w[q]
      /\ t[Len(w) + 1] = p
  BY <1>1, AppendProperties
<1>3. Len(w) \in Nat
  BY SeqFacts
<1>4. p = LatestAt(base, known, all + 1)
  <2>1. all + 1 \in Int /\ all + 1 > base /\ all + 1 > known
    OBVIOUS
  <2> QED BY ONLY base \in Int, known \in Int, <2>1, Latest3
<1> DEFINE n == Len(w)
<1>5. \A q \in 1..n + 1 : t[q] = LatestAt(base, known, all + 1 - (n + 1) + q)
  <2> SUFFICES ASSUME NEW q \in 1..n + 1
               PROVE  t[q] = LatestAt(base, known, all + 1 - (n + 1) + q)
    OBVIOUS
  <2>1. n \in Nat /\ all + 1 - (n + 1) + q = all - n + q /\ all - n + (n + 1) = all + 1
    BY <1>3
  <2>2. CASE q = n + 1
    BY <2>1, <2>2, <1>2, <1>4
  <2>3. CASE q # n + 1
    <3>1. q \in 1..n
      BY <2>1, <2>3
    <3> QED BY <3>1, <2>1, <1>2 DEF Kept
  <2> QED BY <2>2, <2>3
<1>6. Kept(t, all + 1, base, known)
  <2>1. Len(t) >= Capacity
    BY <1>2, <1>3, Sizes DEF Kept
  <2> HIDE DEF t
  <2> QED BY <2>1, <1>2, <1>5 DEF Kept
<1> QED BY <1>2, <1>6

LEMMA KeptShorter ==
    ASSUME NEW w \in Seq(Seens), NEW all \in Nat, NEW base \in Nat, NEW known \in Int,
           NEW n \in Nat, n <= Len(w) - Capacity, Kept(w, all, base, known)
    PROVE  LET t == SubSeq(w, n + 1, Len(w))
           IN  t \in Seq(Seens) /\ Len(t) = Len(w) - n /\ Kept(t, all, base, known)
<1> DEFINE m == Len(w)
           t == SubSeq(w, n + 1, m)
<1>1. m \in Nat /\ n + 1 \in Int /\ m \in Int
      /\ \A i \in n + 1..m : w[i] \in Seens
  BY SeqFacts
<1>2. /\ t \in Seq(Seens)
      /\ Len(t) = IF n + 1 <= m THEN m - (n + 1) + 1 ELSE 0
      /\ \A i \in 1..m - (n + 1) + 1 : t[i] = w[(n + 1) + i - 1]
  BY ONLY <1>1, SubSeqProperties
<1>3. Len(t) = m - n
  BY <1>1, <1>2, Sizes
<1>4. ASSUME NEW q \in 1..m - n
      PROVE  t[q] = LatestAt(base, known, all - (m - n) + q)
  <2>1. q \in 1..m - (n + 1) + 1 /\ (n + 1) + q - 1 = n + q /\ n + q \in 1..m
    BY <1>1
  <2>2. t[q] = w[n + q]
    BY <2>1, <1>2
  <2>3. w[n + q] = LatestAt(base, known, all - m + (n + q))
    BY <2>1 DEF Kept
  <2>4. all - m + (n + q) = all - (m - n) + q
    BY <1>1
  <2> QED BY <2>2, <2>3, <2>4
<1>5. m - n >= Capacity
  BY <1>1, Sizes
<1> HIDE DEF t
<1>6. Kept(t, all, base, known)
  BY <1>3, <1>4, <1>5 DEF Kept
<1> QED BY <1>2, <1>3, <1>6 DEF t

(***************************************************************************)
(* What the client says of its ring is what the window holds there: unwrap *)
(* refuses none of it and leaves what the client has.                      *)
(***************************************************************************)
Marks(bits, base, front) == bits = {i \in Slot : front - Capacity + i + 1 > base}

Ends(w, all, front) == front = all - Len(w) + Capacity

LEMMA KeptUnwrapped ==
    ASSUME NEW w \in Seq(Seens), NEW all \in Nat, NEW base \in Nat, NEW known \in Int,
           NEW front \in Int, NEW bits, Ends(w, all, front),
           base <= known, known <= front, Kept(w, all, base, known),
           Marks(bits, base, front)
    PROVE  /\ Refused(w, bits) = {}
           /\ Unwrapped(w, bits) \in Seq(Seens) /\ Len(Unwrapped(w, bits)) = Len(w)
           /\ Kept(Unwrapped(w, bits), all, base, front)
<1> DEFINE m == Len(w)
           t == Unwrapped(w, bits)
<1>10. /\ front = all - Len(w) + Capacity
       /\ bits = {i \in Slot : front - Capacity + i + 1 > base}
  BY DEF Ends, Marks
<1> USE <1>10
<1>1. m \in Nat /\ DOMAIN w = 1..m /\ \A q \in 1..m : w[q] \in Seens
  BY SeqFacts
<1>2. m >= Capacity
  BY DEF Kept
<1>3. ASSUME NEW i \in Slot
      PROVE  /\ i + 1 \in 1..m
             /\ w[i + 1] = LatestAt(base, known, front - Capacity + i + 1)
  <2>1. i + 1 \in 1..m
    BY <1>1, <1>2, Sizes DEF Slot
  <2>2. w[i + 1] = LatestAt(base, known, all - m + (i + 1))
    BY <2>1 DEF Kept
  <2>3. all - m + (i + 1) = front - Capacity + i + 1
    BY <1>1, Sizes DEF Slot
  <2> QED BY <2>1, <2>2, <2>3
<1>4. ASSUME NEW i \in Slot
      PROVE  (Seen(w[i + 1]) <=> i \in bits) /\ (i \notin bits => w[i + 1] = Empty)
  <2> DEFINE n == front - Capacity + i + 1
  <2>1. n \in Int
    BY Sizes DEF Slot
  <2>2. w[i + 1] = LatestAt(base, known, n)
    BY <1>3
  <2>3. i \in bits <=> n > base
    OBVIOUS
  <2> HIDE DEF n
  <2>4. LatestAt(base, known, n).signature = IF n > base THEN n ELSE 0
    BY DEF LatestAt, NoSignature
  <2>5. i \notin bits => w[i + 1] = Empty
    <3>1. i \notin bits => n <= base /\ n <= known
      BY <2>1, <2>3
    <3>2. n <= base /\ n <= known => LatestAt(base, known, n) = Empty
      BY ONLY <2>1, base \in Int, known \in Int, Latest3
    <3> QED BY <2>2, <3>1, <3>2
  <2> QED BY <2>1, <2>2, <2>3, <2>4, <2>5 DEF Seen, NoSignature
<1>5. Refused(w, bits) = {} /\ Reached(w, bits) = Slot
  <2>1. ASSUME NEW i \in Slot PROVE i \notin Refused(w, bits)
    BY <1>4 DEF Refused
  <2>2. Refused(w, bits) = {}
    BY <2>1 DEF Refused
  <2> QED BY <2>2 DEF Reached
<1>6. ASSUME NEW q \in 1..m
      PROVE  t[q] \in Seens /\ t[q] = LatestAt(base, front, all - m + q)
  <2>1. t[q] = IF q > Capacity THEN w[q]
               ELSE IF q - 1 \in bits THEN [w[q] EXCEPT !.pending = FALSE] ELSE Empty
    <3>1. q - 1 \in Slot <=> ~(q > Capacity)
      <4>1. q \in Nat /\ q >= 1
        BY <1>1
      <4> QED BY ONLY <4>1, Sizes DEF Slot
    <3> QED BY <1>1, <1>5, <3>1 DEF Unwrapped
  <2> DEFINE n == all - m + q
  <2>2. n \in Int
    BY <1>1
  <2>3. w[q] = LatestAt(base, known, n) /\ w[q] \in Seens
    BY <1>1, <2>2 DEF Kept
  <2>7. n = front - Capacity + q /\ m \in Nat
    BY <1>1, Sizes
  <2> HIDE DEF n, m, t
  <2>4. base \in Int /\ base <= front
    OBVIOUS
  <2>5. CASE q > Capacity
    <3>1. n > front /\ n > base /\ n > known
      BY <2>7, <2>5, Sizes
    <3>2. LatestAt(base, known, n) = LatestAt(base, front, n)
      <4>1. LatestAt(base, known, n) = [signature |-> n, pending |-> TRUE]
        BY ONLY <3>1, <2>4, <2>2, known \in Int, Latest3
      <4>2. LatestAt(base, front, n) = [signature |-> n, pending |-> TRUE]
        BY ONLY <3>1, <2>4, <2>2, front \in Int, Latest3
      <4> QED BY <4>1, <4>2
    <3> QED BY <2>1, <2>3, <2>5, <3>2 DEF n
  <2>6. CASE q <= Capacity
    <3>1. n <= front
      BY <2>7, <2>6, Sizes
    <3>2. q - 1 \in Slot /\ front - Capacity + (q - 1) + 1 = n
      BY <2>7, <2>6, Sizes DEF Slot
    <3>3. q - 1 \in bits <=> n > base
      BY <3>2
    <3>4. CASE n > base
      <4>1. LatestAt(base, front, n) = [signature |-> n, pending |-> FALSE]
        BY ONLY <3>1, <3>4, <2>4, <2>2, front \in Int, Latest3
      <4>2. w[q].signature = n
        BY <2>2, <2>3, <3>4 DEF LatestAt
      <4>3. t[q] = [w[q] EXCEPT !.pending = FALSE]
        <5>1. ~(q > Capacity)
          BY <2>6, <2>7, Sizes
        <5> QED BY <5>1, <2>1, <3>3, <3>4
      <4>4. t[q] = [signature |-> w[q].signature, pending |-> FALSE] /\ t[q] \in Seens
        BY <4>3, <2>3 DEF Seens
      <4> QED BY <4>1, <4>2, <4>4 DEF n
    <3>5. CASE n <= base
      <4>1. LatestAt(base, front, n) = Empty
        BY ONLY <3>1, <3>5, <2>4, <2>2, front \in Int, Latest3
      <4>2. t[q] = Empty
        <5>1. ~(q > Capacity) /\ ~(n > base)
          BY <2>2, <2>6, <2>7, <3>5, Sizes
        <5> QED BY <5>1, <2>1, <3>3
      <4> QED BY <4>1, <4>2 DEF n, Empty, Seens, NoSignature
    <3> QED BY <2>2, <3>4, <3>5
  <2> QED BY <2>5, <2>6, <2>7, Sizes
<1>7. t \in Seq(Seens) /\ Len(t) = m
  <2>1. t \in [1..m -> Seens]
    BY <1>1, <1>6 DEF Unwrapped
  <2> QED BY ONLY <2>1, <1>1, FunctionIsSeq
<1>8. Kept(t, all, base, front)
  <2> HIDE DEF t
  <2> QED BY <1>2, <1>6, <1>7 DEF Kept
<1> QED BY <1>5, <1>7, <1>8

(***************************************************************************)
(* What is under way to the client                                         *)
(***************************************************************************)
LEMMA UnreadHead ==
    ASSUME NEW s \in Seq(ToClient), s # <<>>, NEW last \in Nat, NEW all \in Nat,
           Unread(s, last, all)
    PROVE  IF Head(s).name = "player_chat"
           THEN /\ Head(s).signature = last + 1 /\ last + 1 <= all
                /\ Unread(Tail(s), last + 1, all)
           ELSE Unread(Tail(s), last, all)
<1> DEFINE t == Tail(s)
           IsChat(x) == s[x].name = "player_chat"
<1>1. /\ Len(s) \in Nat /\ Len(s) >= 1 /\ Head(s) = s[1]
      /\ Len(t) = Len(s) - 1
      /\ \A x \in 1..Len(t) : t[x] = s[x + 1]
  BY SeqFacts, HeadTailProperties
<1> DEFINE n == Len(s) - 1
<1>2. n \in Nat /\ Len(s) = n + 1 /\ Len(t) = n
  BY <1>1
<1>3. Len(s) = n + 1 /\ Len(t) = n /\ \A x \in 1..n : t[x] = s[x + 1]
  BY <1>1, <1>2
<1>4. /\ \A x \in 1..n + 1 : IsChat(x) => s[x].signature \in last + 1..all
      /\ \A x, y \in 1..n + 1 : IsChat(x) /\ IsChat(y) /\ x < y =>
             s[x].signature < s[y].signature
      /\ \A k \in last + 1..all : \E x \in 1..n + 1 : IsChat(x) /\ s[x].signature = k
  BY <1>3 DEF Unread
<1> HIDE DEF t, n
<1>5. \A x \in 1..n : x + 1 \in 1..n + 1 /\ x + 1 > 1
  BY <1>2
<1>6. \A x, y \in 1..n : t[x].name = "player_chat" /\ t[y].name = "player_chat" /\ x < y =>
          t[x].signature < t[y].signature
  <2> SUFFICES ASSUME NEW x \in 1..n, NEW y \in 1..n,
                      IsChat(x + 1), IsChat(y + 1), x < y
               PROVE  s[x + 1].signature < s[y + 1].signature
    BY <1>3
  <2>1. x + 1 \in 1..n + 1 /\ y + 1 \in 1..n + 1 /\ x + 1 < y + 1
    BY <1>2
  <2> QED BY <1>4, <2>1
<1>7. CASE IsChat(1)
  <2>1. s[1].signature = last + 1 /\ last + 1 <= all
    <3>1. s[1].signature \in last + 1..all
      BY <1>2, <1>4, <1>7
    <3>2. PICK x \in 1..n + 1 : IsChat(x) /\ s[x].signature = last + 1
      BY <1>4, <3>1
    <3>3. x = 1
      BY <1>2, <1>4, <1>7, <3>1, <3>2
    <3> QED BY <3>1, <3>2, <3>3
  <2>2. ASSUME NEW x \in 1..n, t[x].name = "player_chat"
        PROVE  t[x].signature \in last + 2..all
    <3>1. IsChat(x + 1) /\ t[x] = s[x + 1]
      BY <1>3, <2>2
    <3>2. s[x + 1].signature \in last + 1..all /\ s[1].signature < s[x + 1].signature
      BY <1>2, <1>4, <1>5, <1>7, <3>1
    <3> QED BY <2>1, <3>1, <3>2
  <2>3. ASSUME NEW k \in last + 2..all
        PROVE  \E x \in 1..n : t[x].name = "player_chat" /\ t[x].signature = k
    <3>1. PICK x \in 1..n + 1 : IsChat(x) /\ s[x].signature = k
      BY <1>4
    <3>2. x # 1
      BY <2>1, <3>1
    <3>3. x - 1 \in 1..n /\ (x - 1) + 1 = x
      BY <1>2, <3>2
    <3>4. t[x - 1] = s[x]
      BY <1>3, <3>3
    <3> QED BY <3>1, <3>3, <3>4
  <2>4. Unread(t, last + 1, all)
    <3>1. (last + 1) + 1 = last + 2
      OBVIOUS
    <3> QED BY <1>3, <1>6, <2>2, <2>3, <3>1 DEF Unread
  <2> QED BY <1>1, <1>7, <2>1, <2>4 DEF t
<1>8. CASE ~IsChat(1)
  <2>1. ASSUME NEW x \in 1..n, t[x].name = "player_chat"
        PROVE  t[x].signature \in last + 1..all
    BY <1>3, <1>4, <1>5, <2>1
  <2>2. ASSUME NEW k \in last + 1..all
        PROVE  \E x \in 1..n : t[x].name = "player_chat" /\ t[x].signature = k
    <3>1. PICK x \in 1..n + 1 : IsChat(x) /\ s[x].signature = k
      BY <1>4
    <3>2. x # 1
      BY <1>8, <3>1
    <3>3. x - 1 \in 1..n /\ (x - 1) + 1 = x
      BY <1>2, <3>2
    <3>4. t[x - 1] = s[x]
      BY <1>3, <3>3
    <3> QED BY <3>1, <3>3, <3>4
  <2>3. Unread(t, last, all)
    BY <1>3, <1>6, <2>1, <2>2 DEF Unread
  <2> QED BY <1>1, <1>8, <2>3 DEF t
<1> QED BY <1>7, <1>8

LEMMA UnreadMore ==
    ASSUME NEW s \in Seq(ToClient), NEW p \in ToClient, NEW last \in Nat, NEW all \in Nat,
           last <= all, Unread(s, last, all)
    PROVE  /\ p.name # "player_chat" => Unread(Append(s, p), last, all)
           /\ p.name = "player_chat" /\ p.signature = all + 1 =>
                  Unread(Append(s, p), last, all + 1)
<1> DEFINE t == Append(s, p)
<1>1. PICK n \in Nat : n = Len(s)
  BY SeqFacts
<1>2. Len(t) = n + 1 /\ t[n + 1] = p /\ \A x \in 1..n : t[x] = s[x]
  BY <1>1, AppendProperties
<1> HIDE DEF t
<1>3. /\ \A x \in 1..n : s[x].name = "player_chat" => s[x].signature \in last + 1..all
      /\ \A x, y \in 1..n : s[x].name = "player_chat" /\ s[y].name = "player_chat" /\ x < y =>
             s[x].signature < s[y].signature
      /\ \A k \in last + 1..all :
             \E x \in 1..n : s[x].name = "player_chat" /\ s[x].signature = k
  BY <1>1 DEF Unread
<1>4. \A x \in 1..n + 1 : x \in 1..n \/ x = n + 1
  OBVIOUS
<1>5. \A x \in 1..n : x \in 1..n + 1
  OBVIOUS
<1>6. CASE p.name # "player_chat"
  <2>1. \A x \in 1..n + 1 : t[x].name = "player_chat" => x \in 1..n /\ t[x] = s[x]
    BY <1>2, <1>4, <1>6
  <2>2. Unread(t, last, all)
    BY <1>2, <1>3, <1>5, <2>1 DEF Unread
  <2> QED BY <1>6, <2>2 DEF t
<1>7. CASE p.name = "player_chat" /\ p.signature = all + 1
  <2>1. \A x \in 1..n + 1 : t[x].name = "player_chat" => t[x].signature \in last + 1..all + 1
    <3> SUFFICES ASSUME NEW x \in 1..n + 1, t[x].name = "player_chat"
                 PROVE  t[x].signature \in last + 1..all + 1
      OBVIOUS
    <3>1. CASE x \in 1..n
      <4>1. s[x].signature \in last + 1..all
        BY <1>2, <1>3, <3>1
      <4> QED BY <4>1, <3>1, <1>2
    <3>2. CASE x = n + 1
      BY <3>2, <1>2, <1>7
    <3> QED BY <1>4, <3>1, <3>2
  <2>2. \A x, y \in 1..n + 1 : t[x].name = "player_chat" /\ t[y].name = "player_chat" /\ x < y =>
            t[x].signature < t[y].signature
    <3> SUFFICES ASSUME NEW x \in 1..n + 1, NEW y \in 1..n + 1,
                        t[x].name = "player_chat", t[y].name = "player_chat", x < y
                 PROVE  t[x].signature < t[y].signature
      OBVIOUS
    <3>1. x \in 1..n
      OBVIOUS
    <3>2. s[x].signature \in last + 1..all /\ t[x] = s[x]
      BY <1>2, <1>3, <3>1
    <3>3. CASE y \in 1..n
      BY <1>2, <1>3, <3>1, <3>3
    <3>4. CASE y = n + 1
      BY <1>2, <1>7, <3>2, <3>4
    <3> QED BY <1>4, <3>3, <3>4
  <2>3. ASSUME NEW k \in last + 1..all + 1
        PROVE  \E x \in 1..n + 1 : t[x].name = "player_chat" /\ t[x].signature = k
    <3>1. CASE k = all + 1
      BY <1>2, <1>7, <3>1
    <3>2. CASE k # all + 1
      <4>1. k \in last + 1..all
        BY <3>2
      <4>2. PICK x \in 1..n : s[x].name = "player_chat" /\ s[x].signature = k
        BY <1>3, <4>1
      <4> QED BY <4>2, <1>2, <1>5
    <3> QED BY <3>1, <3>2
  <2>4. Unread(t, last, all + 1)
    BY <1>2, <2>1, <2>2, <2>3 DEF Unread
  <2> QED BY <1>7, <2>4 DEF t
<1> QED BY <1>6, <1>7

(***************************************************************************)
(* What is under way to the server                                         *)
(***************************************************************************)
LEMMA LeadsTail ==
    ASSUME NEW s \in Seq(ToServer), s # <<>>, NEW base \in Nat, NEW last \in Nat,
           NEW h, Leads(s, h, base, last)
    PROVE  /\ Moves(Head(s), h[0], h[1], base)
           /\ h[0] \in Point /\ Within(h[0], base, last)
           /\ h[1] \in Point /\ Within(h[1], base, last)
           /\ \E g :
                 /\ g[0] = h[1] /\ g[Len(Tail(s))] = h[Len(s)]
                 /\ Leads(Tail(s), g, base, last)
<1> DEFINE t == Tail(s)
           n == Len(s) - 1
           g == [j \in 0..n |-> h[j + 1]]
<1>1. /\ Len(s) \in Nat /\ Len(s) >= 1 /\ Head(s) = s[1]
      /\ Len(t) = Len(s) - 1
      /\ \A j \in 1..Len(t) : t[j] = s[j + 1]
  BY SeqFacts, HeadTailProperties
<1>2. n \in Nat /\ Len(s) = n + 1 /\ Len(t) = n
  BY <1>1
<1>3. h \in [0..n + 1 -> Point] /\ \A j \in 1..n : t[j] = s[j + 1]
  BY <1>1, <1>2 DEF Leads
<1>4. /\ \A j \in 1..n + 1 : Moves(s[j], h[j - 1], h[j], base)
      /\ \A j \in 0..n + 1 : Within(h[j], base, last)
  BY <1>2 DEF Leads
<1> HIDE DEF t, n
<1>5. g \in [0..n -> Point] /\ g[0] = h[1] /\ g[n] = h[n + 1]
  BY <1>2, <1>3
<1>6. ASSUME NEW j \in 1..n
      PROVE  Moves(t[j], g[j - 1], g[j], base)
  <2>1. j + 1 \in 1..n + 1 /\ (j + 1) - 1 = j /\ (j - 1) + 1 = j
        /\ j - 1 \in 0..n /\ j \in 0..n
    BY <1>2
  <2>2. Moves(s[j + 1], h[j], h[j + 1], base)
    BY <1>4, <2>1
  <2>3. g[j - 1] = h[j] /\ g[j] = h[j + 1]
    BY <2>1
  <2> HIDE DEF g
  <2> QED BY <1>3, <2>2, <2>3
<1>7. ASSUME NEW j \in 0..n
      PROVE  Within(g[j], base, last)
  <2>1. j + 1 \in 0..n + 1 /\ g[j] = h[j + 1]
    BY <1>2
  <2> QED BY <1>4, <2>1
<1> HIDE DEF g
<1>8. Leads(t, g, base, last)
  BY <1>2, <1>5, <1>6, <1>7 DEF Leads
<1>9. Moves(Head(s), h[0], h[1], base)
  <2>1. 1 \in 1..n + 1 /\ 1 - 1 = 0
    BY <1>2
  <2>2. Moves(s[1], h[1 - 1], h[1], base)
    BY <1>4, <2>1
  <2> QED BY <1>1, <2>1, <2>2
<1>10. /\ h[0] \in Point /\ Within(h[0], base, last)
       /\ h[1] \in Point /\ Within(h[1], base, last)
  <2>1. 0 \in 0..n + 1 /\ 1 \in 0..n + 1
    BY <1>2
  <2> QED BY <1>3, <1>4, <2>1
<1>11. /\ g \in [0..Len(t) -> Point]
       /\ g[0] = h[1] /\ g[Len(t)] = h[Len(s)] /\ Leads(t, g, base, last)
  BY <1>2, <1>5, <1>8
<1> QED BY <1>9, <1>10, <1>11 DEF t

LEMMA LeadsMore ==
    ASSUME NEW s \in Seq(ToServer), NEW p \in ToServer, NEW base \in Nat, NEW last \in Nat,
           NEW h, Leads(s, h, base, last),
           NEW b \in Point, Moves(p, h[Len(s)], b, base), Within(b, base, last)
    PROVE  \E g :
               /\ g[0] = h[0] /\ g[Len(Append(s, p))] = b
               /\ Leads(Append(s, p), g, base, last)
<1> DEFINE t == Append(s, p)
           n == Len(s)
           g == [j \in 0..n + 1 |-> IF j = n + 1 THEN b ELSE h[j]]
<1>1. n \in Nat
  BY SeqFacts
<1>2. Len(t) = n + 1 /\ t[n + 1] = p /\ \A j \in 1..n : t[j] = s[j]
  BY AppendProperties
<1>3. h \in [0..n -> Point]
  BY DEF Leads
<1>4. /\ \A j \in 1..n : Moves(s[j], h[j - 1], h[j], base)
      /\ \A j \in 0..n : Within(h[j], base, last)
  BY DEF Leads
<1>5. Moves(p, h[n], b, base)
  OBVIOUS
<1> HIDE DEF t, n
<1>6. g \in [0..n + 1 -> Point] /\ g[0] = h[0] /\ g[n + 1] = b
  BY <1>1, <1>3
<1>7. \A j \in 0..n : g[j] = h[j]
  BY <1>1, <1>3
<1> HIDE DEF g
<1>8. ASSUME NEW j \in 1..n + 1
      PROVE  Moves(t[j], g[j - 1], g[j], base)
  <2>1. CASE j = n + 1
    <3>1. j - 1 = n /\ n \in 0..n
      BY <1>1, <2>1
    <3> QED BY <1>2, <1>5, <1>6, <1>7, <2>1, <3>1
  <2>2. CASE j # n + 1
    <3>1. j \in 1..n /\ j \in 0..n /\ j - 1 \in 0..n
      BY <1>1, <2>2
    <3> QED BY <1>2, <1>4, <1>7, <3>1
  <2> QED BY <2>1, <2>2
<1>9. ASSUME NEW j \in 0..n + 1
      PROVE  Within(g[j], base, last)
  <2>1. CASE j = n + 1
    BY <1>6, <2>1
  <2>2. CASE j # n + 1
    <3>1. j \in 0..n
      BY <1>1, <2>2
    <3> QED BY <1>4, <1>7, <3>1
  <2> QED BY <2>1, <2>2
<1>10. Leads(t, g, base, last)
  BY <1>2, <1>6, <1>8, <1>9 DEF Leads
<1>11. /\ g \in [0..Len(t) -> Point]
       /\ g[0] = h[0] /\ g[Len(t)] = b /\ Leads(t, g, base, last)
  BY <1>2, <1>6, <1>10
<1> QED BY <1>11 DEF t

LEMMA LeadsOn ==
    ASSUME NEW s \in Seq(ToServer), NEW base \in Nat, NEW last \in Nat, NEW now \in Nat,
           last <= now, NEW h, Leads(s, h, base, last)
    PROVE  Leads(s, h, base, now)
<1> DEFINE n == Len(s)
<1>1. \A j \in 0..n : h[j].front \in Int /\ Within(h[j], base, last)
  BY DEF Leads, Point
<1> HIDE DEF n
<1>2. \A j \in 0..n : Within(h[j], base, now)
  BY <1>1 DEF Within
<1> QED BY <1>2 DEF n, Leads

(* Some of what the packets lead to. *)
LEMMA LeadsEnd ==
    ASSUME NEW s \in Seq(ToServer), NEW base \in Nat, NEW last \in Nat,
           NEW h, Leads(s, h, base, last)
    PROVE  h[Len(s)] \in Point /\ Within(h[Len(s)], base, last)
<1>1. Len(s) \in Nat
  BY SeqFacts
<1>2. Len(s) \in 0..Len(s)
  BY <1>1
<1> QED BY <1>2 DEF Leads

-----------------------------------------------------------------------------

LEMMA HeadFacts ==
    ASSUME NEW S, NEW s \in Seq(S), s # <<>>
    PROVE  /\ Len(s) \in Nat /\ Len(s) >= 1 /\ Head(s) = s[1] /\ s[1] \in S
           /\ Tail(s) \in Seq(S) /\ Len(Tail(s)) = Len(s) - 1
           /\ \A i \in 1..Len(s) - 1 : Tail(s)[i] = s[i + 1]
BY SeqFacts, HeadTailProperties

LEMMA Fields ==
    /\ \A p \in ToClient : p.name = "player_chat" => p.signature \in Nat
    /\ \A p \in ToServer :
        /\ p.name = "chat_message" =>
              /\ p.offset \in Nat /\ p.acknowledged \subseteq Slot /\ p.index \in Nat
        /\ p.name = "message_acknowledgement" => p.count \in Nat
BY DEF ToClient, ToServer

LEMMA GameHead ==
    ASSUME NEW s \in Seq(ToClient), s # <<>>, NEW leaves \in BOOLEAN
    PROVE  /\ Game(s, 1, leaves) /\ s[1].name # "start_configuration" =>
                  Game(Tail(s), 1, leaves)
           /\ Game(s, 2, leaves) => Game(Tail(s), 1, leaves)
           /\ Game(s, 1, leaves) /\ s[1].name = "start_configuration" =>
                  leaves /\ Tail(s) = <<>>
           /\ Game(s, 1, leaves) => s[1].name # "login"
<1> DEFINE n == Len(s) - 1
           t == Tail(s)
<1>1. n \in Nat /\ Len(s) = n + 1 /\ Len(t) = n /\ t \in Seq(ToClient)
      /\ \A i \in 1..n : t[i] = s[i + 1]
  BY HeadFacts
<1>2. t = <<>> <=> n = 0
  BY <1>1, SeqFacts
<1> HIDE DEF n, t
<1>3. \A i \in 1..n : i + 1 \in 1..n + 1 /\ i + 1 \in 2..n + 1 /\ (i + 1 = n + 1 <=> i = n)
  BY <1>1
<1>4. ASSUME NEW k \in {1, 2}, Game(s, k, leaves), leaves => n >= 1
      PROVE  Game(t, 1, leaves)
  <2>1. \A x \in k..n + 1 :
            /\ s[x].name \in {"player_chat", "hide_message", "start_configuration"}
            /\ s[x].name = "start_configuration" <=> leaves /\ x = n + 1
    BY <1>1, <1>4 DEF Game
  <2>2. \A i \in 1..n : i + 1 \in k..n + 1
    BY <1>3
  <2> QED BY <1>1, <1>3, <1>4, <2>1, <2>2 DEF Game
<1>5. 1 \in 1..n + 1 /\ (1 = n + 1 <=> n = 0)
  BY <1>1
<1>6. Game(s, 1, leaves) =>
          /\ s[1].name \in {"player_chat", "hide_message", "start_configuration"}
          /\ s[1].name = "start_configuration" <=> leaves /\ 1 = n + 1
  BY <1>1, <1>5 DEF Game
<1>7. ASSUME Game(s, 1, leaves), s[1].name # "start_configuration" PROVE Game(t, 1, leaves)
  <2>1. leaves => n >= 1
    BY <1>1, <1>5, <1>6, <1>7
  <2> QED BY <1>4, <1>7, <2>1
<1>8. ASSUME Game(s, 2, leaves) PROVE Game(t, 1, leaves)
  <2>1. leaves => n >= 1
    BY <1>1, <1>8 DEF Game
  <2> QED BY <1>4, <1>8, <2>1
<1> QED BY <1>2, <1>5, <1>6, <1>7, <1>8 DEF t

LEMMA GameMore ==
    ASSUME NEW s \in Seq(ToClient), NEW k \in {1, 2}, Len(s) >= k - 1,
           Game(s, k, FALSE), NEW p \in ToClient
    PROVE  /\ p.name \in {"player_chat", "hide_message"} => Game(Append(s, p), k, FALSE)
           /\ p.name = "start_configuration" => Game(Append(s, p), k, TRUE)
           /\ s # <<>> => Append(s, p)[1] = s[1]
<1> DEFINE n == Len(s)
           t == Append(s, p)
<1>1. n \in Nat /\ n >= k - 1 /\ Len(t) = n + 1 /\ t[n + 1] = p
      /\ \A x \in 1..n : t[x] = s[x]
  BY SeqFacts, AppendProperties
<1>2. s # <<>> => n >= 1
  BY <1>1, SeqFacts
<1>3. \A x \in k..n : /\ s[x].name \in {"player_chat", "hide_message", "start_configuration"}
                       /\ s[x].name # "start_configuration"
  BY DEF Game
<1> HIDE DEF n, t
<1>4. \A x \in k..n + 1 : x = n + 1 \/ (x \in k..n /\ x \in 1..n /\ x # n + 1)
  BY <1>1
<1>5. n + 1 >= k
  BY <1>1
<1>6. ASSUME p.name \in {"player_chat", "hide_message"} PROVE Game(t, k, FALSE)
  BY <1>1, <1>3, <1>4, <1>6 DEF Game
<1>7. ASSUME p.name = "start_configuration" PROVE Game(t, k, TRUE)
  BY <1>1, <1>3, <1>4, <1>5, <1>7 DEF Game
<1>8. s # <<>> => t[1] = s[1]
  <2>1. s # <<>> => 1 \in 1..n
    BY <1>1, <1>2
  <2> QED BY <1>1, <2>1
<1> QED BY <1>6, <1>7, <1>8 DEF t

(* A packet of the game is read in the game. *)
LEMMA InGame ==
    ASSUME WindowInv, Connected, toClient # <<>>
    PROVE  /\ Head(toClient).name # "login" => Playing
           /\ Head(toClient).name = "login" => Entering
<1>1. Head(toClient) = toClient[1]
  BY HeadFacts DEF WindowInv, WindowTyped
<1>2. Playing => toClient[1].name # "login"
  <2>1. (serverState = "leaving") \in BOOLEAN
    OBVIOUS
  <2> QED BY <2>1, GameHead DEF WindowInv, WindowTyped, Playing
<1>3. Entering => toClient[1].name = "login"
  BY DEF Entering
<1> QED BY <1>1, <1>2, <1>3 DEF WindowInv, Leaving, Between

(* Where a listener threw or the client was ended nothing more is said. *)
LEMMA Cut ==
    ASSUME WindowTyped', FaultlessClient', ~Connected'
    PROVE  WindowInv'
BY DEF WindowInv

(* A step within the game, or out of it. *)
LEMMA KeepsPlaying ==
    ASSUME WindowInv, Connected, WindowTyped', Playing' \/ Leaving',
           astray => astray', UNCHANGED <<enforced, sent, faults>>, ~astray' => Aligned'
    PROVE  WindowInv'
<1>1. ~Entering'
  BY DEF Playing, Leaving, Entering
<1>2. FaultlessClient'
  BY DEF WindowInv, FaultlessClient
<1>3. ASSUME ~astray' PROVE Followed'
  BY <1>1, <1>3 DEF WindowInv, Followed
<1> QED BY <1>2, <1>3 DEF WindowInv

LEMMA PlayerChatStep == WindowInv /\ OnPlayerChat => WindowInv'
<1> SUFFICES ASSUME WindowInv, OnPlayerChat PROVE WindowInv'
  OBVIOUS
<1>1. /\ ring \in [Slot -> Seens] /\ offset \in Slot /\ pending \in Nat
      /\ toClient \in Seq(ToClient) /\ toServer \in Seq(ToServer) /\ sent \in Nat
      /\ window \in Seq(Seens)
  BY DEF WindowInv, WindowTyped
<1>2. /\ toClient # <<>> /\ Head(toClient).name = "player_chat"
      /\ toClient' = Tail(toClient) /\ Connected
  BY DEF OnPlayerChat, Handle
<1>3. /\ UNCHANGED <<clientState, index, clientUp, window, serverState, verdict, sent>>
      /\ UNCHANGED <<enforced, expects, faults, astray>>
  BY DEF OnPlayerChat, peerVars, counters, options, judgement
<1>4. Playing
  BY <1>2, InGame
<1> DEFINE p == [signature |-> Head(toClient).signature, pending |-> TRUE]
           report == Acknowledgement(pending + 1)
<1>5. /\ Head(toClient) = toClient[1] /\ Head(toClient) \in ToClient
      /\ Tail(toClient) \in Seq(ToClient)
  BY <1>1, <1>2, HeadFacts
<1>6. Head(toClient).signature \in Nat /\ p \in Seens
  BY <1>2, <1>5, Fields DEF Seens
<1>7. ring' = [ring EXCEPT ![offset] = p] /\ offset' = (offset + 1) % Capacity
  BY DEF OnPlayerChat
<1>8. (offset + 1) % Capacity \in Slot
  <2>1. offset \in Nat /\ offset < Capacity /\ 1 \in Nat /\ 1 <= Capacity
    BY <1>1, Sizes DEF Slot
  <2>2. (offset + 1) % Capacity =
            IF offset + 1 < Capacity THEN offset + 1 ELSE offset + 1 - Capacity
    BY ONLY <2>1, Wraps
  <2> QED BY <2>1, <2>2, Sizes DEF Slot
<1>9. report \in ToServer /\ report.name = "message_acknowledgement"
      /\ report.count = pending + 1
  BY <1>1 DEF Acknowledgement, ToServer
<1>10. \/ pending' = pending + 1 /\ toServer' = toServer
       \/ pending' = 0 /\ toServer' = Append(toServer, report)
  <2>1. toServer \o <<>> = toServer
    BY <1>1, ConcatEmptySeq
  <2>2. toServer \o <<report>> = Append(toServer, report)
    BY ONLY <1>1, <1>9, AppendIsConcat
  <2>3. CASE pending + 1 > AckAfter
    <3>1. Report(pending + 1) = <<report>>
      BY <1>1 DEF Report
    <3> QED BY <2>2, <2>3, <3>1 DEF OnPlayerChat
  <2>4. CASE ~(pending + 1 > AckAfter)
    BY <2>1, <2>4 DEF OnPlayerChat
  <2> QED BY <2>3, <2>4
<1> HIDE DEF p, report
<1>11. WindowTyped'
  <2>1. toServer' \in Seq(ToServer)
    <3>1. Append(toServer, report) \in Seq(ToServer)
      BY <1>1, <1>9, AppendProperties
    <3> QED BY <1>1, <1>10, <3>1
  <2>2. ring' \in [Slot -> Seens]
    BY <1>1, <1>6, <1>7
  <2>3. index' \in Nat /\ expects' \in Nat
    BY <1>3 DEF WindowInv, WindowTyped
  <2> QED BY <1>1, <1>2, <1>3, <1>5, <1>7, <1>8, <1>10, <2>1, <2>2, <2>3 DEF WindowTyped
<1>12. Playing'
  <2>1. Game(toClient', 1, serverState = "leaving")
    <3>1. (serverState = "leaving") \in BOOLEAN /\ toClient[1].name # "start_configuration"
      BY <1>2, <1>5
    <3> QED BY <1>1, <1>2, <1>4, <3>1, GameHead DEF Playing
  <2>2. \A j \in 1..Len(toServer)' : toServer'[j].name # "configuration_acknowledged"
    <3>1. CASE toServer' = toServer
      BY <1>4, <3>1 DEF Playing
    <3>2. CASE toServer' = Append(toServer, report)
      <4>1. /\ Len(toServer') = Len(toServer) + 1 /\ Len(toServer) \in Nat
            /\ \A j \in 1..Len(toServer) : toServer'[j] = toServer[j]
            /\ toServer'[Len(toServer) + 1] = report
        BY <1>1, <1>9, <3>2, AppendProperties, SeqFacts
      <4> QED BY <1>4, <1>9, <4>1 DEF Playing
    <3> QED BY <1>10, <3>1, <3>2
  <2> QED BY <1>3, <1>4, <2>1, <2>2 DEF Playing
<1>13. ASSUME ~astray' PROVE Aligned'
  <2>1. PICK base \in Nat, last \in Nat : \E h :
            Follows(base, last, h)
    BY <1>2, <1>3, <1>4, <1>13 DEF WindowInv, Followed, Aligned
  <2>2. PICK h : Follows(base, last, h)
    BY <2>1
  <2>9. PICK next \in Nat : next = last + 1
    OBVIOUS
  <2> DEFINE a == h[Len(toServer)]
  <2>3. Len(toServer) \in Nat
    BY <1>1, SeqFacts
  <2>4. /\ a \in Point /\ base <= a.told /\ a.told <= a.front /\ a.front = last - pending
        /\ a.front \in Int /\ a.told \in Int /\ a.index \in Int
    <3>1. a \in Point /\ Within(a, base, last)
      BY <1>1, <2>2, LeadsEnd DEF Follows
    <3> QED BY <2>2, <3>1 DEF Follows, Within, Point
  <2>11. next # base /\ (enforced => h[0].index = expects)
    BY <2>2, <2>9 DEF Follows
  <2>5. /\ Head(toClient).signature = next /\ next <= sent
        /\ Unread(Tail(toClient), next, sent)
    BY <1>1, <1>2, <2>2, <2>9, UnreadHead DEF Follows
  <2>6. Round(ring', offset', base, a.told, next)
    <3>1. a.told <= last /\ Round(ring, offset, base, a.told, last)
      BY <1>1, <2>2, <2>4 DEF Follows
    <3>2. p = [signature |-> next, pending |-> TRUE]
      BY <2>5 DEF p
    <3> QED BY ONLY <1>1, <1>7, <2>4, <3>1, <3>2, base \in Nat, last \in Nat, <2>9, RingPush
  <2>10. Leads(toServer, h, base, next)
    <3>1. Leads(toServer, h, base, last) /\ last <= next
      BY <2>2, <2>9 DEF Follows
    <3> QED BY <1>1, <3>1, LeadsOn
  <2>7. CASE pending' = pending + 1 /\ toServer' = toServer
    <3>1. Follows(base, next, h)'
      <4>1. next - (pending + 1) = last - pending
        BY <1>1, <2>9
      <4> QED BY <1>2, <1>3, <2>2, <2>4, <2>5, <2>6, <2>7, <2>9, <2>10, <2>11, <4>1 DEF Follows
    <3> QED BY <2>7, <3>1 DEF Aligned
  <2>8. CASE pending' = 0 /\ toServer' = Append(toServer, report)
    <3>1. PICK b \in Point : b.told = a.told /\ b.front = next /\ b.index = a.index
      <4>1. [front |-> next, told |-> a.told, index |-> a.index] \in Point
        BY <2>4 DEF Point
      <4> QED BY <4>1
    <3>2. Moves(report, h[Len(toServer)], b, base)
      BY <1>1, <1>9, <2>4, <2>9, <3>1 DEF Moves
    <3>3. Within(b, base, next)
      BY <1>1, <2>4, <2>9, <3>1 DEF Within
    <3>4. PICK g :
              /\ g[0] = h[0] /\ g[Len(toServer')] = b
              /\ Leads(toServer', g, base, next)
      <4>1. \E g :
                /\ g[0] = h[0] /\ g[Len(Append(toServer, report))] = b
                /\ Leads(Append(toServer, report), g, base, next)
        <5>1. toServer \in Seq(ToServer) /\ report \in ToServer
          BY <1>1, <1>9
        <5> HIDE DEF a
        <5> QED BY ONLY <5>1, <2>10, <3>2, <3>3, base \in Nat, next \in Nat, b \in Point, LeadsMore
      <4> QED BY <2>8, <4>1
    <3>5. Follows(base, next, g)'
      <4>1. next - pending' = next /\ base <= next /\ next <= sent'
        BY <1>3, <2>2, <2>5, <2>8, <2>9 DEF Follows
      <4>2. Unread(toClient, next, sent)'
        BY <1>2, <1>3, <2>5
      <4>3. /\ Kept(window', sent', base, g[0].told)
            /\ g[0].front = sent' - Len(window') + Capacity
        BY <1>3, <2>2, <3>4 DEF Follows
      <4>4. Round(ring', offset', base, g[Len(toServer')].told, next)
        BY <2>6, <3>1, <3>4
      <4>5. enforced' => g[0].index = expects'
        BY <1>3, <2>11, <3>4
      <4> QED BY <2>11, <3>1, <3>4, <4>1, <4>2, <4>3, <4>4, <4>5 DEF Follows
    <3> QED BY <3>4, <3>5 DEF Aligned
  <2> QED BY <1>10, <2>7, <2>8
<1> QED BY <1>2, <1>3, <1>11, <1>12, <1>13, KeepsPlaying

(* What holds of the end of what is under way to the server. *)
LEMMA FollowsEnd ==
    ASSUME WindowTyped, NEW base \in Nat, NEW last \in Nat,
           NEW h, Follows(base, last, h)
    PROVE  LET a == h[Len(toServer)]
           IN  /\ a \in Point /\ a.front \in Int /\ a.told \in Int /\ a.index \in Int
               /\ base <= a.told /\ a.told <= a.front /\ a.front = last - pending
<1> DEFINE a == h[Len(toServer)]
<1>1. a \in Point /\ Within(a, base, last)
  BY LeadsEnd DEF Follows, WindowTyped
<1>2. a.front = last - pending
  BY DEF Follows
<1> HIDE DEF a
<1>3. a.front \in Int /\ a.told \in Int /\ a.index \in Int
  BY <1>1 DEF Point
<1> QED BY <1>1, <1>2, <1>3 DEF a, Within

LEMMA NoneMore ==
    ASSUME NEW s \in Seq(ToServer), NEW p \in ToServer,
           \A j \in 1..Len(s) : s[j].name # "configuration_acknowledged"
    PROVE  /\ Append(s, p) \in Seq(ToServer) /\ Append(s, p) # <<>>
           /\ p.name # "configuration_acknowledged" =>
                 \A j \in 1..Len(Append(s, p)) :
                    Append(s, p)[j].name # "configuration_acknowledged"
           /\ p.name = "configuration_acknowledged" =>
                 \A j \in 1..Len(Append(s, p)) :
                    Append(s, p)[j].name = "configuration_acknowledged"
                        <=> j = Len(Append(s, p))
<1> DEFINE n == Len(s)
           t == Append(s, p)
<1>1. /\ n \in Nat /\ t \in Seq(ToServer) /\ Len(t) = n + 1 /\ t[n + 1] = p
      /\ \A x \in 1..n : t[x] = s[x]
  BY SeqFacts, AppendProperties
<1>2. t # <<>>
  BY ONLY <1>1, SeqFacts
<1>3. \A x \in 1..n : s[x].name # "configuration_acknowledged"
  OBVIOUS
<1> HIDE DEF n, t
<1>4. \A x \in 1..n + 1 : x = n + 1 \/ (x \in 1..n /\ x # n + 1)
  BY <1>1
<1>5. p.name # "configuration_acknowledged" =>
          \A j \in 1..Len(t) : t[j].name # "configuration_acknowledged"
  BY <1>1, <1>3, <1>4
<1>6. p.name = "configuration_acknowledged" =>
          \A j \in 1..Len(t) : t[j].name = "configuration_acknowledged" <=> j = Len(t)
  BY <1>1, <1>3, <1>4
<1> QED BY <1>1, <1>2, <1>5, <1>6 DEF t

LEMMA HideMessageStep == WindowInv /\ OnHideMessage => WindowInv'
<1> SUFFICES ASSUME WindowInv, OnHideMessage PROVE WindowInv'
  OBVIOUS
<1>1. WindowTyped /\ ring \in [Slot -> Seens] /\ toClient \in Seq(ToClient)
  BY DEF WindowInv, WindowTyped
<1>2. /\ toClient # <<>> /\ Head(toClient).name = "hide_message"
      /\ toClient' = Tail(toClient) /\ Connected
  BY DEF OnHideMessage, Handle
<1>3. /\ UNCHANGED <<clientState, index, window, serverState, toServer, sent>>
      /\ UNCHANGED <<enforced, expects, faults>> /\ astray'
  BY DEF OnHideMessage, peerVars, counters, options, judgement
<1>4. Playing
  BY <1>2, InGame
<1>5. Head(toClient) = toClient[1] /\ Tail(toClient) \in Seq(ToClient)
  BY <1>1, <1>2, HeadFacts
<1>6. ring' \in [Slot -> Seens] /\ offset' \in Slot /\ pending' \in Nat
  <2>1. Hidden \in Seens
    BY DEF Hidden, Seens, NoSignature
  <2>2. 0 \in Slot
    BY Sizes DEF Slot
  <2>3. CASE \E i \in Slot : ring[i] = Hidden
    BY <1>1, <2>3 DEF OnHideMessage, WindowTyped
  <2>4. CASE ~\E i \in Slot : ring[i] = Hidden
    BY <1>1, <2>1, <2>2, <2>4 DEF OnHideMessage
  <2> QED BY <2>3, <2>4
<1>7. WindowTyped'
  BY <1>1, <1>2, <1>3, <1>5, <1>6 DEF WindowTyped
<1>8. Playing'
  <2>1. Game(toClient', 1, serverState = "leaving")
    <3>1. (serverState = "leaving") \in BOOLEAN /\ toClient[1].name # "start_configuration"
      BY <1>2, <1>5
    <3> QED BY <1>1, <1>2, <1>4, <3>1, GameHead DEF Playing
  <2> QED BY <1>3, <1>4, <2>1 DEF Playing
<1> QED BY <1>2, <1>3, <1>7, <1>8, KeepsPlaying

(* sendChatAcknowledgement reports what is pending. *)
LEMMA Reports ==
    ASSUME NEW s \in Seq(ToServer), NEW n \in Nat,
           \A j \in 1..Len(s) : s[j].name # "configuration_acknowledged"
    PROVE  \E t \in Seq(ToServer) :
              /\ t = s \o Report(n)
              /\ \A j \in 1..Len(t) : t[j].name # "configuration_acknowledged"
<1>1. CASE n = 0
  BY <1>1, ConcatEmptySeq DEF Report
<1>2. CASE n # 0
  <2>1. PICK p \in ToServer : p = Acknowledgement(n) /\ p.name = "message_acknowledgement"
    <3>1. Acknowledgement(n) \in ToServer
      BY DEF Acknowledgement, ToServer
    <3>2. Acknowledgement(n).name = "message_acknowledgement"
      BY DEF Acknowledgement
    <3> QED BY <3>1, <3>2
  <2>2. s \o Report(n) = Append(s, p)
    <3>1. Report(n) = <<p>>
      BY <1>2, <2>1 DEF Report
    <3> QED BY ONLY s \in Seq(ToServer), p \in ToServer, <3>1, AppendIsConcat
  <2>3. /\ Append(s, p) \in Seq(ToServer)
        /\ \A j \in 1..Len(Append(s, p)) :
               Append(s, p)[j].name # "configuration_acknowledged"
    BY <2>1, NoneMore
  <2> QED BY <2>2, <2>3
<1> QED BY <1>1, <1>2

Reported(s, n, t) == t = s \o Report(n)

(* At the end of s the window is n messages behind the ring. *)
Lags(s, h, last, n) == h[Len(s)].front = last - n

LEMMA ReportsLead ==
    ASSUME NEW s \in Seq(ToServer), NEW n \in Nat, NEW t \in Seq(ToServer),
           Reported(s, n, t),
           NEW base \in Nat, NEW last \in Nat, NEW h,
           Leads(s, h, base, last), Lags(s, h, last, n)
    PROVE  \E g :
              /\ g[0] = h[0] /\ Leads(t, g, base, last)
              /\ g[Len(t)].told = h[Len(s)].told /\ g[Len(t)].front = last
              /\ g[Len(t)].index = h[Len(s)].index
<1>1. CASE n = 0
  <2>1. t = s
    BY <1>1, ConcatEmptySeq DEF Report, Reported
  <2>2. h[Len(s)].front = last
    BY <1>1 DEF Lags
  <2> QED BY <2>1, <2>2
<1>2. CASE n # 0
  <2>1. PICK p \in ToServer :
            /\ p = Acknowledgement(n)
            /\ p.name = "message_acknowledgement" /\ p.count = n
    <3>1. Acknowledgement(n) \in ToServer
      BY DEF Acknowledgement, ToServer
    <3>2. /\ Acknowledgement(n).name = "message_acknowledgement"
          /\ Acknowledgement(n).count = n
      BY DEF Acknowledgement
    <3> QED BY <3>1, <3>2
  <2>2. t = Append(s, p)
    <3>1. Report(n) = <<p>>
      BY <1>2, <2>1 DEF Report
    <3>2. t = s \o Report(n)
      BY DEF Reported
    <3> QED BY ONLY <3>2, s \in Seq(ToServer), p \in ToServer,
                    <3>1, AppendIsConcat
  <2>3. PICK a \in Point : a = h[Len(s)]
    BY LeadsEnd
  <2>4. Within(a, base, last) /\ a.front = last - n
    BY <2>3, LeadsEnd DEF Lags
  <2>5. a.front \in Int /\ a.told \in Int /\ a.index \in Int
    BY DEF Point
  <2>6. PICK b \in Point : b.told = a.told /\ b.front = last /\ b.index = a.index
    <3>1. [front |-> last, told |-> a.told, index |-> a.index] \in Point
      BY <2>5 DEF Point
    <3> QED BY <3>1
  <2>7. Moves(p, h[Len(s)], b, base)
    <3>1. Moves(p, a, b, base)
      BY <2>1, <2>4, <2>5, <2>6 DEF Moves
    <3> QED BY <2>3, <3>1
  <2>8. Within(b, base, last)
    BY <2>4, <2>5, <2>6 DEF Within
  <2>9. \E g :
            /\ g[0] = h[0] /\ g[Len(Append(s, p))] = b
            /\ Leads(Append(s, p), g, base, last)
    BY ONLY s \in Seq(ToServer), p \in ToServer, base \in Nat, last \in Nat,
            Leads(s, h, base, last), b \in Point, <2>7, <2>8, LeadsMore
  <2> QED BY <2>2, <2>3, <2>6, <2>9
<1> QED BY <1>1, <1>2

LEMMA StartConfigurationStep == WindowInv /\ OnStartConfiguration => WindowInv'
<1> SUFFICES ASSUME WindowInv, OnStartConfiguration PROVE WindowInv'
  OBVIOUS
<1>1. WindowTyped /\ toClient \in Seq(ToClient) /\ toServer \in Seq(ToServer)
      /\ pending \in Nat
  BY DEF WindowInv, WindowTyped
<1>2. /\ toClient # <<>> /\ Head(toClient).name = "start_configuration"
      /\ toClient' = Tail(toClient) /\ Connected
  BY DEF OnStartConfiguration, Handle
<1>3. /\ UNCHANGED <<ring, offset, index, window, serverState, verdict, sent, astray>>
      /\ UNCHANGED <<enforced, expects, faults>>
  BY DEF OnStartConfiguration, peerVars, counters, options, judgement
<1>4. clientState' = "configuration" /\ pending' = 0
  BY DEF OnStartConfiguration
<1>5. Playing
  BY <1>2, InGame
<1>6. serverState = "leaving" /\ Tail(toClient) = <<>>
  <2>1. (serverState = "leaving") \in BOOLEAN
    OBVIOUS
  <2>2. Head(toClient) = toClient[1]
    BY <1>1, <1>2, HeadFacts
  <2> QED BY <1>1, <1>2, <1>5, <2>1, <2>2, GameHead DEF Playing
<1>7. PICK p \in ToServer : p = [name |-> "configuration_acknowledged"]
  BY DEF ToServer
<1>8. /\ toServer \in Seq(ToServer) /\ pending \in Nat
      /\ \A j \in 1..Len(toServer) : toServer[j].name # "configuration_acknowledged"
  BY <1>1, <1>5 DEF Playing
<1>14. PICK s \in Seq(ToServer) :
           /\ s = toServer \o Report(pending)
           /\ \A j \in 1..Len(s) : s[j].name # "configuration_acknowledged"
  BY ONLY <1>8, Reports
<1>9. toServer' = Append(s, p)
  <2>1. s \o <<p>> = Append(s, p)
    BY AppendIsConcat
  <2> QED BY <1>7, <1>14, <2>1 DEF OnStartConfiguration
<1>10. PICK t \in Seq(ToServer) :
           /\ t = Append(s, p) /\ t # <<>>
           /\ \A j \in 1..Len(t) : t[j].name = "configuration_acknowledged" <=> j = Len(t)
  BY <1>7, <1>14, NoneMore
<1>11. WindowTyped'
  <2>1. <<>> \in Seq(ToClient)
    BY EmptySeq
  <2> QED BY <1>1, <1>2, <1>3, <1>4, <1>6, <1>9, <1>10, <2>1 DEF WindowTyped
<1>12. Leaving'
  BY <1>2, <1>3, <1>4, <1>6, <1>9, <1>10 DEF Leaving
<1>13. ASSUME ~astray' PROVE Aligned'
  <2>1. PICK base \in Nat, last \in Nat : \E h :
            Follows(base, last, h)
    BY <1>2, <1>3, <1>5, <1>13 DEF WindowInv, Followed, Aligned
  <2>2. PICK h : Follows(base, last, h)
    BY <2>1
  <2>3. PICK f :
            /\ f[0] = h[0] /\ Leads(s, f, base, last)
            /\ f[Len(s)].told = h[Len(toServer)].told /\ f[Len(s)].front = last
            /\ f[Len(s)].index = h[Len(toServer)].index
    <3>1. Leads(toServer, h, base, last) /\ Lags(toServer, h, last, pending)
      BY <2>2 DEF Follows, Lags
    <3>2. Reported(toServer, pending, s)
      BY <1>14 DEF Reported
    <3>3. PICK n \in Nat, r \in Seq(ToServer) : n = pending /\ r = toServer
      BY <1>8
    <3>4. Leads(r, h, base, last) /\ Lags(r, h, last, n) /\ Reported(r, n, s)
      BY <3>1, <3>2, <3>3
    <3>5. \E f :
              /\ f[0] = h[0] /\ Leads(s, f, base, last)
              /\ f[Len(s)].told = h[Len(r)].told /\ f[Len(s)].front = last
              /\ f[Len(s)].index = h[Len(r)].index
      BY ONLY n \in Nat, r \in Seq(ToServer), s \in Seq(ToServer), <3>4,
              base \in Nat, last \in Nat, ReportsLead
    <3> QED BY <3>3, <3>5
  <2>8. f[Len(s)] \in Point /\ Within(f[Len(s)], base, last)
    BY ONLY s \in Seq(ToServer), <2>3, base \in Nat, last \in Nat, LeadsEnd
  <2>4. PICK b \in Point : b = f[Len(s)] /\ Within(b, base, last)
    BY <2>8
  <2>5. Moves(p, f[Len(s)], b, base)
    BY <1>7, <2>4 DEF Moves
  <2>6. PICK g :
            g[0] = f[0] /\ g[Len(t)] = b /\ Leads(t, g, base, last)
    <3>1. Leads(s, f, base, last) /\ Within(b, base, last)
      BY <2>3, <2>4
    <3>2. \E g :
              /\ g[0] = f[0] /\ g[Len(Append(s, p))] = b
              /\ Leads(Append(s, p), g, base, last)
      BY ONLY s \in Seq(ToServer), p \in ToServer, b \in Point, <2>5, <3>1,
              base \in Nat, last \in Nat, LeadsMore
    <3> QED BY <1>10, <3>2
  <2>7. Follows(base, last, g)'
    <3>1. last - pending' = last
      BY <1>4
    <3>2. Unread(toClient, last, sent)'
      <4>1. Head(toClient).name # "player_chat"
        BY <1>2
      <4> QED BY <1>1, <1>2, <1>3, <2>2, <4>1, UnreadHead DEF Follows, WindowTyped
    <3>3. toServer' = t
      BY <1>9, <1>10
    <3> QED BY <1>3, <2>2, <2>3, <2>4, <2>6, <3>1, <3>2, <3>3 DEF Follows
  <2> QED BY <1>9, <1>10, <2>6, <2>7 DEF Aligned
<1> QED BY <1>2, <1>3, <1>11, <1>12, <1>13, KeepsPlaying

(* A window with nothing under way. *)
LEMMA LeadsNothing ==
    ASSUME NEW base \in Nat, NEW at \in Nat
    PROVE  \E h : /\ Leads(<<>>, h, base, base)
                  /\ h[0].front = base /\ h[0].told = base /\ h[0].index = at
<1> DEFINE a == [front |-> base, told |-> base, index |-> at]
           h == [j \in 0..0 |-> a]
<1>1. a \in Point /\ a.front = base /\ a.told = base /\ a.index = at
  BY DEF Point
<1>2. Within(a, base, base)
  BY <1>1 DEF Within
<1> HIDE DEF a
<1>3. h \in [0..0 -> Point] /\ \A j \in 0..0 : h[j] = a
  BY <1>1
<1> HIDE DEF h
<1>4. Len(<<>>) = 0
  OBVIOUS
<1>5. Leads(<<>>, h, base, base)
  BY <1>2, <1>3, <1>4 DEF Leads
<1> QED BY <1>1, <1>3, <1>5

LEMMA LoginStep == WindowInv /\ OnLogin => WindowInv'
<1> SUFFICES ASSUME WindowInv, OnLogin PROVE WindowInv'
  OBVIOUS
<1>1. /\ WindowTyped /\ toClient \in Seq(ToClient) /\ sent \in Nat
      /\ window \in Seq(Seens) /\ expects \in Nat
  BY DEF WindowInv, WindowTyped
<1>2. /\ toClient # <<>> /\ Head(toClient).name = "login"
      /\ toClient' = Tail(toClient) /\ Connected
  BY DEF OnLogin, Handle
<1>3. UNCHANGED <<window, serverState, verdict, sent, astray, enforced, expects, faults>>
  BY DEF OnLogin, peerVars, counters, options, judgement
<1>4. /\ clientState' = "play" /\ ring' = EmptyRing /\ offset' = 0 /\ pending' = 0
      /\ index' = 0
  BY DEF OnLogin
<1>5. Entering
  BY <1>2, InGame
<1>6. Tail(toClient) \in Seq(ToClient)
  BY <1>1, <1>2, HeadFacts
<1>7. PICK p \in ToServer :
          p = [name |-> "chat_session_update"] /\ p.name = "chat_session_update"
  <2>1. [name |-> "chat_session_update"] \in ToServer
    BY DEF ToServer
  <2> QED BY <2>1
<1>8. toServer = <<>> /\ toServer' = Append(<<>>, p)
  BY <1>5, <1>7 DEF OnLogin, Entering
<1>9. /\ toServer' \in Seq(ToServer)
      /\ \A j \in 1..Len(toServer') : toServer'[j].name # "configuration_acknowledged"
  <2>1. <<>> \in Seq(ToServer) /\ \A j \in 1..Len(<<>>) : FALSE
    BY EmptySeq
  <2>2. p.name # "configuration_acknowledged"
    BY <1>7
  <2> QED BY <1>8, <2>1, <2>2, NoneMore
<1>10. WindowTyped'
  <2>1. EmptyRing \in [Slot -> Seens] /\ 0 \in Slot
    BY <1>1, RingEmpty
  <2> QED BY <1>1, <1>2, <1>3, <1>4, <1>6, <1>9, <2>1 DEF WindowTyped
<1>11. Playing'
  <2>1. Game(toClient', 1, serverState = "leaving")
    <3>1. (serverState = "leaving") \in BOOLEAN
      OBVIOUS
    <3> QED BY <1>1, <1>2, <1>5, <3>1, GameHead DEF Entering
  <2> QED BY <1>3, <1>4, <1>5, <1>9, <2>1 DEF Playing, Entering
<1>12. ASSUME ~astray' PROVE Aligned'
  <2>1. PICK base \in Nat :
            /\ base <= sent /\ Unread(toClient, base, sent) /\ Kept(window, sent, base, base)
            /\ base = sent - Len(window) + Capacity
    BY <1>2, <1>3, <1>5, <1>12 DEF WindowInv, Followed, Fresh
  <2>2. PICK h : /\ Leads(<<>>, h, base, base)
                 /\ h[0].front = base /\ h[0].told = base /\ h[0].index = expects
    BY <1>1, LeadsNothing
  <2>3. Unread(toClient', base, sent)
    BY <1>1, <1>2, <2>1, UnreadHead
  <2>4. Round(ring', offset', base, base, base)
    BY <1>4, RingEmpty
  <2>5. base - pending' = base
    BY <1>4
  <2>6. PICK b \in Point : b.front = base /\ b.told = base /\ b.index = 0
    <3>1. [front |-> base, told |-> base, index |-> 0] \in Point
      BY DEF Point
    <3> QED BY <3>1
  <2>7. Len(<<>>) = 0 /\ <<>> \in Seq(ToServer)
    BY EmptySeq
  <2>8. Moves(p, h[Len(<<>>)], b, base)
    BY <1>7, <2>2, <2>6, <2>7 DEF Moves
  <2>9. Within(b, base, base)
    BY <2>6 DEF Within
  <2>10. PICK g : /\ g[0] = h[0] /\ g[Len(toServer')] = b
                  /\ Leads(toServer', g, base, base)
    <3>1. PICK s \in Seq(ToServer) : s = <<>>
      BY <2>7
    <3>2. Leads(s, h, base, base) /\ Moves(p, h[Len(s)], b, base)
      BY <2>2, <2>8, <3>1
    <3>3. \E g : /\ g[0] = h[0] /\ g[Len(Append(s, p))] = b
                 /\ Leads(Append(s, p), g, base, base)
      BY ONLY s \in Seq(ToServer), <2>9, <3>2, p \in ToServer, base \in Nat, b \in Point,
              LeadsMore
    <3> QED BY <1>8, <3>1, <3>3
  <2>11. Follows(base, base, g)'
    BY <1>3, <1>4, <2>1, <2>2, <2>3, <2>4, <2>5, <2>6, <2>10 DEF Follows
  <2> QED BY <2>11 DEF Aligned
<1> QED BY <1>2, <1>3, <1>10, <1>11, <1>12, KeepsPlaying

(* The ring, read from the oldest message on. *)
LEMMA RingRead ==
    ASSUME WindowTyped
    PROVE  /\ \A i \in Slot : (offset + i) % Capacity \in Slot
           /\ \A i \in Slot : Rotated[i] = ring[(offset + i) % Capacity] /\ Rotated[i] \in Seens
           /\ Acknowledged \subseteq Slot
<1>1. ASSUME NEW i \in Slot PROVE (offset + i) % Capacity \in Slot
  <2>1. offset \in Nat /\ offset < Capacity /\ i \in Nat /\ i < Capacity
    BY Sizes DEF WindowTyped, Slot
  <2>2. (offset + i) % Capacity =
            IF offset + i < Capacity THEN offset + i ELSE offset + i - Capacity
    BY ONLY <2>1, Wraps, Sizes
  <2> QED BY <2>1, <2>2, Sizes DEF Slot
<1>2. \A i \in Slot : Rotated[i] = ring[(offset + i) % Capacity] /\ Rotated[i] \in Seens
  BY <1>1 DEF Rotated, WindowTyped
<1> QED BY <1>1, <1>2 DEF Acknowledged

(* What is acknowledged of the ring is what is not older than the game. *)
LEMMA RingMarks ==
    ASSUME WindowTyped, NEW base \in Nat, NEW last \in Nat, NEW known \in Int,
           Round(ring, offset, base, known, last)
    PROVE  /\ Acknowledged = {i \in Slot : last - Capacity + i + 1 > base}
           /\ Acknowledged = {} <=> last <= base
<1>1. ASSUME NEW i \in Slot
      PROVE  Rotated[i] = LatestAt(base, known, last - Capacity + i + 1)
  BY RingRead DEF Round
<1>2. ASSUME NEW i \in Slot
      PROVE  Seen(Rotated[i]) <=> last - Capacity + i + 1 > base
  <2>1. PICK n \in Int : n = last - Capacity + i + 1
    BY Sizes DEF Slot
  <2>2. Rotated[i].signature = IF n > base THEN n ELSE 0
    <3>1. LatestAt(base, known, n).signature = IF n > base THEN n ELSE 0
      BY DEF LatestAt, NoSignature
    <3>2. Rotated[i] = LatestAt(base, known, n)
      BY <1>1, <2>1
    <3> QED BY <3>1, <3>2
  <2> QED BY <2>1, <2>2 DEF Seen, NoSignature
<1>3. Acknowledged = {i \in Slot : last - Capacity + i + 1 > base}
  BY <1>2 DEF Acknowledged
<1>4. Capacity - 1 \in Slot /\ last - Capacity + (Capacity - 1) + 1 = last
  BY Sizes DEF Slot
<1>5. \A i \in Slot : last - Capacity + i + 1 <= last
  BY Sizes DEF Slot
<1>6. ASSUME last <= base PROVE Acknowledged = {}
  <2>1. \A i \in Slot : ~(last - Capacity + i + 1 > base)
    BY <1>5, <1>6, Sizes DEF Slot
  <2> QED BY <1>3, <2>1
<1>7. ASSUME ~(last <= base) PROVE Acknowledged # {}
  <2>1. Capacity - 1 \in Acknowledged
    BY <1>3, <1>4, <1>7
  <2> QED BY <2>1
<1> QED BY <1>3, <1>6, <1>7

(* A chat_message moves the window to the ring as it was signed. *)
LEMMA ChatMoves ==
    ASSUME WindowTyped, NEW base \in Nat, NEW last \in Nat, NEW known \in Int,
           base <= last, Round(ring, offset, base, known, last),
           NEW p, p.name = "chat_message", p.offset = pending,
           p.acknowledged = Acknowledged, p.index = index,
           NEW a \in Point, a.front = last - pending, last = base => a.index = index,
           NEW b \in Point, b.front = last, b.told = last,
           b.index = IF last = base THEN index + 1 ELSE a.index
    PROVE  Moves(p, a, b, base)
<1>1. /\ Acknowledged = {i \in Slot : last - Capacity + i + 1 > base}
      /\ Acknowledged = {} <=> last = base
  BY RingMarks
<1>2. b.front = a.front + p.offset
  <2>1. a.front \in Int /\ pending \in Nat
    BY DEF Point, WindowTyped
  <2> QED BY <2>1
<1> QED BY <1>1, <1>2 DEF Moves

LEMMA SignedChatStep == WindowInv /\ SignedChat => WindowInv'
<1> SUFFICES ASSUME WindowInv, SignedChat PROVE WindowInv'
  OBVIOUS
<1>1. /\ WindowTyped /\ ring \in [Slot -> Seens] /\ offset \in Slot /\ pending \in Nat
      /\ toServer \in Seq(ToServer) /\ index \in Nat
  BY DEF WindowInv, WindowTyped
<1>2. clientState = "play" /\ Connected /\ pending' = 0 /\ index' = index + 1
  BY DEF SignedChat, Chats
<1>3. /\ UNCHANGED <<offset, clientState, astray, window, serverState, verdict, sent, toClient>>
      /\ UNCHANGED <<enforced, expects, faults>>
  BY DEF SignedChat, peerVars, options, judgement
<1>4. Playing
  BY <1>2 DEF WindowInv, Leaving, Between, Entering
<1>5. PICK p \in ToServer : p = [name |-> "chat_message", offset |-> pending,
                                 acknowledged |-> Acknowledged, index |-> index]
  BY <1>1, RingRead DEF ToServer
<1>6. toServer' = Append(toServer, p) /\ ring' = [i \in Slot |-> Told(ring[i])]
  BY <1>5 DEF SignedChat, Chats
<1>7. /\ p.name = "chat_message" /\ p.offset = pending
      /\ p.acknowledged = Acknowledged /\ p.index = index
  BY <1>5
<1>8. /\ toServer' \in Seq(ToServer)
      /\ \A j \in 1..Len(toServer') : toServer'[j].name # "configuration_acknowledged"
  BY <1>1, <1>4, <1>6, <1>7, NoneMore DEF Playing
<1>9. ring' \in [Slot -> Seens]
  BY <1>1, <1>6 DEF Seens, Told
<1>10. WindowTyped'
  BY <1>1, <1>2, <1>3, <1>8, <1>9 DEF WindowTyped
<1>11. Playing'
  BY <1>3, <1>4, <1>8 DEF Playing
<1>12. ASSUME ~astray' PROVE Aligned'
  <2>1. PICK base \in Nat, last \in Nat : \E h : Follows(base, last, h)
    BY <1>2, <1>3, <1>4, <1>12 DEF WindowInv, Followed, Aligned
  <2>2. PICK h : Follows(base, last, h)
    BY <2>1
  <2>3. PICK a \in Point :
            /\ a = h[Len(toServer)] /\ a.front \in Int /\ a.told \in Int /\ a.index \in Int
            /\ base <= a.told /\ a.told <= a.front /\ a.front = last - pending
    BY ONLY <1>1, <2>2, base \in Nat, last \in Nat, FollowsEnd
  <2>4. /\ Round(ring, offset, base, a.told, last) /\ base <= last
        /\ last = base => a.index = index
        /\ enforced => h[0].index = expects
    BY <2>2, <2>3 DEF Follows
  <2>5. a.told <= last
    BY <1>1, <2>3
  <2>6. PICK known \in Int : known = a.told
    BY <2>3
  <2>7. Round(ring', offset, base, last, last)
    BY ONLY <1>1, <1>6, <2>3, <2>4, <2>5, <2>6, base \in Nat, last \in Nat, RingTold
  <2>8. PICK b \in Point : /\ b.front = last /\ b.told = last
                           /\ b.index = IF last = base THEN index + 1 ELSE a.index
    <3>1. [front |-> last, told |-> last,
           index |-> IF last = base THEN index + 1 ELSE a.index] \in Point
      BY <1>1, <2>3 DEF Point
    <3> QED BY <3>1
  <2>9. Moves(p, h[Len(toServer)], b, base)
    <3>1. Moves(p, a, b, base)
      <4>1. Round(ring, offset, base, known, last) /\ a.front = last - pending
        BY <2>3, <2>4, <2>6
      <4> QED BY ONLY <1>1, <1>7, <2>4, <2>8, <4>1, base \in Nat, last \in Nat, known \in Int,
                      a \in Point, b \in Point, ChatMoves
    <3> QED BY <2>3, <3>1
  <2>10. Within(b, base, last)
    BY <2>4, <2>8 DEF Within
  <2>11. PICK g :
             /\ g[0] = h[0] /\ g[Len(toServer')] = b
             /\ Leads(toServer', g, base, last)
    <3>1. Leads(toServer, h, base, last)
      BY <2>2 DEF Follows
    <3>2. \E g : /\ g[0] = h[0] /\ g[Len(Append(toServer, p))] = b
                 /\ Leads(Append(toServer, p), g, base, last)
      BY ONLY <1>1, p \in ToServer, b \in Point, <2>9, <2>10, <3>1,
              base \in Nat, last \in Nat, LeadsMore
    <3> QED BY <1>6, <3>2
  <2>12. Follows(base, last, g)'
    <3>1. last - pending' = last
      BY <1>2
    <3>2. last = base => b.index = index'
      BY <1>2, <2>8
    <3> QED BY <1>3, <2>2, <2>4, <2>7, <2>8, <2>11, <3>1, <3>2 DEF Follows
  <2> QED BY <2>12 DEF Aligned
<1> QED BY <1>2, <1>3, <1>10, <1>11, <1>12, KeepsPlaying

(* A command that is followed acknowledges nothing that is not told. *)
LEMMA NothingPending ==
    ASSUME WindowTyped, NEW base \in Nat, NEW last \in Nat, NEW known \in Int,
           known <= last, Round(ring, offset, base, known, last),
           ~\E i \in Slot : ring[i].pending
    PROVE  known = last
<1>1. Capacity - 1 \in Slot /\ last - Capacity + (Capacity - 1) + 1 = last
  BY Sizes DEF Slot
<1>2. /\ (offset + (Capacity - 1)) % Capacity \in Slot
      /\ ring[(offset + (Capacity - 1)) % Capacity] = LatestAt(base, known, last)
  <2>1. ring[(offset + (Capacity - 1)) % Capacity] =
            LatestAt(base, known, last - Capacity + (Capacity - 1) + 1)
    BY <1>1 DEF Round
  <2> QED BY <1>1, <2>1, RingRead
<1>3. LatestAt(base, known, last).pending = (last > known)
  BY DEF LatestAt
<1>4. ~LatestAt(base, known, last).pending
  BY <1>2
<1>5. ~(last > known)
  BY <1>3, <1>4
<1> QED BY <1>5

LEMMA SignedCommandStep ==
    ASSUME WindowInv, NEW signs \in BOOLEAN, SignedCommand(signs)
    PROVE  WindowInv'
<1>1. /\ WindowTyped /\ ring \in [Slot -> Seens] /\ offset \in Slot /\ pending \in Nat
      /\ toServer \in Seq(ToServer) /\ index \in Nat
  BY DEF WindowInv, WindowTyped
<1>2. /\ clientState = "play" /\ Connected /\ pending' = 0
      /\ index' \in {index, index + 1}
      /\ ~signs => index' = index
      /\ ring' = [i \in Slot |-> Told(ring[i])]
  BY DEF SignedCommand, Chats
<1>3. /\ UNCHANGED <<offset, clientState, window, serverState, verdict, sent, toClient>>
      /\ UNCHANGED <<enforced, expects, faults>>
  BY DEF SignedCommand, peerVars, options, judgement
<1>4. /\ astray => astray'
      /\ ~astray' => ~astray /\ ~signs /\ ~\E i \in Slot : ring[i].pending
  BY DEF SignedCommand
<1>5. Playing
  BY <1>2 DEF WindowInv, Leaving, Between, Entering
<1>6. PICK p \in ToServer : p = [name |-> "chat_command"] /\ p.name = "chat_command"
  <2>1. [name |-> "chat_command"] \in ToServer
    BY DEF ToServer
  <2> QED BY <2>1
<1>7. toServer' = Append(toServer, p)
  BY <1>6 DEF SignedCommand
<1>8. /\ toServer' \in Seq(ToServer)
      /\ \A j \in 1..Len(toServer') : toServer'[j].name # "configuration_acknowledged"
  BY <1>1, <1>5, <1>6, <1>7, NoneMore DEF Playing
<1>9. ring' \in [Slot -> Seens]
  BY <1>1, <1>2 DEF Seens, Told
<1>10. WindowTyped'
  BY <1>1, <1>2, <1>3, <1>8, <1>9 DEF WindowTyped
<1>11. Playing'
  BY <1>3, <1>5, <1>8 DEF Playing
<1>12. ASSUME ~astray' PROVE Aligned'
  <2>1. PICK base \in Nat, last \in Nat : \E h : Follows(base, last, h)
    BY <1>2, <1>4, <1>5, <1>12 DEF WindowInv, Followed, Aligned
  <2>2. PICK h : Follows(base, last, h)
    BY <2>1
  <2>3. PICK a \in Point :
            /\ a = h[Len(toServer)] /\ a.front \in Int /\ a.told \in Int
            /\ base <= a.told /\ a.told <= a.front /\ a.front = last - pending
    BY ONLY <1>1, <2>2, base \in Nat, last \in Nat, FollowsEnd
  <2>4. PICK known \in Int : known = a.told /\ known <= last
    BY <1>1, <2>3
  <2>5. Round(ring, offset, base, known, last)
    BY <2>2, <2>3, <2>4 DEF Follows
  <2>6. known = last
    BY ONLY <1>1, <1>4, <1>12, <2>4, <2>5, base \in Nat, last \in Nat, known \in Int,
            NothingPending
  <2>7. a.front = last
    BY <1>1, <2>3, <2>4, <2>6
  <2>8. Round(ring', offset, base, last, last)
    BY ONLY <1>1, <1>2, <2>3, <2>4, <2>5, base \in Nat, last \in Nat, RingTold
  <2>9. Moves(p, h[Len(toServer)], a, base)
    BY <1>6, <2>3 DEF Moves
  <2>10. Leads(toServer, h, base, last)
    BY <2>2 DEF Follows
  <2>11. Within(a, base, last)
    BY ONLY <1>1, <2>3, <2>10, base \in Nat, last \in Nat, LeadsEnd
  <2>12. PICK g :
             /\ g[0] = h[0] /\ g[Len(toServer')] = a
             /\ Leads(toServer', g, base, last)
    <3>1. \E g : /\ g[0] = h[0] /\ g[Len(Append(toServer, p))] = a
                 /\ Leads(Append(toServer, p), g, base, last)
      BY ONLY <1>1, p \in ToServer, a \in Point, <2>9, <2>10, <2>11,
              base \in Nat, last \in Nat, LeadsMore
    <3> QED BY <1>7, <3>1
  <2>13. Follows(base, last, g)'
    <3>1. last - pending' = last /\ index' = index
      BY <1>2, <1>4, <1>12
    <3> QED BY <1>3, <2>2, <2>3, <2>4, <2>6, <2>7, <2>8, <2>12, <3>1 DEF Follows
  <2> QED BY <2>13 DEF Aligned
<1> QED BY <1>2, <1>3, <1>4, <1>10, <1>11, <1>12, KeepsPlaying

LEMMA BroadcastStep == WindowInv /\ Broadcast => WindowInv'
<1> SUFFICES ASSUME WindowInv, Broadcast PROVE WindowInv'
  OBVIOUS
<1>1. /\ WindowTyped /\ toClient \in Seq(ToClient) /\ toServer \in Seq(ToServer)
      /\ window \in Seq(Seens) /\ pending \in Nat
  BY DEF WindowInv, WindowTyped
<1>2. PICK all \in Nat : all = sent
  BY DEF WindowInv, WindowTyped
<1>3. PICK more \in Nat : more = all + 1
  OBVIOUS
<1>4. serverState = "play" /\ sent' = more /\ Connected
  BY <1>2, <1>3 DEF Broadcast
<1>5. /\ UNCHANGED <<ring, offset, pending, index, clientState, serverState, toServer>>
      /\ UNCHANGED <<enforced, expects, faults>>
      /\ astray' <=> astray \/ ~enforced
  BY DEF Broadcast, clientVars, options
<1>6. PICK p \in ToClient : p = [name |-> "player_chat", signature |-> more]
  BY DEF ToClient
<1>7. p.name = "player_chat" /\ p.signature = more
  BY <1>6
<1>8. /\ toClient' = Append(toClient, p)
      /\ window' = IF enforced THEN Append(window, [signature |-> more, pending |-> TRUE])
                   ELSE window
  BY <1>4, <1>6 DEF Broadcast
<1>9. toClient' \in Seq(ToClient) /\ window' \in Seq(Seens)
  <2>1. [signature |-> more, pending |-> TRUE] \in Seens
    BY DEF Seens
  <2>2. Append(toClient, p) \in Seq(ToClient)
    BY ONLY <1>1, p \in ToClient, AppendProperties
  <2>3. Append(window, [signature |-> more, pending |-> TRUE]) \in Seq(Seens)
    BY ONLY <1>1, <2>1, AppendProperties
  <2> QED BY <1>1, <1>8, <2>2, <2>3
<1>10. WindowTyped'
  BY <1>1, <1>4, <1>5, <1>9 DEF WindowTyped
<1>11. FaultlessClient'
  BY <1>5 DEF WindowInv, FaultlessClient
<1>12. ~astray' => ~astray /\ enforced
  BY <1>5
<1>13. ASSUME NEW base \in Nat, NEW known \in Int, base <= all, known <= all,
              Kept(window, all, base, known), enforced
       PROVE  Kept(window', more, base, known) /\ Len(window') = Len(window) + 1
  <2>1. LET t == Append(window, [signature |-> all + 1, pending |-> TRUE])
        IN  Len(t) = Len(window) + 1 /\ Kept(t, all + 1, base, known)
    BY ONLY <1>1, <1>13, all \in Nat, KeptLonger
  <2> QED BY <1>3, <1>8, <1>13, <2>1
<1>14. ASSUME NEW last \in Nat, last <= all, Unread(toClient, last, all)
       PROVE  Unread(toClient', last, more)
  <2>1. p.signature = all + 1
    BY <1>3, <1>7
  <2>2. Unread(Append(toClient, p), last, all + 1)
    BY ONLY <1>1, <1>7, <1>14, <2>1, p \in ToClient, all \in Nat, UnreadMore
  <2> QED BY <1>3, <1>8, <2>2
<1>15. /\ Game(toClient, 1, FALSE) => Game(toClient', 1, FALSE)
       /\ Game(toClient, 2, FALSE) /\ toClient # <<>> =>
             Game(toClient', 2, FALSE) /\ toClient'[1] = toClient[1]
  <2>1. \A k \in {1, 2} : Len(toClient) >= k - 1 /\ Game(toClient, k, FALSE) =>
            /\ Game(toClient', k, FALSE)
            /\ toClient # <<>> => toClient'[1] = toClient[1]
    BY <1>1, <1>7, <1>8, GameMore
  <2>2. /\ Len(toClient) >= 1 - 1
        /\ toClient # <<>> => Len(toClient) >= 2 - 1
    BY <1>1, SeqFacts
  <2>3. 1 \in {1, 2} /\ 2 \in {1, 2}
    OBVIOUS
  <2> QED BY ONLY <2>1, <2>2, <2>3
<1>16. Len(toClient) \in Nat /\ (serverState = "leaving") = FALSE
       /\ (serverState' = "leaving") = FALSE
  BY <1>1, <1>4, <1>5, SeqFacts
<1>17. CASE Playing
  <2>1. Playing'
    <3>1. Game(toClient, 1, FALSE)
      BY <1>16, <1>17 DEF Playing
    <3>2. Game(toClient', 1, FALSE)
      BY <1>15, <3>1
    <3> QED BY <1>5, <1>16, <1>17, <3>2 DEF Playing
  <2>2. ASSUME ~astray' PROVE Aligned'
    <3>1. PICK base \in Nat, last \in Nat : \E h : Follows(base, last, h)
      BY <1>4, <1>17, <1>12, <2>2 DEF WindowInv, Followed, Aligned
    <3>2. PICK h : Follows(base, last, h)
      BY <3>1
    <3>3. PICK known \in Int : known = h[0].told /\ known <= last
      <4>1. h[0] \in Point /\ Within(h[0], base, last)
        <5>1. Leads(toServer, h, base, last) /\ 0 \in 0..Len(toServer)
          BY <1>1, <3>2, SeqFacts DEF Follows
        <5> QED BY <5>1 DEF Leads
      <4> QED BY <4>1 DEF Point, Within
    <3>4. /\ base <= last /\ last <= all /\ Unread(toClient, last, all)
          /\ Kept(window, all, base, known)
      BY <1>2, <3>2, <3>3 DEF Follows
    <3>5. Kept(window', more, base, known) /\ Len(window') = Len(window) + 1
      BY <1>13, <1>12, <2>2, <3>3, <3>4
    <3>6. Unread(toClient', last, more)
      BY <1>14, <3>4
    <3>7. h[0].front = sent' - Len(window') + Capacity
      <4>1. h[0].front = all - Len(window) + Capacity /\ Len(window) \in Nat
        BY <1>1, <1>2, <3>2, SeqFacts DEF Follows
      <4> QED BY <1>3, <1>4, <3>5, <4>1, Sizes
    <3>8. last <= more
      BY <1>3, <3>4
    <3>9. Follows(base, last, h)'
      BY <1>4, <1>5, <3>2, <3>3, <3>4, <3>5, <3>6, <3>7, <3>8 DEF Follows
    <3> QED BY <3>9 DEF Aligned
  <2>3. ASSUME ~astray' PROVE Followed'
    BY <1>5, <1>12, <2>1, <2>2, <2>3 DEF Followed, Playing, Entering
  <2> QED BY <1>10, <1>11, <2>1, <2>3 DEF WindowInv
<1>18. CASE Entering
  <2>2. ASSUME ~astray' PROVE Fresh'
    <3>4. PICK base \in Nat :
              /\ base <= all /\ Unread(toClient, base, all) /\ Kept(window, all, base, base)
              /\ base = all - Len(window) + Capacity
      BY <1>2, <1>4, <1>18, <1>12, <2>2 DEF WindowInv, Followed, Fresh
    <3>1. Kept(window', more, base, base) /\ Len(window') = Len(window) + 1
      BY <1>13, <1>12, <2>2, <3>4
    <3>2. Unread(toClient', base, more)
      BY <1>14, <3>4
    <3>3. base <= more /\ base = more - Len(window') + Capacity
      <4>1. Len(window) \in Nat
        BY <1>1, SeqFacts
      <4> QED BY <1>3, <3>1, <3>4, <4>1, Sizes
    <3> QED BY <1>4, <3>1, <3>2, <3>3 DEF Fresh
  <2>3. Entering'
    <3>1. Game(toClient, 2, FALSE) /\ toClient # <<>>
      BY <1>16, <1>18 DEF Entering
    <3>2. Game(toClient', 2, FALSE) /\ toClient'[1] = toClient[1]
      BY <1>15, <3>1
    <3>3. toClient' # <<>>
      BY <1>1, <1>8, AppendProperties
    <3> QED BY <1>5, <1>16, <1>18, <3>2, <3>3 DEF Entering
  <2>4. ~(Playing \/ Leaving)'
    BY <2>3 DEF Playing, Leaving, Entering
  <2>5. ASSUME ~astray' PROVE Followed'
    BY <1>5, <1>12, <2>2, <2>4, <2>5 DEF Followed
  <2> QED BY <1>10, <1>11, <2>3, <2>5 DEF WindowInv
<1> QED BY <1>4, <1>17, <1>18 DEF WindowInv, Leaving, Between

(* What the server sends besides the messages. *)
LEMMA SendStep ==
    ASSUME WindowInv, serverState = "play", Connected,
           NEW p \in ToClient, p.name \in {"hide_message", "start_configuration"},
           toClient' = Append(toClient, p),
           UNCHANGED <<clientVars, options, window, expects, judgement, toServer, sent, astray>>,
           serverState' = IF p.name = "start_configuration" THEN "leaving" ELSE "play"
    PROVE  WindowInv'
<1>1. WindowTyped /\ toClient \in Seq(ToClient)
  BY DEF WindowInv, WindowTyped
<1>2. /\ UNCHANGED <<ring, offset, pending, index, clientState, window, toServer, sent>>
      /\ UNCHANGED <<enforced, expects, faults, astray>>
  BY DEF clientVars, options, judgement
<1>3. toClient' \in Seq(ToClient) /\ toClient' # <<>>
  BY <1>1, AppendProperties
<1>4. WindowTyped'
  BY <1>1, <1>2, <1>3 DEF WindowTyped
<1>5. /\ Game(toClient, 1, FALSE) => Game(toClient', 1, serverState' = "leaving")
      /\ Game(toClient, 2, FALSE) /\ toClient # <<>> =>
            Game(toClient', 2, serverState' = "leaving") /\ toClient'[1] = toClient[1]
  <2>1. \A k \in {1, 2} : Len(toClient) >= k - 1 /\ Game(toClient, k, FALSE) =>
            /\ p.name = "hide_message" => Game(toClient', k, FALSE)
            /\ p.name = "start_configuration" => Game(toClient', k, TRUE)
            /\ toClient # <<>> => toClient'[1] = toClient[1]
    BY <1>1, GameMore
  <2>2. /\ Len(toClient) >= 1 - 1
        /\ toClient # <<>> => Len(toClient) >= 2 - 1
    BY <1>1, SeqFacts
  <2>3. 1 \in {1, 2} /\ 2 \in {1, 2}
    OBVIOUS
  <2>4. /\ p.name = "hide_message" => (serverState' = "leaving") = FALSE
        /\ p.name = "start_configuration" => (serverState' = "leaving") = TRUE
        /\ p.name = "hide_message" \/ p.name = "start_configuration"
    OBVIOUS
  <2>5. \A k \in {1, 2} : Len(toClient) >= k - 1 /\ Game(toClient, k, FALSE) =>
            /\ Game(toClient', k, serverState' = "leaving")
            /\ toClient # <<>> => toClient'[1] = toClient[1]
    <3>1. CASE p.name = "hide_message"
      <4>1. (serverState' = "leaving") = FALSE
        BY <2>4, <3>1
      <4> QED BY <2>1, <3>1, <4>1
    <3>2. CASE p.name = "start_configuration"
      <4>1. (serverState' = "leaving") = TRUE
        BY <2>4, <3>2
      <4> QED BY <2>1, <3>2, <4>1
    <3> QED BY <2>4, <3>1, <3>2
  <2> QED BY ONLY <2>2, <2>3, <2>5
<1>6. (serverState = "leaving") = FALSE
  OBVIOUS
<1>7. ASSUME NEW last \in Nat, last <= sent, Unread(toClient, last, sent)
      PROVE  Unread(toClient', last, sent)
  <2>1. PICK all \in Nat : all = sent
    BY <1>1 DEF WindowTyped
  <2>2. p.name # "player_chat" /\ Unread(toClient, last, all) /\ last <= all
    BY <1>7, <2>1
  <2>3. Unread(Append(toClient, p), last, all)
    BY ONLY <1>1, <2>2, p \in ToClient, last \in Nat, all \in Nat, UnreadMore
  <2> QED BY <2>1, <2>3
<1>8. CASE Playing
  <2>1. Playing'
    <3>1. Game(toClient, 1, FALSE)
      BY <1>6, <1>8 DEF Playing
    <3> QED BY <1>2, <1>5, <1>8, <3>1 DEF Playing
  <2>2. ASSUME ~astray' PROVE Aligned'
    <3>1. PICK base \in Nat, last \in Nat : \E h : Follows(base, last, h)
      BY <1>2, <1>8, <2>2 DEF WindowInv, Followed, Aligned
    <3>2. PICK h : Follows(base, last, h)
      BY <3>1
    <3>3. Unread(toClient', last, sent')
      BY <1>2, <1>7, <3>2 DEF Follows
    <3>4. Follows(base, last, h)'
      BY <1>2, <3>2, <3>3 DEF Follows
    <3> QED BY <3>4 DEF Aligned
  <2> QED BY <1>2, <1>4, <2>1, <2>2, KeepsPlaying
<1>9. CASE Entering
  <2>1. ASSUME ~astray' PROVE Fresh'
    BY <1>2, <1>7, <1>9, <2>1 DEF WindowInv, Followed, Fresh
  <2>2. Entering'
    <3>1. Game(toClient, 2, FALSE) /\ toClient # <<>>
      BY <1>6, <1>9 DEF Entering
    <3> QED BY <1>2, <1>3, <1>5, <1>9, <3>1 DEF Entering
  <2>3. ~(Playing \/ Leaving)'
    BY <2>2 DEF Playing, Leaving, Entering
  <2>4. ASSUME ~astray' PROVE Followed'
    BY <1>2, <2>1, <2>3, <2>4 DEF WindowInv, Followed
  <2>5. FaultlessClient'
    BY <1>2 DEF WindowInv, FaultlessClient
  <2> QED BY <1>4, <2>2, <2>4, <2>5 DEF WindowInv
<1> QED BY <1>8, <1>9 DEF WindowInv, Leaving, Between

LEMMA SendHideMessageStep == WindowInv /\ SendHideMessage => WindowInv'
<1> SUFFICES ASSUME WindowInv, SendHideMessage PROVE WindowInv'
  OBVIOUS
<1>1. PICK s \in 1..sent, byId \in BOOLEAN :
          toClient' = Append(toClient, [name |-> "hide_message",
                                        signature |-> s, cached |-> byId])
  BY DEF SendHideMessage
<1>2. s \in Nat
  BY DEF WindowInv, WindowTyped
<1>3. PICK p \in ToClient :
          /\ p = [name |-> "hide_message", signature |-> s, cached |-> byId]
          /\ p.name = "hide_message"
  <2>1. [name |-> "hide_message", signature |-> s, cached |-> byId] \in ToClient
    BY <1>2 DEF ToClient
  <2> QED BY <2>1
<1>4. /\ serverState = "play" /\ Connected
      /\ UNCHANGED <<clientVars, options, window, expects, judgement, toServer, sent, astray>>
      /\ serverState' = "play"
  BY DEF SendHideMessage, peerVars
<1>5. toClient' = Append(toClient, p)
      /\ serverState' = (IF p.name = "start_configuration" THEN "leaving" ELSE "play")
      /\ p.name \in {"hide_message", "start_configuration"}
  BY <1>1, <1>3, <1>4
<1> QED BY ONLY WindowInv, p \in ToClient, <1>4, <1>5, SendStep

LEMMA SendStartConfigurationStep == WindowInv /\ SendStartConfiguration => WindowInv'
<1> SUFFICES ASSUME WindowInv, SendStartConfiguration PROVE WindowInv'
  OBVIOUS
<1>1. PICK p \in ToClient :
          /\ p = [name |-> "start_configuration"] /\ p.name = "start_configuration"
  <2>1. [name |-> "start_configuration"] \in ToClient
    BY DEF ToClient
  <2> QED BY <2>1
<1>2. /\ serverState = "play" /\ Connected
      /\ UNCHANGED <<clientVars, options, window, expects, judgement, toServer, sent, astray>>
      /\ serverState' = "leaving"
  BY DEF SendStartConfiguration
<1>3. toClient' = Append(toClient, p)
      /\ serverState' = (IF p.name = "start_configuration" THEN "leaving" ELSE "play")
      /\ p.name \in {"hide_message", "start_configuration"}
  BY <1>1, <1>2 DEF SendStartConfiguration
<1> QED BY ONLY WindowInv, p \in ToClient, <1>2, <1>3, SendStep

LEMMA SendLoginStep == WindowInv /\ SendLogin => WindowInv'
<1> SUFFICES ASSUME WindowInv, SendLogin PROVE WindowInv'
  OBVIOUS
<1>1. WindowTyped
  BY DEF WindowInv
<1>2. /\ serverState = "configuration" /\ Connected /\ serverState' = "play"
      /\ toClient' = Append(toClient, [name |-> "login"])
      /\ astray' <=> astray \/ window # EmptyWindow
  BY DEF SendLogin
<1>3. /\ UNCHANGED <<ring, offset, pending, index, clientState, window, toServer, sent>>
      /\ UNCHANGED <<enforced, expects, faults>>
  BY DEF SendLogin, clientVars, counters, options, judgement
<1>4. Between
  BY <1>2 DEF WindowInv, Playing, Leaving, Entering
<1>5. PICK p \in ToClient : p = [name |-> "login"] /\ p.name = "login"
  <2>1. [name |-> "login"] \in ToClient
    BY DEF ToClient
  <2> QED BY <2>1
<1>6. /\ toClient' \in Seq(ToClient) /\ Len(toClient') = 1 /\ toClient'[1] = p
      /\ toClient' # <<>>
  <2>1. toClient' = <<p>>
    BY <1>2, <1>4, <1>5 DEF Between
  <2> QED BY <2>1
<1>7. PICK base \in Nat : base = sent
  BY <1>1 DEF WindowTyped
<1>8. /\ EmptyWindow \in Seq(Seens) /\ Len(EmptyWindow) = Capacity
      /\ Kept(EmptyWindow, base, base, base)
  BY KeptEmpty
<1>9. WindowTyped'
  BY <1>1, <1>2, <1>3, <1>6 DEF WindowTyped
<1>10. ASSUME ~astray' PROVE Fresh'
  <2>1. Unread(toClient', base, base)
    <3>1. base + 1..base = {}
      OBVIOUS
    <3>2. \A x \in 1..Len(toClient') : toClient'[x].name # "player_chat"
      BY <1>5, <1>6
    <3> QED BY <3>1, <3>2 DEF Unread
  <2>2. base = base - Len(window') + Capacity
    BY <1>2, <1>3, <1>8, <1>10, Sizes
  <2> QED BY <1>2, <1>3, <1>7, <1>8, <1>10, <2>1, <2>2 DEF Fresh
<1>11. Entering'
  <2>1. Game(toClient', 2, FALSE)
    BY <1>6 DEF Game
  <2>2. (serverState' = "leaving") = FALSE
    BY <1>2
  <2> QED BY <1>2, <1>3, <1>4, <1>5, <1>6, <2>1, <2>2 DEF Entering, Between
<1>12. ~(Playing \/ Leaving)'
  BY <1>11 DEF Playing, Leaving, Entering
<1>13. ASSUME ~astray' PROVE Followed'
  BY <1>2, <1>3, <1>10, <1>12, <1>13 DEF WindowInv, Followed
<1>14. FaultlessClient'
  BY <1>2, <1>3 DEF WindowInv, FaultlessClient
<1> QED BY <1>9, <1>11, <1>13, <1>14 DEF WindowInv

LEMMA ConfigurationAcknowledgedStep ==
    WindowInv /\ OnConfigurationAcknowledged => WindowInv'
<1> SUFFICES ASSUME WindowInv, OnConfigurationAcknowledged PROVE WindowInv'
  OBVIOUS
<1>1. WindowTyped /\ toServer \in Seq(ToServer)
  BY DEF WindowInv, WindowTyped
<1>2. /\ toServer # <<>> /\ Head(toServer).name = "configuration_acknowledged"
      /\ toServer' = Tail(toServer) /\ Connected /\ serverState' = "configuration"
  BY DEF OnConfigurationAcknowledged, Take
<1>3. /\ UNCHANGED <<ring, offset, pending, index, clientState, window, toClient, sent>>
      /\ UNCHANGED <<enforced, expects, faults, astray>>
  BY DEF OnConfigurationAcknowledged, clientVars, counters, options, judgement
<1>4. /\ Len(toServer) \in Nat /\ Len(toServer) >= 1 /\ Head(toServer) = toServer[1]
      /\ Tail(toServer) \in Seq(ToServer) /\ Len(Tail(toServer)) = Len(toServer) - 1
  BY <1>1, <1>2, HeadFacts
<1>5. 1 \in 1..Len(toServer)
  BY <1>4
<1>6. Leaving
  BY <1>2, <1>4, <1>5 DEF WindowInv, Playing, Between, Entering
<1>7. Tail(toServer) = <<>>
  <2>1. Len(toServer) = 1
    BY <1>2, <1>4, <1>5, <1>6 DEF Leaving
  <2>2. Len(Tail(toServer)) = 0
    BY <1>4, <2>1
  <2> QED BY <1>4, <2>2, SeqFacts
<1>8. WindowTyped'
  BY <1>1, <1>2, <1>3, <1>4 DEF WindowTyped
<1>9. Between'
  BY <1>2, <1>3, <1>6, <1>7 DEF Between, Leaving
<1>10. ~(Playing \/ Leaving \/ Entering)'
  BY <1>9 DEF Playing, Leaving, Between, Entering
<1>11. ~astray' => Followed'
  BY <1>2, <1>3, <1>10 DEF WindowInv, Followed
<1>12. FaultlessClient'
  BY <1>3 DEF WindowInv, FaultlessClient
<1> QED BY <1>8, <1>9, <1>11, <1>12 DEF WindowInv

(* What is read in a game leaves its stage as it is. *)
LEMMA TakeStage ==
    ASSUME WindowInv, Connected, toServer # <<>>,
           Head(toServer).name # "configuration_acknowledged",
           toServer' = Tail(toServer), UNCHANGED <<clientState, serverState, toClient>>
    PROVE  (Playing /\ Playing') \/ (Leaving /\ Leaving')
<1>1. toServer \in Seq(ToServer)
  BY DEF WindowInv, WindowTyped
<1> DEFINE n == Len(toServer) - 1
<1>2. /\ n \in Nat /\ Len(toServer) = n + 1 /\ Head(toServer) = toServer[1]
      /\ Len(toServer') = n /\ toServer' \in Seq(ToServer)
      /\ \A j \in 1..n : toServer'[j] = toServer[j + 1]
  BY <1>1, HeadFacts
<1> HIDE DEF n
<1>3. \A j \in 1..n : j + 1 \in 1..n + 1 /\ (j + 1 = n + 1 <=> j = n)
  BY <1>2
<1>4. 1 \in 1..n + 1 /\ (1 = n + 1 <=> n = 0)
  BY <1>2
<1>5. CASE Playing
  <2>1. \A j \in 1..n + 1 : toServer[j].name # "configuration_acknowledged"
    BY <1>2, <1>5 DEF Playing
  <2>2. \A j \in 1..Len(toServer') : toServer'[j].name # "configuration_acknowledged"
    BY <1>2, <1>3, <2>1
  <2> QED BY <1>5, <2>2 DEF Playing
<1>6. CASE Leaving
  <2>1. \A j \in 1..n + 1 : toServer[j].name = "configuration_acknowledged" <=> j = n + 1
    BY <1>2, <1>6 DEF Leaving
  <2>2. n # 0
    BY <1>2, <1>4, <2>1
  <2>3. toServer' # <<>>
    BY <1>2, <2>2, SeqFacts
  <2>4. \A j \in 1..Len(toServer') :
            toServer'[j].name = "configuration_acknowledged" <=> j = Len(toServer')
    BY <1>2, <1>3, <2>1
  <2> QED BY <1>6, <2>3, <2>4 DEF Leaving
<1> QED BY <1>5, <1>6 DEF WindowInv, Between, Entering

LEMMA ShiftedTyped ==
    ASSUME WindowTyped, NEW n \in Nat
    PROVE  Shifted(n) \in Seq(Seens)
<1>1. /\ window \in Seq(Seens) /\ n + 1 \in Int /\ Len(window) \in Int
      /\ \A i \in n + 1..Len(window) : window[i] \in Seens
  <2>1. window \in Seq(Seens)
    BY DEF WindowTyped
  <2> QED BY <2>1, SeqFacts
<1>2. SubSeq(window, n + 1, Len(window)) \in Seq(Seens)
  BY ONLY <1>1, SubSeqProperties
<1> QED BY <1>2 DEF Shifted

LEMMA UnwrappedTyped ==
    ASSUME NEW w \in Seq(Seens), NEW bits
    PROVE  Unwrapped(w, bits) \in Seq(Seens)
<1>1. Len(w) \in Nat /\ DOMAIN w = 1..Len(w) /\ \A q \in 1..Len(w) : w[q] \in Seens
  BY SeqFacts
<1>2. Empty \in Seens
  BY DEF Empty, Seens, NoSignature
<1>3. \A q \in 1..Len(w) : [w[q] EXCEPT !.pending = FALSE] \in Seens
  BY <1>1 DEF Seens
<1>4. Unwrapped(w, bits) \in [1..Len(w) -> Seens]
  BY <1>1, <1>2, <1>3 DEF Unwrapped
<1> QED BY ONLY <1>1, <1>4, FunctionIsSeq

(* The window of a game and how far the next report of the client moves it. *)
LEMMA NextMove ==
    ASSUME WindowTyped, toServer # <<>>, NEW base \in Nat, NEW last \in Nat,
           NEW h, Follows(base, last, h)
    PROVE  /\ h[0] \in Point /\ h[1] \in Point
           /\ h[0].front \in Int /\ h[0].told \in Int /\ h[0].index \in Int
           /\ h[1].front \in Int /\ h[1].told \in Int /\ h[1].index \in Int
           /\ Moves(Head(toServer), h[0], h[1], base)
           /\ base <= h[0].told /\ h[0].told <= h[0].front
           /\ base <= h[1].told /\ h[1].told <= h[1].front /\ h[1].front <= sent
           /\ h[0].front = sent - Len(window) + Capacity
           /\ Kept(window, sent, base, h[0].told)
           /\ \E g : /\ g[0] = h[1] /\ g[Len(Tail(toServer))] = h[Len(toServer)]
                      /\ Leads(Tail(toServer), g, base, last)
<1>1. toServer \in Seq(ToServer) /\ sent \in Nat
  BY DEF WindowTyped
<1>2. /\ Leads(toServer, h, base, last) /\ last <= sent
      /\ h[0].front = sent - Len(window) + Capacity
      /\ Kept(window, sent, base, h[0].told)
  BY DEF Follows
<1>3. /\ Moves(Head(toServer), h[0], h[1], base)
      /\ h[0] \in Point /\ Within(h[0], base, last)
      /\ h[1] \in Point /\ Within(h[1], base, last)
      /\ \E g : /\ g[0] = h[1] /\ g[Len(Tail(toServer))] = h[Len(toServer)]
                 /\ Leads(Tail(toServer), g, base, last)
  BY ONLY <1>1, <1>2, toServer # <<>>, base \in Nat, last \in Nat, LeadsTail
<1>4. /\ h[0].front \in Int /\ h[0].told \in Int /\ h[0].index \in Int
      /\ h[1].front \in Int /\ h[1].told \in Int /\ h[1].index \in Int
  BY <1>3 DEF Point
<1>5. /\ base <= h[0].told /\ h[0].told <= h[0].front
      /\ base <= h[1].told /\ h[1].told <= h[1].front /\ h[1].front <= last
  BY <1>3 DEF Within
<1>6. h[1].front <= sent
  BY <1>1, <1>2, <1>4, <1>5
<1> QED BY <1>2, <1>3, <1>4, <1>5, <1>6

LEMMA MessageAcknowledgementStep ==
    WindowInv /\ OnMessageAcknowledgement => WindowInv'
<1> SUFFICES ASSUME WindowInv, OnMessageAcknowledgement PROVE WindowInv'
  OBVIOUS
<1>1. WindowTyped /\ toServer \in Seq(ToServer)
  BY DEF WindowInv, WindowTyped
<1>2. toServer # <<>> /\ toServer' = Tail(toServer) /\ verdict' = "thrown"
  BY DEF OnMessageAcknowledgement, Take
<1>3. /\ UNCHANGED <<ring, offset, pending, index, window, expects, toClient, sent>>
      /\ UNCHANGED <<faults, astray>>
  BY DEF OnMessageAcknowledgement, clientVars, counters
<1>4. Tail(toServer) \in Seq(ToServer)
  BY <1>1, <1>2, HeadFacts
<1>5. WindowTyped'
  BY <1>1, <1>2, <1>3, <1>4 DEF WindowTyped
<1>6. FaultlessClient' /\ ~Connected'
  BY <1>2, <1>3 DEF WindowInv, FaultlessClient, Connected
<1> QED BY <1>5, <1>6, Cut

(* A packet that leaves the window as it is. *)
LEMMA ReadStep ==
    ASSUME WindowInv, Connected, toServer # <<>>,
           Head(toServer).name \in {"chat_command", "chat_session_update"},
           toServer' = Tail(toServer),
           expects' = IF Head(toServer).name = "chat_command" THEN expects ELSE 0,
           UNCHANGED <<clientVars, options, window, serverState, judgement, toClient,
                       counters, astray>>
    PROVE  WindowInv'
<1>1. /\ WindowTyped /\ toServer \in Seq(ToServer) /\ window \in Seq(Seens)
      /\ sent \in Nat
  BY DEF WindowInv, WindowTyped
<1>2. Head(toServer).name # "configuration_acknowledged"
  OBVIOUS
<1>3. /\ UNCHANGED <<ring, offset, pending, index, clientState, window, serverState>>
      /\ UNCHANGED <<toClient, sent, enforced, faults, astray>>
  BY DEF clientVars, counters, options, judgement
<1>4. Head(toServer) \in ToServer /\ Tail(toServer) \in Seq(ToServer)
  BY <1>1, HeadFacts
<1>5. WindowTyped'
  <2>1. expects' \in Nat
    BY <1>1 DEF WindowTyped
  <2> QED BY <1>1, <1>3, <1>4, <2>1 DEF WindowTyped
<1>6. (Playing /\ Playing') \/ (Leaving /\ Leaving')
  BY <1>2, <1>3, TakeStage
<1>7. ASSUME ~astray' PROVE Aligned'
  <2>1. PICK base \in Nat, last \in Nat : \E h : Follows(base, last, h)
    BY <1>3, <1>6, <1>7 DEF WindowInv, Followed, Aligned
  <2>2. PICK h : Follows(base, last, h)
    BY <2>1
  <2>3. /\ Moves(Head(toServer), h[0], h[1], base)
        /\ h[0].front = sent - Len(window) + Capacity
        /\ Kept(window, sent, base, h[0].told)
    BY ONLY <1>1, toServer # <<>>, <2>2, base \in Nat, last \in Nat, NextMove
  <2>4. PICK g : /\ g[0] = h[1] /\ g[Len(Tail(toServer))] = h[Len(toServer)]
                 /\ Leads(Tail(toServer), g, base, last)
    BY ONLY <1>1, toServer # <<>>, <2>2, base \in Nat, last \in Nat, NextMove
  <2>5. /\ h[1].front = h[0].front /\ h[1].told = h[0].told
        /\ enforced => h[1].index = expects'
    <3>1. enforced => h[0].index = expects
      BY <2>2 DEF Follows
    <3> QED BY <2>3, <3>1 DEF Moves
  <2>6. Follows(base, last, g)'
    BY <1>3, <2>2, <2>3, <2>4, <2>5 DEF Follows
  <2> QED BY <2>6 DEF Aligned
<1> QED BY <1>3, <1>5, <1>6, <1>7, KeepsPlaying

LEMMA ChatCommandStep == WindowInv /\ OnChatCommand => WindowInv'
<1> SUFFICES ASSUME WindowInv, OnChatCommand PROVE WindowInv'
  OBVIOUS
<1>1. /\ Connected /\ toServer # <<>> /\ Head(toServer).name = "chat_command"
      /\ toServer' = Tail(toServer) /\ expects' = expects
      /\ UNCHANGED <<clientVars, options, window, serverState, judgement, toClient,
                     counters, astray>>
  BY DEF OnChatCommand, Take, peerVars
<1> QED BY <1>1, ReadStep

LEMMA ChatSessionUpdateStep == WindowInv /\ OnChatSessionUpdate => WindowInv'
<1> SUFFICES ASSUME WindowInv, OnChatSessionUpdate PROVE WindowInv'
  OBVIOUS
<1>1. /\ Connected /\ toServer # <<>> /\ Head(toServer).name = "chat_session_update"
      /\ toServer' = Tail(toServer) /\ expects' = 0
      /\ UNCHANGED <<clientVars, options, window, serverState, judgement, toClient,
                     counters, astray>>
  BY DEF OnChatSessionUpdate, Take
<1> QED BY <1>1, ReadStep

(***************************************************************************)
(* The window that a chat_message of a game leaves behind, and that unwrap *)
(* refuses nothing of what it says.                                        *)
(***************************************************************************)
LEMMA ChatMoved ==
    ASSUME WindowTyped, toServer # <<>>, NEW base \in Nat, NEW last \in Nat,
           NEW h, Follows(base, last, h), NEW p \in ToServer,
           Head(toServer) = p, p.name = "chat_message"
    PROVE  LET u == Unwrapped(Shifted(p.offset), p.acknowledged)
           IN  /\ OffsetApplies(p.offset)
               /\ Refused(Shifted(p.offset), p.acknowledged) = {}
               /\ Kept(u, sent, base, h[1].told)
               /\ h[1].front = sent - Len(u) + Capacity
<1>1. toServer \in Seq(ToServer) /\ window \in Seq(Seens) /\ sent \in Nat
  BY DEF WindowTyped
<1>2. PICK n \in Nat : n = p.offset
  BY Fields
<1>3. PICK bits : bits = p.acknowledged
  OBVIOUS
<1>4. PICK w \in Seq(Seens) : w = Shifted(n)
  BY ShiftedTyped
<1>5. /\ h[0].front \in Int /\ h[0].told \in Int /\ h[1].front \in Int
      /\ Moves(Head(toServer), h[0], h[1], base) /\ h[1].front <= sent
      /\ base <= h[0].told /\ h[0].told <= h[0].front
      /\ h[0].front = sent - Len(window) + Capacity
      /\ Kept(window, sent, base, h[0].told)
  BY NextMove
<1>6. PICK known \in Int, front \in Int : known = h[0].told /\ front = h[1].front
  BY <1>5
<1>7. /\ front = h[0].front + n /\ h[1].told = front
      /\ bits = {i \in Slot : front - Capacity + i + 1 > base}
  BY <1>2, <1>3, <1>5, <1>6 DEF Moves
<1>8. PICK m \in Nat : m = Len(window)
  BY <1>1, SeqFacts
<1>9. PICK all \in Nat : all = sent
  BY <1>1
<1>10. n <= m - Capacity
  <2>1. PICK start \in Int : start = h[0].front
    BY <1>5
  <2>2. start = all - m + Capacity /\ front = start + n /\ front <= all
    BY <1>5, <1>6, <1>7, <1>8, <1>9, <2>1
  <2> QED BY <2>2, Sizes
<1>11. OffsetApplies(n) /\ w = SubSeq(window, n + 1, Len(window))
  BY <1>4, <1>8, <1>10 DEF OffsetApplies, Shifted
<1>12. Len(w) = Len(window) - n /\ Kept(w, all, base, known)
  <2>1. n <= Len(window) - Capacity /\ Kept(window, all, base, known)
    BY <1>5, <1>6, <1>8, <1>9, <1>10
  <2> QED BY ONLY <1>1, <1>11, <2>1, n \in Nat, all \in Nat, base \in Nat, known \in Int,
                  KeptShorter
<1>13. Ends(w, all, front)
  BY <1>5, <1>7, <1>8, <1>9, <1>12, Sizes DEF Ends
<1>14. base <= known /\ known <= front
  BY <1>5, <1>6, <1>7
<1>15. Marks(bits, base, front)
  BY <1>7 DEF Marks
<1>16. /\ Refused(w, bits) = {} /\ Len(Unwrapped(w, bits)) = Len(w)
       /\ Kept(Unwrapped(w, bits), all, base, front)
  BY ONLY <1>12, <1>13, <1>14, <1>15, w \in Seq(Seens), all \in Nat, base \in Nat,
          known \in Int, front \in Int, KeptUnwrapped
<1>17. front = all - Len(Unwrapped(w, bits)) + Capacity
  BY <1>13, <1>16 DEF Ends
<1> QED BY <1>2, <1>3, <1>4, <1>6, <1>7, <1>9, <1>11, <1>16, <1>17

LEMMA ChatMessageStep == WindowInv /\ OnChatMessage => WindowInv'
<1> SUFFICES ASSUME WindowInv, OnChatMessage PROVE WindowInv'
  OBVIOUS
<1>1. /\ WindowTyped /\ toServer \in Seq(ToServer) /\ window \in Seq(Seens)
      /\ sent \in Nat /\ expects \in Nat
  BY DEF WindowInv, WindowTyped
<1>2. /\ toServer # <<>> /\ Head(toServer).name = "chat_message"
      /\ toServer' = Tail(toServer) /\ Connected
  BY DEF OnChatMessage, Take
<1>3. /\ UNCHANGED <<ring, offset, pending, index, clientState, serverState, toClient>>
      /\ UNCHANGED <<sent, enforced, clientUp, astray>>
  BY DEF OnChatMessage, clientVars, counters, options
<1>4. PICK p \in ToServer : p = Head(toServer) /\ p.name = "chat_message"
  BY <1>1, <1>2, HeadFacts
<1>5. Tail(toServer) \in Seq(ToServer)
  BY <1>1, <1>2, HeadFacts
<1>6. PICK bits : bits = p.acknowledged
  OBVIOUS
<1>7. PICK w \in Seq(Seens) : w = Shifted(p.offset)
  <2>1. p.offset \in Nat
    BY <1>4, Fields
  <2> QED BY <1>1, <2>1, ShiftedTyped
<1>8. w = Shifted(p.offset) /\ bits = p.acknowledged
  BY <1>6, <1>7
<1>9. \/ ~enforced /\ UNCHANGED <<window, expects, verdict, faults>>
      \/ enforced /\ ValidateSession(p)
      \/ enforced /\ verdict' = "ended" /\ UNCHANGED <<window, expects, faults>>
  BY <1>4 DEF OnChatMessage, judgement
<1>10. WindowTyped'
  <2>1. window' \in Seq(Seens) /\ expects' \in Nat
    <3>1. CASE enforced /\ ValidateSession(p)
      <4>1. window' = window \/ window' = Unwrapped(w, bits)
        BY <1>8, <3>1 DEF ValidateSession
      <4>2. expects' = expects \/ expects' = expects + 1
        BY <3>1 DEF ValidateSession
      <4> QED BY <1>1, <4>1, <4>2, UnwrappedTyped
    <3> QED BY <1>1, <1>9, <3>1
  <2> QED BY <1>1, <1>2, <1>3, <1>5, <2>1 DEF WindowTyped
<1>11. (Playing /\ Playing') \/ (Leaving /\ Leaving')
  BY <1>2, <1>3, TakeStage
<1>12. ~(Entering')
  BY <1>11 DEF Playing, Leaving, Entering
<1>13. CASE astray
  BY <1>3, <1>10, <1>11, <1>13 DEF WindowInv, FaultlessClient
<1>14. CASE enforced /\ verdict' = "ended" /\ UNCHANGED <<window, expects, faults>>
  <2>1. FaultlessClient' /\ ~Connected'
    BY <1>3, <1>14 DEF WindowInv, FaultlessClient, Connected
  <2> QED BY <1>10, <2>1, Cut
<1>15. ASSUME ~astray
       PROVE  \E base, last \in Nat : \E h, g :
                  /\ Follows(base, last, h)
                  /\ g[0] = h[1] /\ g[Len(Tail(toServer))] = h[Len(toServer)]
                  /\ Leads(Tail(toServer), g, base, last)
                  /\ Moves(p, h[0], h[1], base)
                  /\ enforced => h[0].index = expects
  <2>1. PICK base \in Nat, last \in Nat : \E h : Follows(base, last, h)
    BY <1>2, <1>11, <1>15 DEF WindowInv, Followed, Aligned
  <2>2. PICK h : Follows(base, last, h)
    BY <2>1
  <2>3. Moves(Head(toServer), h[0], h[1], base)
    BY ONLY <1>1, <1>2, <2>2, base \in Nat, last \in Nat, NextMove
  <2>4. PICK g : /\ g[0] = h[1] /\ g[Len(Tail(toServer))] = h[Len(toServer)]
                 /\ Leads(Tail(toServer), g, base, last)
    BY ONLY <1>1, <1>2, <2>2, base \in Nat, last \in Nat, NextMove
  <2>5. enforced => h[0].index = expects
    BY <2>2 DEF Follows
  <2> QED BY <1>4, <2>2, <2>3, <2>4, <2>5
<1>16. CASE ~astray /\ ~enforced /\ UNCHANGED <<window, expects, verdict, faults>>
  <2>6. PICK base \in Nat, last \in Nat : \E h, g :
            /\ Follows(base, last, h)
            /\ g[0] = h[1] /\ g[Len(Tail(toServer))] = h[Len(toServer)]
            /\ Leads(Tail(toServer), g, base, last)
    BY <1>15, <1>16
  <2>1. PICK h, g :
            /\ Follows(base, last, h)
            /\ g[0] = h[1] /\ g[Len(Tail(toServer))] = h[Len(toServer)]
            /\ Leads(Tail(toServer), g, base, last)
    BY <2>6
  <2>2. sent = 0
    BY <1>2, <1>16 DEF WindowInv, Followed
  <2>3. h[1].front = h[0].front /\ h[1].told = h[0].told
    <3>1. last = 0
      BY <2>1, <2>2 DEF Follows
    <3>2. h[0] \in Point /\ h[1] \in Point /\ Within(h[0], base, last) /\ Within(h[1], base, last)
      <4>1. Leads(toServer, h, base, last)
        BY <2>1 DEF Follows
      <4> QED BY ONLY <1>1, <1>2, <4>1, base \in Nat, last \in Nat, LeadsTail
    <3> QED BY <3>1, <3>2 DEF Within, Point
  <2>4. Follows(base, last, g)'
    BY <1>2, <1>3, <1>16, <2>1, <2>3 DEF Follows
  <2>5. Aligned'
    BY <2>4 DEF Aligned
  <2> QED BY <1>2, <1>3, <1>10, <1>11, <1>16, <2>5, KeepsPlaying
<1>17. CASE ~astray /\ enforced /\ ValidateSession(p)
  <2>9. PICK base \in Nat, last \in Nat : \E h, g :
            /\ Follows(base, last, h)
            /\ g[0] = h[1] /\ g[Len(Tail(toServer))] = h[Len(toServer)]
            /\ Leads(Tail(toServer), g, base, last)
            /\ Moves(p, h[0], h[1], base)
            /\ h[0].index = expects
    BY <1>15, <1>17
  <2>1. PICK h, g :
            /\ Follows(base, last, h)
            /\ g[0] = h[1] /\ g[Len(Tail(toServer))] = h[Len(toServer)]
            /\ Leads(Tail(toServer), g, base, last)
            /\ Moves(p, h[0], h[1], base)
            /\ h[0].index = expects
    BY <2>9
  <2>2. /\ OffsetApplies(p.offset) /\ Refused(w, bits) = {}
        /\ Kept(Unwrapped(w, bits), sent, base, h[1].told)
        /\ h[1].front = sent - Len(Unwrapped(w, bits)) + Capacity
    BY ONLY <1>1, <1>2, <1>4, <1>8, <2>1, base \in Nat, last \in Nat, ChatMoved
  <2>3. /\ window' = Unwrapped(w, bits)
        /\ expects' = IF bits = {} THEN expects + 1 ELSE expects
        /\ IF bits # {} THEN Errs("concat")
           ELSE IF p.index # expects THEN Errs("signature")
           ELSE UNCHANGED judgement
    BY <1>8, <1>17, <2>2 DEF ValidateSession
  <2>4. /\ bits = {} => p.index = h[0].index /\ h[1].index = h[0].index + 1
        /\ bits # {} => h[1].index = h[0].index
    BY <1>4, <1>8, <2>1 DEF Moves
  <2>5. h[1].index = expects'
    BY <2>1, <2>3, <2>4
  <2>6. FaultlessClient'
    <3>1. faults' = faults \/ faults' = faults \cup {"concat"}
      BY <2>1, <2>3, <2>4 DEF Errs, judgement
    <3> QED BY <1>3, <1>17, <3>1 DEF WindowInv, FaultlessClient
  <2>7. Aligned'
    <3>1. Follows(base, last, g)'
      BY <1>2, <1>3, <2>1, <2>2, <2>3, <2>5 DEF Follows
    <3> QED BY <3>1 DEF Aligned
  <2>8. Followed'
    BY <1>3, <1>12, <1>17, <2>7 DEF Followed
  <2> QED BY <1>10, <1>11, <2>6, <2>8 DEF WindowInv
<1> QED BY <1>9, <1>13, <1>14, <1>16, <1>17

LEMMA WindowStarts == WindowInit => WindowInv
<1> SUFFICES ASSUME WindowInit PROVE WindowInv
  OBVIOUS
<1>1. /\ ring = EmptyRing /\ offset = 0 /\ pending = 0 /\ window = EmptyWindow
      /\ toClient = <<>> /\ toServer = <<>> /\ sent = 0 /\ index = 0 /\ expects = 0
      /\ clientState = "play" /\ serverState = "play"
  BY DEF WindowInit
<1>2. EmptyRing \in [Slot -> Seens] /\ 0 \in Slot /\ Round(EmptyRing, 0, 0, 0, 0)
  BY RingEmpty
<1>3. /\ EmptyWindow \in Seq(Seens) /\ Len(EmptyWindow) = Capacity
      /\ Kept(EmptyWindow, 0, 0, 0)
  BY KeptEmpty
<1>4. <<>> \in Seq(ToClient) /\ <<>> \in Seq(ToServer) /\ Len(<<>>) = 0
  BY EmptySeq
<1>5. WindowTyped
  BY <1>1, <1>2, <1>3, <1>4 DEF WindowTyped
<1>6. Playing
  BY <1>1, <1>4 DEF Playing, Game
<1>7. Aligned
  <2>1. PICK h : /\ Leads(<<>>, h, 0, 0)
                 /\ h[0].front = 0 /\ h[0].told = 0 /\ h[0].index = 0
    BY LeadsNothing
  <2>2. Unread(<<>>, 0, 0)
    BY <1>4 DEF Unread
  <2>3. Follows(0, 0, h)
    BY <1>1, <1>2, <1>3, <1>4, <2>1, <2>2, Sizes DEF Follows
  <2> QED BY <2>3 DEF Aligned
<1>8. Followed
  BY <1>1, <1>7 DEF Followed, Entering
<1>9. FaultlessClient
  BY DEF WindowInit, FaultlessClient
<1> QED BY <1>5, <1>6, <1>8, <1>9 DEF WindowInv

LEMMA WindowSteps == WindowInv /\ [WindowNext]_windowVars => WindowInv'
<1> SUFFICES ASSUME WindowInv, [WindowNext]_windowVars PROVE WindowInv'
  OBVIOUS
<1>1. CASE ClientStep
  BY <1>1, PlayerChatStep, HideMessageStep, StartConfigurationStep, LoginStep, SignedChatStep,
     SignedCommandStep DEF ClientStep
<1>2. CASE ServerStep
  BY <1>2, BroadcastStep, SendHideMessageStep, SendStartConfigurationStep, SendLoginStep,
     ConfigurationAcknowledgedStep, ChatCommandStep, ChatSessionUpdateStep,
     MessageAcknowledgementStep, ChatMessageStep DEF ServerStep
<1>3. CASE UNCHANGED windowVars
  <2>1. /\ UNCHANGED <<ring, offset, pending, index, clientState, clientUp, enforced, window>>
        /\ UNCHANGED <<expects, serverState, verdict, faults, toClient, toServer, sent, astray>>
    BY <1>3 DEF windowVars, clientVars, peerVars, counters, options, judgement
  <2> QED BY <2>1 DEF WindowInv, WindowTyped, Playing, Leaving, Between, Entering, Fresh,
                      Aligned, Follows, Followed, FaultlessClient, Connected
<1> QED BY <1>1, <1>2, <1>3 DEF WindowNext

LEMMA WindowHolds == WindowSpec => []WindowInv
<1> QED BY WindowStarts, WindowSteps, PTL DEF WindowSpec

(***************************************************************************)
(* The windows of server/chat.js and client/chat.js never disagree: unwrap *)
(* refuses nothing of what getAcknowledgements says, and an index that is  *)
(* verified is the one that was signed, in every order of the packets that *)
(* cross, for every size of the ring and every report threshold; the only  *)
(* error that an honest client runs into is that of Buffer.concat.         *)
(***************************************************************************)
THEOREM ClientIsFaultless == WindowSpec => []FaultlessClient
<1>1. WindowInv => FaultlessClient
  BY DEF WindowInv
<1> QED BY <1>1, WindowHolds, PTL

(***************************************************************************)
(* When nothing is under way the end of the server's window is the ring of *)
(* the client, read from its offset on, and what is before that end is     *)
(* what the client has still to tell.                                      *)
(***************************************************************************)
THEOREM WindowsMeet == WindowSpec => []WindowsAgree
<1>1. WindowInv => WindowsAgree
  <2> SUFFICES ASSUME WindowInv, Connected, ~astray, toClient = <<>>, toServer = <<>>,
                      clientState = "play"
               PROVE  /\ Len(window) = Capacity + pending
                      /\ \A i \in Slot : window[pending + i + 1] = Rotated[i]
    BY DEF WindowsAgree
  <2>1. WindowTyped /\ window \in Seq(Seens) /\ pending \in Nat /\ sent \in Nat
    BY DEF WindowInv, WindowTyped
  <2>2. Playing
    BY DEF WindowInv, Leaving, Between, Entering
  <2>3. PICK base \in Nat, last \in Nat : \E h : Follows(base, last, h)
    BY <2>2 DEF WindowInv, Followed, Aligned
  <2>4. PICK h : Follows(base, last, h)
    BY <2>3
  <2>5. Len(toClient) = 0 /\ Len(toServer) = 0
    OBVIOUS
  <2>6. last = sent
    <3>1. last <= sent /\ \A n \in last + 1..sent : \E x \in 1..0 : toClient[x].signature = n
      BY <2>4, <2>5 DEF Follows, Unread
    <3>2. last + 1 > sent
      BY <2>1, <3>1
    <3> QED BY <2>1, <3>1, <3>2
  <2>7. PICK known : known = h[0].told
    OBVIOUS
  <2>8. /\ Kept(window, last, base, known) /\ Round(ring, offset, base, known, last)
        /\ h[0].front = last - Len(window) + Capacity /\ h[0].front = last - pending
    BY <2>4, <2>5, <2>6, <2>7 DEF Follows
  <2>9. Len(window) = Capacity + pending
    BY <2>1, <2>8, SeqFacts, Sizes
  <2>10. ASSUME NEW i \in Slot PROVE window[pending + i + 1] = Rotated[i]
    <3>1. Rotated[i] = LatestAt(base, known, last - Capacity + i + 1)
      BY <2>1, <2>8, RingRead DEF Round
    <3>2. pending + i + 1 \in 1..Len(window)
      BY <2>1, <2>9, Sizes DEF Slot
    <3>3. window[pending + i + 1] =
              LatestAt(base, known, last - Len(window) + (pending + i + 1))
      BY <2>8, <3>2 DEF Kept
    <3>4. last - Len(window) + (pending + i + 1) = last - Capacity + i + 1
      BY <2>1, <2>9, Sizes DEF Slot
    <3> QED BY <3>1, <3>3, <3>4
  <2> QED BY <2>9, <2>10
<1> QED BY <1>1, WindowHolds, PTL
=============================================================================
