--------------------------- MODULE ConnectProofs ----------------------------
(***************************************************************************)
(* The gate, the order of authentication and login, and the end of a ping, *)
(* for all options.  The gate is opened by whoever comes last; where a     *)
(* ping opens it early the client waits, and the ping of such a client has *)
(* no socket, so that nothing wakes it.                                    *)
(***************************************************************************)
EXTENDS Connect, TLAPS

(* A gate that lets one call through. *)
Exact(g) == g \in Gate /\ (g.started <=> g.connects = 1)

GateInv ==
    /\ Exact(gate)
    /\ asked => gate.requested \/ gate.started
    /\ auth = "done" =>
           ~gate.pending /\ (mode.autoConnect \/ gate.requested => gate.started)

(* The client of createClient has a socket or a timer behind the gate only. *)
Behind == conn["main"].link # "none" \/ conn["main"].timer => gate.started

(* The ping of autoVersion calls the gate, which connects the other client. *)
Detection ==
    /\ wait => mode.detect
    /\ mode.detect =>
           /\ conn["ping"].link = "none" /\ ~conn["ping"].timer
           /\ ping.maxTime = "unset" /\ ping.result # "resolved"

(* Before the authentication the gate is closed, or the client waits. *)
Early ==
    auth # "done" /\ ~(asked /\ mode.autoConnect) =>
        /\ login # "sent"
        /\ ~wait => ~gate.started /\ (mode.autoConnect \/ gate.pending)

IInv == TypeOK /\ GateInv /\ Behind /\ Detection /\ Early /\ PingEnds

LEMMA InitInv == Init => IInv
<1> SUFFICES ASSUME Init PROVE IInv
  OBVIOUS
<1>1. /\ mode.autoConnect \in BOOLEAN
  BY DEF Init, Mode
<1>2. gate \in Gate
  BY <1>1 DEF Init, Gate
<1>3. conn \in [Client -> Connection]
  BY DEF Init, Connection
<1>4. ping \in Ping
  BY DEF Init, Ping, Timer
<1>5. TypeOK
  BY <1>2, <1>3, <1>4 DEF Init, TypeOK
<1>6. GateInv
  BY <1>2 DEF Init, GateInv, Exact
<1>7. Behind /\ Detection /\ PingEnds
  BY DEF Init, Behind, Detection, PingEnds, Settled, Client
<1>8. Early
  BY <1>1 DEF Init, Early
<1> QED BY <1>5, <1>6, <1>7, <1>8 DEF IInv

-----------------------------------------------------------------------------
(* The parts *)

LEMMA StartedExact ==
    ASSUME NEW g, Exact(g)
    PROVE  /\ Exact(Started(g))
           /\ Started(g).pending <=> g.pending
           /\ g.started => Started(g) = g
           /\ g.requested => Started(g).requested
           /\ Started(g).started <=> g.started \/ ~g.pending
           /\ Started(g).requested \/ Started(g).started
<1>1. CASE g.started
  BY <1>1 DEF Exact, Started
<1>2. CASE ~g.started /\ g.pending
  <2> DEFINE h == [g EXCEPT !.requested = TRUE]
  <2>1. Exact(h) /\ h.pending /\ h.requested /\ ~h.started
    BY <1>2 DEF Exact, Gate
  <2>2. Started(g) = h
    BY <1>2 DEF Started
  <2> QED BY <1>2, <2>1, <2>2
<1>3. CASE ~g.started /\ ~g.pending
  <2> DEFINE h == [g EXCEPT !.requested = TRUE, !.started = TRUE, !.connects = 1]
  <2>1. Exact(h) /\ ~h.pending /\ h.requested /\ h.started
    <3>1. g \in Gate /\ 1 \in 0..1
      BY DEF Exact
    <3>2. h \in Gate
      BY <3>1 DEF Gate
    <3>3. h.started = TRUE /\ h.requested = TRUE /\ h.connects = 1
      BY <3>1 DEF Gate
    <3>4. h.pending = g.pending
      BY <3>1 DEF Gate
    <3> QED BY <1>3, <3>2, <3>3, <3>4 DEF Exact
  <2>2. Started(g) = h
    <3>1. g.connects + 1 = 1
      BY <1>3 DEF Exact, Gate
    <3>2. Started(g) = [g EXCEPT !.requested = TRUE, !.started = TRUE,
                                 !.connects = g.connects + 1]
      BY <1>3 DEF Started
    <3> QED BY <3>1, <3>2
  <2> QED BY <1>3, <2>1, <2>2
<1> QED BY <1>1, <1>2, <1>3

LEMMA GatedExact ==
    ASSUME NEW g, Exact(g)
    PROVE  /\ Exact(Gated(g))
           /\ ~Gated(g).pending
           /\ g.requested => Gated(g).requested
           /\ g.started => Gated(g).started
           /\ mode.autoConnect \/ Gated(g).requested => Gated(g).started
<1> DEFINE ready == [g EXCEPT !.pending = FALSE]
<1>1. /\ Exact(ready) /\ ~ready.pending /\ ready.requested = g.requested
      /\ ready.started = g.started
  BY DEF Exact, Gate
<1> HIDE DEF ready
<1>2. CASE mode.autoConnect \/ g.requested
  <2>1. Gated(g) = Started(ready)
    BY <1>2 DEF Gated, ready
  <2>2. /\ Exact(Started(ready)) /\ ~Started(ready).pending /\ Started(ready).started
        /\ ready.requested => Started(ready).requested
    BY <1>1, StartedExact
  <2> QED BY <1>1, <2>1, <2>2
<1>3. CASE ~(mode.autoConnect \/ g.requested)
  <2>1. Gated(g) = ready
    BY <1>3 DEF Gated, ready
  <2> QED BY <1>1, <1>3, <2>1
<1> QED BY <1>2, <1>3
(* What becomes of a connection. *)
LEMMA Connections ==
    ASSUME NEW k \in Connection
    PROVE  /\ Dialed(k) \in Connection /\ Dialed(k).over = k.over
           /\ WithSocket(k) \in Connection /\ WithSocket(k).over = k.over
           /\ WithSocket(k).link = "connecting" /\ WithSocket(k).timer = k.timer
           /\ Ended(k) \in Connection /\ Ended(k).over /\ Ended(k).link = k.link
           /\ Ended(k).timer <=> HasSocket(k)
           /\ Lost(k) \in Connection /\ Lost(k).link = "dead" /\ ~Lost(k).timer
<1>1. /\ WithSocket(k) \in Connection /\ WithSocket(k).over = k.over
      /\ WithSocket(k).link = "connecting" /\ WithSocket(k).timer = k.timer
  BY DEF WithSocket, Connection
<1>2. Dialed(k) \in Connection /\ Dialed(k).over = k.over
  BY <1>1 DEF Dialed, Connection
<1>3. /\ Ended(k) \in Connection /\ Ended(k).over /\ Ended(k).link = k.link
      /\ Ended(k).timer <=> HasSocket(k)
  BY DEF Ended, Connection, HasSocket
<1>4. Lost(k) \in Connection /\ Lost(k).link = "dead" /\ ~Lost(k).timer
  BY DEF Lost, Connection
<1> QED BY <1>1, <1>2, <1>3, <1>4

(* The gate becomes one that is open if it was. *)
LEMMA GateStep ==
    ASSUME IInv, NEW g, Exact(g), gate.started => g.started, GateBecomes(g)
    PROVE  /\ gate' = g
           /\ conn' \in [Client -> Connection]
           /\ conn'["ping"] = conn["ping"]
           /\ Behind'
<1>1. conn \in [Client -> Connection] /\ "main" \in Client
  BY DEF IInv, TypeOK, Client
<1>2. CASE g.connects > gate.connects
  <2>1. g.started
    BY <1>2 DEF Exact, Gate, IInv, GateInv
  <2>2. conn' = [conn EXCEPT !["main"] = Dialed(conn["main"])] /\ gate' = g
    BY <1>2 DEF GateBecomes
  <2>3. Dialed(conn["main"]) \in Connection
    BY <1>1, Connections
  <2> QED BY <1>1, <2>1, <2>2, <2>3 DEF Behind
<1>3. CASE ~(g.connects > gate.connects)
  BY <1>1, <1>3 DEF GateBecomes, IInv, Behind
<1> QED BY <1>2, <1>3

-----------------------------------------------------------------------------
(* The gate *)

(***************************************************************************)
(* A step of the gate leaves the ping alone or begins it.                  *)
(***************************************************************************)
LEMMA PingUntouched ==
    ASSUME IInv, conn'["ping"] = conn["ping"], ping' = ping \/ ping' = PingBegun
    PROVE  /\ ping' \in Ping /\ PingEnds'
           /\ ping'.maxTime = ping.maxTime
           /\ ping'.result = ping.result \/ ping'.result = "pending"
BY DEF IInv, TypeOK, PingEnds, Settled, PingBegun, Ping, Timer

(* onReady, with what became of the gate. *)
LEMMA OnReadyInv ==
    ASSUME IInv, NEW g, Exact(g), gate.started => g.started, OnReady(g)
    PROVE  /\ \/ ~mode.detect /\ gate' = g /\ wait' = wait
              \/ mode.detect /\ gate' = Gated(g) /\ wait'
           /\ wait' \in BOOLEAN
           /\ conn' \in [Client -> Connection] /\ conn'["ping"] = conn["ping"]
           /\ Behind'
           /\ ping' = ping \/ ping' = PingBegun
<1>1. CASE mode.detect
  <2>1. Exact(Gated(g)) /\ (g.started => Gated(g).started)
    BY GatedExact
  <2>2. GateBecomes(Gated(g)) /\ wait' = TRUE /\ ping' = PingBegun
    BY <1>1 DEF OnReady
  <2>3. /\ gate' = Gated(g) /\ Behind'
        /\ conn' \in [Client -> Connection] /\ conn'["ping"] = conn["ping"]
    BY <2>1, <2>2, GateStep
  <2> QED BY <1>1, <2>2, <2>3
<1>2. CASE ~mode.detect
  <2>1. GateBecomes(g) /\ UNCHANGED <<wait, ping>>
    BY <1>2 DEF OnReady
  <2>2. /\ gate' = g /\ Behind'
        /\ conn' \in [Client -> Connection] /\ conn'["ping"] = conn["ping"]
    BY <2>1, GateStep
  <2> QED BY <1>2, <2>1, <2>2 DEF IInv, TypeOK
<1> QED BY <1>1, <1>2

(***************************************************************************)
(* What the steps of the gate have in common: the ping is left alone or    *)
(* begins, nothing is written, and the gate and the waiting fit together.  *)
(***************************************************************************)
LEMMA GateSteps ==
    ASSUME IInv, UNCHANGED <<mode, login>>,
           auth' \in {"none", "running", "done", "failed"}, asked' \in BOOLEAN,
           conn' \in [Client -> Connection], conn'["ping"] = conn["ping"], Behind',
           ping' = ping \/ ping' = PingBegun,
           wait' = wait \/ (wait' = TRUE /\ mode.detect),
           GateInv',
           auth' # "done" => auth # "done",
           asked => asked',
           auth' # "done" /\ ~(asked' /\ mode.autoConnect) /\ ~wait' =>
               ~gate'.started /\ (mode.autoConnect \/ gate'.pending)
    PROVE  IInv'
<1>1. /\ ping' \in Ping /\ PingEnds'
      /\ ping'.maxTime = ping.maxTime
      /\ ping'.result = ping.result \/ ping'.result = "pending"
  BY PingUntouched
<1>2. TypeOK'
  BY <1>1 DEF IInv, TypeOK, GateInv, Exact
<1>3. Detection'
  BY <1>1 DEF IInv, Detection
<1>4. Early'
  BY DEF IInv, Early
<1> QED BY <1>1, <1>2, <1>3, <1>4 DEF IInv

LEMMA StartInv == IInv /\ StartConnection => IInv'
<1> SUFFICES ASSUME IInv, StartConnection PROVE IInv'
  OBVIOUS
<1> DEFINE g == Started(gate)
<1>1. /\ Exact(g) /\ (g.pending <=> gate.pending) /\ (gate.started => g = gate)
      /\ (gate.requested => g.requested) /\ (g.started <=> gate.started \/ ~gate.pending)
      /\ (g.requested \/ g.started)
  BY StartedExact DEF IInv, GateInv
<1>2. GateBecomes(g) /\ asked' = TRUE /\ UNCHANGED <<mode, auth, wait, login, ping>>
  BY DEF StartConnection
<1> HIDE DEF g
<1>3. /\ gate' = g /\ Behind'
      /\ conn' \in [Client -> Connection] /\ conn'["ping"] = conn["ping"]
  BY <1>1, <1>2, GateStep
<1>4. GateInv'
  BY <1>1, <1>2, <1>3 DEF IInv, GateInv
<1>5. auth # "done" /\ ~mode.autoConnect /\ ~wait => ~g.started /\ g.pending
  BY <1>1 DEF IInv, Early
<1>6. auth \in {"none", "running", "done", "failed"}
  BY DEF IInv, TypeOK
<1> QED BY <1>2, <1>3, <1>4, <1>5, <1>6, GateSteps
(* createClient and the two ends of the authentication *)

LEMMA CreateInv == IInv /\ CreateClient => IInv'
<1> SUFFICES ASSUME IInv, CreateClient PROVE IInv'
  OBVIOUS
<1>1. auth = "none" /\ UNCHANGED <<mode, asked, login>> /\ asked \in BOOLEAN
  BY DEF CreateClient, IInv, TypeOK
<1>2. Exact(gate) /\ Exact(Gated(gate)) /\ (gate.started => Gated(gate).started)
      /\ (gate.requested => Gated(gate).requested) /\ ~Gated(gate).pending
      /\ (mode.autoConnect \/ Gated(gate).requested => Gated(gate).started)
  BY GatedExact DEF IInv, GateInv
<1>3. CASE mode.auth = "offline"
  <2>1. auth' = "done" /\ OnReady(Gated(gate))
    BY <1>3 DEF CreateClient
  <2>2. /\ \/ ~mode.detect /\ gate' = Gated(gate) /\ wait' = wait
           \/ mode.detect /\ gate' = Gated(Gated(gate)) /\ wait'
        /\ wait' \in BOOLEAN
        /\ conn' \in [Client -> Connection] /\ conn'["ping"] = conn["ping"]
        /\ Behind'
        /\ ping' = ping \/ ping' = PingBegun
    BY <1>2, <2>1, OnReadyInv
  <2>3. /\ Exact(gate') /\ (gate.requested => gate'.requested)
        /\ (gate.started => gate'.started) /\ ~gate'.pending
        /\ (mode.autoConnect \/ gate'.requested => gate'.started)
    BY <1>2, <2>2, GatedExact
  <2>4. GateInv'
    BY <1>1, <2>3 DEF IInv, GateInv
  <2> QED BY <1>1, <2>1, <2>2, <2>4, GateSteps
<1>4. CASE mode.auth = "async"
  <2>1. auth' = "running" /\ OnReady(gate)
    BY <1>4 DEF CreateClient
  <2>2. /\ \/ ~mode.detect /\ gate' = gate /\ wait' = wait
           \/ mode.detect /\ gate' = Gated(gate) /\ wait'
        /\ wait' \in BOOLEAN
        /\ conn' \in [Client -> Connection] /\ conn'["ping"] = conn["ping"]
        /\ Behind'
        /\ ping' = ping \/ ping' = PingBegun
    BY <1>2, <2>1, OnReadyInv
  <2>3. GateInv'
    BY <1>1, <1>2, <2>1, <2>2 DEF IInv, GateInv
  <2>4. ~(asked /\ mode.autoConnect) /\ ~wait' =>
            ~gate'.started /\ (mode.autoConnect \/ gate'.pending)
    BY <1>1, <2>2 DEF IInv, Early
  <2> QED BY <1>1, <2>1, <2>2, <2>3, <2>4, GateSteps
<1>5. CASE mode.auth = "realms"
  <2>1. auth' = "running" /\ UNCHANGED <<gate, conn, wait, ping>>
    BY <1>5 DEF CreateClient
  <2>2. GateInv' /\ Behind'
    BY <1>1, <2>1 DEF IInv, GateInv, Behind
  <2>3. ~(asked /\ mode.autoConnect) /\ ~wait =>
            ~gate.started /\ (mode.autoConnect \/ gate.pending)
    BY <1>1 DEF IInv, Early
  <2>4. conn \in [Client -> Connection]
    BY DEF IInv, TypeOK
  <2> QED BY <1>1, <2>1, <2>2, <2>3, <2>4, GateSteps
<1> QED BY <1>3, <1>4, <1>5 DEF CreateClient

LEMMA AuthDoneInv == IInv /\ AuthDone => IInv'
<1> SUFFICES ASSUME IInv, AuthDone PROVE IInv'
  OBVIOUS
<1>1. auth' = "done" /\ auth = "running" /\ UNCHANGED <<mode, asked, login>>
      /\ asked \in BOOLEAN
  BY DEF AuthDone, IInv, TypeOK
<1>2. Exact(gate) /\ Exact(Gated(gate)) /\ (gate.started => Gated(gate).started)
  BY GatedExact DEF IInv, GateInv
<1>3. /\ gate' = Gated(gate) \/ gate' = Gated(Gated(gate))
      /\ wait' = wait \/ (wait' = TRUE /\ mode.detect)
      /\ conn' \in [Client -> Connection] /\ conn'["ping"] = conn["ping"]
      /\ Behind'
      /\ ping' = ping \/ ping' = PingBegun
  <2>1. CASE mode.auth = "realms"
    <3>1. OnReady(Gated(gate))
      BY <2>1 DEF AuthDone
    <3> QED BY <1>2, <3>1, OnReadyInv
  <2>2. CASE mode.auth # "realms"
    <3>1. GateBecomes(Gated(gate)) /\ UNCHANGED <<wait, ping>>
      BY <2>2 DEF AuthDone
    <3> QED BY <1>2, <3>1, GateStep
  <2> QED BY <2>1, <2>2
<1>4. /\ Exact(gate') /\ (gate.requested => gate'.requested)
      /\ (gate.started => gate'.started) /\ ~gate'.pending
      /\ (mode.autoConnect \/ gate'.requested => gate'.started)
  BY <1>2, <1>3, GatedExact
<1>5. GateInv'
  BY <1>1, <1>4 DEF IInv, GateInv
<1> QED BY <1>1, <1>3, <1>5, GateSteps

LEMMA AuthFailedInv == IInv /\ AuthFailed => IInv'
<1> SUFFICES ASSUME IInv, AuthFailed PROVE IInv'
  OBVIOUS
<1>1. auth' = "failed" /\ auth = "running" /\ UNCHANGED <<mode, asked, login>>
      /\ asked \in BOOLEAN /\ conn \in [Client -> Connection]
  BY DEF AuthFailed, IInv, TypeOK
<1>2. Exact(gate) /\ Exact(Gated(gate)) /\ (gate.started => Gated(gate).started)
      /\ (gate.requested => Gated(gate).requested)
  BY GatedExact DEF IInv, GateInv
<1>3. /\ \/ gate' = gate /\ wait' = wait
         \/ mode.detect /\ gate' = Gated(gate) /\ wait' = TRUE
      /\ conn' \in [Client -> Connection] /\ conn'["ping"] = conn["ping"]
      /\ Behind'
      /\ ping' = ping \/ ping' = PingBegun
  <2>1. CASE mode.auth = "realms"
    <3>1. OnReady(gate)
      BY <2>1 DEF AuthFailed
    <3>2. mode.detect => wait' = TRUE
      BY <3>1 DEF OnReady
    <3> QED BY <1>2, <3>1, <3>2, OnReadyInv
  <2>2. CASE mode.auth # "realms"
    <3>1. UNCHANGED <<gate, conn, wait, ping>>
      BY <2>2 DEF AuthFailed
    <3> QED BY <1>1, <3>1 DEF IInv, Behind
  <2> QED BY <2>1, <2>2
<1>4. GateInv'
  BY <1>1, <1>2, <1>3 DEF IInv, GateInv
<1>5. ~(asked /\ mode.autoConnect) /\ ~wait' =>
          ~gate'.started /\ (mode.autoConnect \/ gate'.pending)
  BY <1>1, <1>3 DEF IInv, Early
<1> QED BY <1>1, <1>3, <1>4, <1>5, GateSteps
-----------------------------------------------------------------------------
(* The connections and the ping *)

(***************************************************************************)
(* Behind the gate: the login is written by a client that does not wait,   *)
(* over the socket that the gate let it have.                              *)
(***************************************************************************)
LEMMA OtherSteps ==
    ASSUME IInv, UNCHANGED <<mode, gate, auth, asked, wait>>,
           conn' \in [Client -> Connection], ping' \in Ping,
           login' \in {"no", "waiting", "sent", "dropped"},
           login' = "sent" => login = "sent" \/ (~wait /\ gate.started),
           Behind', PingEnds',
           mode.detect => /\ conn'["ping"].link = "none" /\ ~conn'["ping"].timer
                          /\ ping'.maxTime = "unset" /\ ping'.result # "resolved"
    PROVE  IInv'
<1>1. TypeOK' /\ GateInv'
  BY DEF IInv, TypeOK, GateInv
<1>2. Detection'
  BY DEF IInv, Detection
<1>3. Early'
  BY DEF IInv, Early
<1> QED BY <1>1, <1>2, <1>3 DEF IInv

LEMMA PingParts ==
    ASSUME NEW p \in Ping, NEW result \in {"resolved", "rejected"}
    PROVE  /\ Settle(p, result) \in Ping /\ Cleared(p.closeTimer) \in Timer \ {"set"}
           /\ Cleared(p.maxTime) \in Timer
           /\ Settle(p, result).result \in {p.result, result}
           /\ Settle(p, result).closeTimer = p.closeTimer
           /\ Settle(p, result).maxTime = p.maxTime
           /\ Settle(p, result).gotStatus = p.gotStatus
           /\ PingError(p) \in Ping /\ PingError(p).closeTimer # "set"
           /\ PingError(p).maxTime = p.maxTime /\ PingError(p).gotStatus = p.gotStatus
           /\ PingError(p).result \in {p.result, "rejected"}
           /\ PingEnd(p) \in Ping
           /\ PingEnd(p) = p \/ PingEnd(p).closeTimer # "set"
           /\ PingEnd(p).maxTime = p.maxTime
           /\ PingEnd(p).result \in {p.result, "rejected"}
<1>1. /\ Cleared(p.closeTimer) \in Timer \ {"set"} /\ Cleared(p.maxTime) \in Timer
  BY DEF Cleared, Ping, Timer
<1>2. \A r \in {"resolved", "rejected"} :
          /\ Settle(p, r) \in Ping
          /\ Settle(p, r).result \in {p.result, r}
          /\ Settle(p, r).closeTimer = p.closeTimer
          /\ Settle(p, r).maxTime = p.maxTime
          /\ Settle(p, r).gotStatus = p.gotStatus
  BY DEF Settle, Ping
<1> DEFINE q == Settle(p, "rejected")
           e == [q EXCEPT !.closeTimer = Cleared(p.closeTimer)]
<1>3. q \in Ping /\ q.result \in {p.result, "rejected"} /\ q.closeTimer = p.closeTimer
      /\ q.maxTime = p.maxTime /\ q.gotStatus = p.gotStatus
  BY <1>2
<1>4. PingError(p) = e
  BY <1>3 DEF PingError
<1>5. PingEnd(p) = p \/ PingEnd(p) = e
  BY <1>3 DEF PingEnd
<1> HIDE DEF q
<1>6. /\ e \in Ping /\ e.closeTimer # "set" /\ e.maxTime = p.maxTime
      /\ e.gotStatus = p.gotStatus /\ e.result \in {p.result, "rejected"}
  BY <1>1, <1>3 DEF Ping
<1> HIDE DEF e
<1> QED BY <1>1, <1>2, <1>4, <1>5, <1>6

(* One connection changes. *)
LEMMA OneConnection ==
    ASSUME IInv, NEW c \in Client, NEW k \in Connection, conn' = [conn EXCEPT ![c] = k]
    PROVE  /\ conn' \in [Client -> Connection]
           /\ c = "main" => conn'["main"] = k /\ conn'["ping"] = conn["ping"]
           /\ c = "ping" => conn'["ping"] = k /\ conn'["main"] = conn["main"]
           /\ conn[c] \in Connection
BY DEF IInv, TypeOK, Client

(* A step of the client that leaves the ping alone. *)
LEMMA MainStep ==
    ASSUME IInv, NEW k \in Connection, conn' = [conn EXCEPT !["main"] = k],
           UNCHANGED <<mode, gate, auth, asked, wait, ping>>,
           login' \in {"no", "waiting", "sent", "dropped"},
           login' = "sent" => login = "sent" \/ (~wait /\ gate.started),
           k.link # "none" \/ k.timer => gate.started
    PROVE  IInv'
<1>1. /\ conn' \in [Client -> Connection]
      /\ conn'["main"] = k /\ conn'["ping"] = conn["ping"]
  BY OneConnection DEF Client
<1>2. Behind'
  BY <1>1 DEF Behind
<1>3. ping' \in Ping /\ PingEnds'
  BY <1>1 DEF IInv, TypeOK, PingEnds, Settled
<1>4. mode.detect => /\ conn'["ping"].link = "none" /\ ~conn'["ping"].timer
                     /\ ping'.maxTime = "unset" /\ ping'.result # "resolved"
  BY <1>1 DEF IInv, Detection
<1> QED BY <1>1, <1>2, <1>3, <1>4, OtherSteps

(* A step of the ping and its connection. *)
LEMMA PingStep ==
    ASSUME IInv, NEW k \in Connection, conn' = [conn EXCEPT !["ping"] = k], ping' \in Ping,
           UNCHANGED <<mode, gate, auth, asked, wait, login>>,
           ping'.result \in {"resolved", "rejected"} =>
               (k.over \/ k.link = "dead") /\ ping'.closeTimer # "set",
           mode.detect => /\ k.link = "none" /\ ~k.timer
                          /\ ping'.maxTime = "unset" /\ ping'.result # "resolved"
    PROVE  IInv'
<1>1. /\ conn' \in [Client -> Connection]
      /\ conn'["ping"] = k /\ conn'["main"] = conn["main"]
  BY OneConnection DEF Client
<1>2. Behind'
  BY <1>1 DEF IInv, Behind
<1>3. PingEnds'
  BY <1>1 DEF PingEnds, Settled
<1>4. login \in {"no", "waiting", "sent", "dropped"}
  BY DEF IInv, TypeOK
<1> QED BY <1>1, <1>2, <1>3, <1>4, OtherSteps
(* The steps of one connection, that of the client or of the ping. *)

LEMMA MainInv ==
    ASSUME IInv,
           \/ End \/ Resolved("main") \/ Connected("main") \/ SocketEnd("main")
           \/ SocketError("main") \/ CloseTimeout("main")
    PROVE  IInv'
<1> DEFINE k == conn["main"]
<1>1. /\ k \in Connection /\ conn \in [Client -> Connection] /\ "main" \in Client
      /\ login \in {"no", "waiting", "sent", "dropped"}
      /\ k.link # "none" \/ k.timer => gate.started
  BY DEF IInv, TypeOK, Client, Behind
<1> HIDE DEF k
<1>2. UNCHANGED <<mode, gate, auth, asked, wait, ping>>
  BY DEF End, Resolved, Connected, SocketEnd, SocketError, CloseTimeout
<1>3. CASE End
  <2>1. conn' = [conn EXCEPT !["main"] = Ended(k)] /\ UNCHANGED login
    BY <1>3 DEF End, k
  <2>2. Ended(k).link # "none" \/ Ended(k).timer => gate.started
    BY <1>1, Connections DEF HasSocket
  <2> QED BY <1>1, <1>2, <2>1, <2>2, Connections, MainStep
<1>4. CASE Resolved("main")
  <2>1. conn' = [conn EXCEPT !["main"] = WithSocket(k)] /\ UNCHANGED login
        /\ k.link = "resolving"
    BY <1>4 DEF Resolved, k
  <2> QED BY <1>1, <1>2, <2>1, Connections, MainStep
<1>5. CASE Connected("main")
  <2> DEFINE d == [k EXCEPT !.link = "open"]
  <2>1. conn' = [conn EXCEPT !["main"] = d] /\ k.link = "connecting"
    BY <1>1, <1>5 DEF Connected, k
  <2>2. d \in Connection
    BY <1>1 DEF Connection
  <2>3. login' = login \/ (wait /\ login' = "waiting")
        \/ (~wait /\ login' \in {"sent", "dropped"})
    BY <1>5 DEF Connected, LoginWritten
  <2> QED BY <1>1, <1>2, <2>1, <2>2, <2>3, MainStep
<1>6. CASE SocketEnd("main") \/ SocketError("main") \/ CloseTimeout("main")
  <2>1. conn' = [conn EXCEPT !["main"] = Lost(k)] /\ UNCHANGED login
    BY <1>6 DEF SocketEnd, SocketError, CloseTimeout, k
  <2>2. k.link # "none" \/ k.timer
    BY <1>6 DEF SocketEnd, SocketError, CloseTimeout, Open, k
  <2> QED BY <1>1, <1>2, <2>1, <2>2, Connections, MainStep
<1> QED BY <1>3, <1>4, <1>5, <1>6

LEMMA PingInv ==
    ASSUME IInv,
           \/ PingCall \/ ServerInfo \/ Pong \/ NoPongTimeout \/ PingTimeout \/ AutoVersion
           \/ Resolved("ping") \/ Connected("ping") \/ SocketEnd("ping")
           \/ SocketError("ping") \/ CloseTimeout("ping")
    PROVE  IInv'
<1> DEFINE k == conn["ping"]
<1>1. /\ k \in Connection /\ conn \in [Client -> Connection] /\ "ping" \in Client
      /\ ping \in Ping /\ mode \in Mode /\ conn = [conn EXCEPT !["ping"] = k]
  BY DEF IInv, TypeOK, Client
<1>2. /\ Settled => (k.over \/ k.link = "dead") /\ ping.closeTimer # "set"
      /\ mode.detect => /\ k.link = "none" /\ ~k.timer
                        /\ ping.maxTime = "unset" /\ ping.result # "resolved"
      /\ wait => mode.detect
  BY DEF IInv, PingEnds, Detection
<1> HIDE DEF k
<1>3. CASE AutoVersion
  <2>1. /\ ping' = [ping EXCEPT !.called = TRUE]
        /\ UNCHANGED <<mode, gate, auth, asked, conn, wait, login>>
    BY <1>2, <1>3 DEF AutoVersion
  <2>2. /\ ping' \in Ping /\ ping'.result = ping.result /\ ping'.maxTime = ping.maxTime
        /\ ping'.closeTimer = ping.closeTimer
    BY <1>1, <2>1 DEF Ping
  <2> QED BY <1>1, <1>2, <2>1, <2>2, PingStep DEF Settled
<1>4. UNCHANGED <<mode, gate, auth, asked, wait, login>> \/ AutoVersion
  BY DEF PingCall, ServerInfo, Pong, NoPongTimeout, PingTimeout, Resolved, Connected,
         SocketEnd, SocketError, CloseTimeout
<1>5. CASE PingCall
  <2>1. ping' = PingBegun /\ conn' = [conn EXCEPT !["ping"] = Dialed(k)] /\ ~mode.detect
    BY <1>1, <1>5 DEF PingCall, Mode, k
  <2>2. ping' \in Ping /\ ping'.result = "pending"
    BY <1>1, <2>1 DEF PingBegun, Ping, Timer
  <2> QED BY <1>1, <1>4, <1>5, <2>1, <2>2, Connections, PingStep DEF PingCall
<1>6. CASE ServerInfo
  <2> DEFINE p == [ping EXCEPT !.gotStatus = TRUE]
  <2>1. k.link = "open" /\ ~mode.detect
    BY <1>2, <1>6 DEF ServerInfo, k
  <2>2. p \in Ping /\ p.result = ping.result
    BY <1>1 DEF Ping
  <2>3. CASE ping' = PingError(p) /\ EndPing
    <3>1. conn' = [conn EXCEPT !["ping"] = Ended(k)]
      BY <2>3 DEF EndPing, k
    <3>2. ping' \in Ping /\ ping'.closeTimer # "set"
      BY <2>2, <2>3, PingParts
    <3> QED BY <1>1, <1>4, <1>6, <2>1, <3>1, <3>2, Connections, PingStep DEF ServerInfo
  <2>4. CASE ping' = [ping EXCEPT !.gotStatus = TRUE, !.maxTime = "set"] /\ UNCHANGED conn
    <3>1. ping' \in Ping /\ ping'.result = ping.result /\ ping'.closeTimer = ping.closeTimer
      BY <1>1, <2>4 DEF Ping, Timer
    <3> QED BY <1>1, <1>2, <1>6, <2>1, <2>4, <3>1, PingStep DEF ServerInfo, Settled
  <2> QED BY <1>6, <2>3, <2>4 DEF ServerInfo
<1>7. CASE Pong \/ NoPongTimeout \/ PingTimeout
  <2>1. conn' = [conn EXCEPT !["ping"] = Ended(k)]
    BY <1>7 DEF Pong, NoPongTimeout, PingTimeout, EndPing, k
  <2>2. /\ Ended(k) \in Connection /\ Ended(k).over /\ Ended(k).link = k.link
        /\ k.link = "none" => ~Ended(k).timer
    BY <1>1, Connections DEF HasSocket
  <2>5. UNCHANGED <<mode, gate, auth, asked, wait, login>>
    BY <1>7 DEF Pong, NoPongTimeout, PingTimeout
  <2>3. CASE PingTimeout
    <3> DEFINE p == Settle(ping, "rejected")
    <3>1. p \in Ping /\ p.result \in {ping.result, "rejected"} /\ p.maxTime = ping.maxTime
      BY <1>1, PingParts
    <3>2. ping' = [p EXCEPT !.closeTimer = "fired"]
      BY <2>3 DEF PingTimeout
    <3> HIDE DEF p
    <3>3. /\ ping' \in Ping /\ ping'.closeTimer # "set" /\ ping'.maxTime = ping.maxTime
          /\ ping'.result \in {ping.result, "rejected"}
      BY <3>1, <3>2 DEF Ping, Timer
    <3>4. mode.detect => /\ Ended(k).link = "none" /\ ~Ended(k).timer
                         /\ ping'.maxTime = "unset" /\ ping'.result # "resolved"
      BY <1>2, <2>2, <3>3
    <3> QED BY <2>1, <2>2, <2>5, <3>3, <3>4, PingStep
  <2>4. CASE Pong \/ NoPongTimeout
    <3> DEFINE p == Settle(ping, "resolved")
               timer == Cleared(ping.closeTimer)
    <3>1. p \in Ping /\ p.closeTimer = ping.closeTimer /\ p.maxTime = ping.maxTime
      BY <1>1, PingParts
    <3>2. timer \in Timer /\ timer # "set"
      BY <1>1, PingParts
    <3>3. PICK late \in Timer : ping' = [p EXCEPT !.closeTimer = timer, !.maxTime = late]
      <4>1. Cleared(ping.maxTime) \in Timer /\ "fired" \in Timer
        BY <1>1, PingParts DEF Timer
      <4>2. CASE Pong
        BY <3>1, <4>1, <4>2 DEF Pong
      <4>3. CASE NoPongTimeout
        BY <3>1, <4>1, <4>3 DEF NoPongTimeout
      <4> QED BY <2>4, <4>2, <4>3
    <3> HIDE DEF p, timer
    <3>4. ping' \in Ping /\ ping'.closeTimer # "set"
      BY <3>1, <3>2, <3>3 DEF Ping
    <3>5. ~mode.detect
      BY <1>2, <2>4 DEF Pong, NoPongTimeout, k
    <3> QED BY <2>1, <2>2, <2>5, <3>4, <3>5, PingStep
  <2> QED BY <1>7, <2>3, <2>4
<1>8. CASE Resolved("ping") \/ Connected("ping")
  <2>1. PICK d \in Connection : conn' = [conn EXCEPT !["ping"] = d] /\ d.over = k.over
    <3>1. CASE Resolved("ping")
      <4>1. WithSocket(k) \in Connection /\ WithSocket(k).over = k.over
        BY <1>1, Connections
      <4>2. conn' = [conn EXCEPT !["ping"] = WithSocket(k)]
        BY <3>1 DEF Resolved, k
      <4> QED BY <4>1, <4>2
    <3>2. CASE Connected("ping")
      <4>1. [k EXCEPT !.link = "open"] \in Connection
            /\ [k EXCEPT !.link = "open"].over = k.over
        BY <1>1 DEF Connection
      <4>2. conn' = [conn EXCEPT !["ping"] = [k EXCEPT !.link = "open"]]
        BY <1>1, <3>2 DEF Connected, k
      <4> QED BY <4>1, <4>2
    <3> QED BY <1>8, <3>1, <3>2
  <2>2. k.link \in {"resolving", "connecting"} /\ ~mode.detect
    BY <1>2, <1>8 DEF Resolved, Connected, k
  <2>3. UNCHANGED <<mode, gate, auth, asked, wait, login, ping>>
    BY <1>8 DEF Resolved, Connected
  <2> QED BY <1>1, <1>2, <2>1, <2>2, <2>3, PingStep DEF Settled
<1>9. CASE SocketEnd("ping") \/ SocketError("ping") \/ CloseTimeout("ping")
  <2>1. ~mode.detect
    BY <1>2, <1>9 DEF SocketEnd, SocketError, CloseTimeout, Open, k
  <2>2. UNCHANGED <<mode, gate, auth, asked, wait, login>>
    BY <1>9 DEF SocketEnd, SocketError, CloseTimeout
  <2>3. PICK d \in Connection : conn' = [conn EXCEPT !["ping"] = d] /\ d.link = "dead"
    BY <1>1, <1>9, Connections DEF SocketEnd, SocketError, CloseTimeout, k
  <2>4. ping' \in {ping, PingEnd(ping), PingEnd(PingError(ping))}
    BY <1>9 DEF SocketEnd, SocketError, CloseTimeout
  <2>5. ping' \in Ping /\ (ping' = ping \/ ping'.closeTimer # "set")
    BY <1>1, <2>4, PingParts
  <2> QED BY <1>1, <1>2, <2>1, <2>2, <2>3, <2>5, PingStep DEF Settled
<1> QED BY <1>3, <1>5, <1>6, <1>7, <1>8, <1>9

LEMMA NextInv == IInv /\ [Next]_vars => IInv'
<1> SUFFICES ASSUME IInv, [Next]_vars PROVE IInv'
  OBVIOUS
<1>1. CASE CreateClient \/ AuthDone \/ AuthFailed \/ StartConnection
  BY <1>1, CreateInv, AuthDoneInv, AuthFailedInv, StartInv
<1>2. CASE \/ End \/ PingCall \/ ServerInfo \/ Pong \/ NoPongTimeout \/ PingTimeout
           \/ AutoVersion
           \/ \E c \in Client :
                 \/ Resolved(c) \/ Connected(c) \/ SocketEnd(c) \/ SocketError(c)
                 \/ CloseTimeout(c)
  BY <1>2, MainInv, PingInv DEF Client
<1>3. CASE UNCHANGED vars
  BY <1>3 DEF vars, IInv, TypeOK, GateInv, Behind, Detection, Early, PingEnds, Settled
<1> QED BY <1>1, <1>2, <1>3 DEF Next

LEMMA SpecInv == Spec => []IInv
BY InitInv, NextInv, PTL DEF Spec

(***************************************************************************)
(* gatedConnect and startConnection (createClient.js): the connection is   *)
(* opened, and once, when the authentication is over and it was asked for. *)
(***************************************************************************)
THEOREM GateCorrect == Spec => []GateOpens
<1>1. IInv => GateOpens
  BY DEF IInv, GateInv, Exact, GateOpens
<1> QED BY <1>1, SpecInv, PTL

(***************************************************************************)
(* onConnect (setProtocol.js): nothing of the login is written before the  *)
(* account is known.                                                       *)
(***************************************************************************)
THEOREM LoginIsAuthenticated == Spec => []AuthFirst
<1>1. IInv => AuthFirst
  BY DEF IInv, Early, AuthFirst
<1> QED BY <1>1, SpecInv, PTL

(***************************************************************************)
(* ping.js: whatever settles the promise ends the connection of the ping   *)
(* and leaves no close timer.                                              *)
(***************************************************************************)
THEOREM PingCorrect == Spec => []PingEnds
<1>1. IInv => PingEnds
  BY DEF IInv
<1> QED BY <1>1, SpecInv, PTL
=============================================================================
