----------------------- MODULE ClientKeepaliveProofs ------------------------
(***************************************************************************)
(* The watchdog of the client, for any interval and grace period, however  *)
(* long callbacks block the loop.  The time since the last activity and    *)
(* what is left of the grace period add up; data that waited when the      *)
(* grace period began is read before its timer can fire; and the close     *)
(* timer of the connection fires before a grace period that began behind   *)
(* its end.                                                                *)
(***************************************************************************)
EXTENDS ClientKeepalive, TLAPS

Watches == [timer: {Off} \union 0..Interval, grace: {Off} \union 0..Longest,
            started: BOOLEAN]

(* The timers of a watchdog: the grace period follows the interval. *)
Sound(w) ==
    /\ w \in Watches
    /\ w.grace # Off => w.started
    /\ w.started => w.timer = Off

Turns ==
    /\ immediate => phase = "check" /\ backlog > 0
    /\ phase = "timers" => spent <= MaxTimersBlock

Closing ==
    /\ conn \in {"open", "ended"} => closeTimer = Off
    /\ conn = "ending" => closeTimer # Off

(* Nothing was read since the interval began. *)
Silent == watch.grace # Off => idle + watch.grace >= Interval + gracePeriod

(* The grace timer does not fire in the timers phase that set it. *)
InItsPhase == phase = "timers" => watch.grace + spent >= gracePeriod

(* Data that waited when the grace period began is still to be read. *)
Unread ==
    waiting /\ watch.grace # Off =>
        /\ conn = "destroyed" \/ (pending /\ backlog = 0)
        /\ phase = "check" => conn = "destroyed"
        /\ InItsPhase

IInv == TypeOK /\ Sound(watch) /\ Turns /\ Closing /\ Silent /\ Unread /\ Watching

(***************************************************************************)
(* After a timeout the close timer is due before an interval is over, and  *)
(* so no later than a new grace period begins.                             *)
(***************************************************************************)
Once ==
    gracePeriod > MaxTimersBlock /\ errors > 0 /\ conn # "ended" =>
        /\ conn # "open"
        /\ watch.grace # Off =>
               /\ conn = "destroyed" \/ (closeTimer = 0 /\ phase = "timers")
               /\ InItsPhase
        /\ conn = "ending" /\ watch.timer # Off =>
               closeTimer <= watch.timer \/ closeTimer + idle <= Interval

LEMMA Constants ==
    /\ Interval \in Nat \ {0} /\ CloseAfter \in Nat \ {0} /\ MaxErrors \in Nat \ {0}
    /\ MaxTimersBlock \in Nat /\ MaxBlock \in Nat /\ MaxBacklog \in Nat
    /\ Graces \subseteq Nat
    /\ Longest \in Nat /\ \A g \in Graces : g <= Longest
BY KeepaliveAssumption DEF Longest

-----------------------------------------------------------------------------
(* The watchdog *)

(***************************************************************************)
(* What packets and data do to a watchdog: nothing, or it begins again.    *)
(***************************************************************************)
Begun(v) == v.grace = Off /\ ~v.started /\ v.timer \in {Off, Interval}

LEMMA Fields ==
    ASSUME NEW w \in Watches, NEW timer \in {Off} \cup 0..Interval
    PROVE  /\ [w EXCEPT !.timer = timer] \in Watches
           /\ [w EXCEPT !.timer = timer].timer = timer
           /\ [w EXCEPT !.timer = timer].grace = w.grace
           /\ [w EXCEPT !.timer = timer].started = w.started
BY DEF Watches

LEMMA ClearedBegins == Sound(Cleared) /\ Begun(Cleared)
BY DEF Sound, Begun, Cleared, Watches, Off

LEMMA ScheduledBegins ==
    Sound(Schedule(Cleared, Interval)) /\ Begun(Schedule(Cleared, Interval))
    /\ Schedule(Cleared, Interval).timer = Interval
<1>1. Cleared \in Watches /\ Interval \in {Off} \cup 0..Interval
  BY ClearedBegins, Constants DEF Sound
<1>2. Cleared.timer = Off /\ Cleared.grace = Off /\ ~Cleared.started
  BY DEF Cleared
<1> QED BY <1>1, <1>2, Fields DEF Sound, Begun, Schedule

LEMMA RecoverBegins ==
    ASSUME NEW w, Sound(w)
    PROVE  /\ Sound(RecoverFromGrace(w))
           /\ ~RecoverFromGrace(w).started /\ RecoverFromGrace(w).grace = Off
           /\ RecoverFromGrace(w) = w \/ RecoverFromGrace(w).timer = Interval
BY ScheduledBegins DEF Sound, Begun, RecoverFromGrace

LEMMA KeepAliveBegins ==
    ASSUME NEW w, Sound(w)
    PROVE  /\ Sound(OnKeepAlive(w)) /\ Begun(OnKeepAlive(w))
           /\ OnKeepAlive(w).timer = Interval
<1> DEFINE v == RecoverFromGrace(w)
<1>1. Sound(v) /\ ~v.started /\ v.grace = Off
  BY RecoverBegins
<1> HIDE DEF v
<1>2. Sound(Schedule(v, Interval)) /\ Begun(Schedule(v, Interval))
      /\ Schedule(v, Interval).timer = Interval
  BY <1>1, Constants DEF Sound, Begun, Schedule, Watches, Off
<1> QED BY <1>2 DEF OnKeepAlive, v

LEMMA StateBegins ==
    ASSUME NEW s
    PROVE  /\ Sound(OnState(s)) /\ Begun(OnState(s))
           /\ s \in Watched => OnState(s).timer = Interval
BY ClearedBegins, ScheduledBegins DEF OnState

(* The frames of a turn, behind whatever the data did to the watchdog. *)
LEMMA FramesParsed ==
    ASSUME NEW w, Sound(w), ParseFrames(w), state \in {"login", "configuration", "play"}
    PROVE  /\ Sound(watch') /\ state' \in {"login", "configuration", "play"}
           /\ \/ watch' = w /\ state' = state
              \/ Begun(watch') /\ (state' \in Watched => watch'.timer = Interval)
<1>1. CASE watch' = w /\ UNCHANGED state
  BY <1>1
<1>2. CASE watch' = OnKeepAlive(w) /\ UNCHANGED state
  BY <1>2, KeepAliveBegins
<1>3. CASE watch' = OnState(state') /\ state' \in Watched \cup {"configuration", "play"}
  BY <1>3, StateBegins DEF Watched
<1> QED BY <1>1, <1>2, <1>3 DEF ParseFrames, Watched

-----------------------------------------------------------------------------
(* The steps *)

LEMMA InitInv == Init => IInv /\ Once
<1> SUFFICES ASSUME Init PROVE IInv /\ Once
  OBVIOUS
<1> USE DEF Init, Off
<1>1. TypeOK /\ Sound(watch)
  <2>1. watch = Cleared /\ Sound(Cleared)
    BY ClearedBegins
  <2>2. 0 \in 0..MaxTimersBlock + MaxBlock /\ 0 \in 0..Interval + Longest
        /\ 0 \in 0..MaxBacklog /\ 0 \in 0..MaxErrors
    BY Constants
  <2> QED BY <2>1, <2>2 DEF TypeOK, Sound, Watches
<1>2. Turns /\ Closing /\ Silent /\ Unread /\ Watching /\ Once
  BY DEF Turns, Closing, Silent, Unread, Watching, Once, Cleared, Watched
<1> QED BY <1>1, <1>2 DEF IInv

(* A step that leaves the watchdog and the data as they are. *)
LEMMA LoopInv == IInv /\ Loop => IInv'
<1> SUFFICES ASSUME IInv, Loop PROVE IInv'
  OBVIOUS
<1> USE DEF Enter, EnterPoll, EnterCheck, EnterTimers, connVars, dataVars
<1>1. UNCHANGED <<gracePeriod, state, conn, closeTimer, watch, idle, pending, backlog,
                  waiting, errors>>
  BY DEF Loop
<1>2. TypeOK'
  <2>1. phase' \in {"timers", "poll", "check"} /\ spent' = 0
    BY DEF Loop
  <2>2. immediate' \in BOOLEAN
    <3>1. (backlog > 0) \in BOOLEAN /\ immediate \in BOOLEAN
      <4>1. (backlog > 0) \in BOOLEAN
        BY SMT
      <4>2. immediate \in BOOLEAN
        BY Zenon DEF IInv, TypeOK
      <4> QED BY <4>1, <4>2, Zenon
    <3>2. immediate' = immediate \/ immediate' = (backlog > 0)
      BY Zenon DEF Loop
    <3> QED BY <3>1, <3>2, Zenon
  <2>3. spent' \in 0..MaxTimersBlock + MaxBlock
    BY <2>1, Constants
  <2> QED BY <1>1, <2>1, <2>2, <2>3 DEF IInv, TypeOK
<1>3. Turns'
  BY <1>1, Constants DEF Loop, IInv, Turns, TypeOK
<1>4. Sound(watch)' /\ Closing' /\ Silent' /\ Watching'
  BY <1>1 DEF IInv, Sound, Closing, Silent, Watching
<1>5. Unread'
  BY <1>1 DEF Loop, IInv, Unread, InItsPhase, TypeOK
<1> QED BY <1>2, <1>3, <1>4, <1>5 DEF IInv

LEMMA TickInv == IInv /\ Tick => IInv'
<1> SUFFICES ASSUME IInv, Tick PROVE IInv'
  OBVIOUS
<1> DEFINE w == [watch EXCEPT !.timer = Left(@), !.grace = Left(@)]
<1>1. /\ watch' = w
      /\ UNCHANGED <<phase, immediate, gracePeriod, state, conn, pending, backlog,
                     waiting, errors>>
      /\ closeTimer' = Left(closeTimer)
      /\ idle' = Least(idle + 1, Interval + Longest)
      /\ spent' = spent \/ spent' = spent + 1
  BY DEF Tick
<1>2. /\ w.timer = Left(watch.timer) /\ w.grace = Left(watch.grace)
      /\ w.started = watch.started /\ w \in Watches
  <2>1. watch \in Watches
    BY DEF IInv, Sound
  <2> DEFINE timer == Left(watch.timer)
             grace == Left(watch.grace)
  <2>2. timer \in {Off} \cup 0..Interval /\ grace \in {Off} \cup 0..Longest
    BY <2>1, Constants DEF Watches, Left, Off
  <2>3. w = [watch EXCEPT !.timer = timer, !.grace = grace]
    BY Zenon
  <2> HIDE DEF timer, grace
  <2>4. /\ [watch EXCEPT !.timer = timer, !.grace = grace] \in Watches
        /\ [watch EXCEPT !.timer = timer, !.grace = grace].timer = timer
        /\ [watch EXCEPT !.timer = timer, !.grace = grace].grace = grace
        /\ [watch EXCEPT !.timer = timer, !.grace = grace].started = watch.started
    BY <2>1, <2>2 DEF Watches
  <2> QED BY <2>3, <2>4, Zenon DEF timer, grace
<1> HIDE DEF w
<1>3. /\ Left(watch.timer) = Off <=> watch.timer = Off
      /\ Left(watch.grace) = Off <=> watch.grace = Off
      /\ Left(closeTimer) = Off <=> closeTimer = Off
      /\ closeTimer' \in {Off} \cup 0..CloseAfter
  BY <1>1, Constants DEF IInv, Sound, TypeOK, Watches, Left, Off
<1>4. idle' \in 0..Interval + Longest /\ idle' >= idle
  BY <1>1, Constants DEF IInv, TypeOK, Least
<1>5. TypeOK'
  <2>1. spent' \in 0..MaxTimersBlock + MaxBlock
    BY Constants DEF Tick, IInv, TypeOK
  <2> QED BY <1>1, <1>2, <1>3, <1>4, <2>1 DEF IInv, TypeOK, Watches
<1>6. Sound(watch)'
  BY <1>1, <1>2, <1>3 DEF IInv, Sound
<1>7. Turns'
  BY <1>1, Constants DEF Tick, IInv, Turns, TypeOK, Idling
<1>8. Closing' /\ Watching'
  BY <1>1, <1>2, <1>3 DEF IInv, Closing, Watching
<1>9. Silent'
  BY <1>1, <1>2, <1>3, <1>4, Constants
  DEF IInv, Silent, TypeOK, Sound, Watches, Left, Off, Least
<1>10. Unread'
  <2>1. ASSUME phase = "timers", watch.grace # Off, watch.grace + spent >= gracePeriod
        PROVE  w.grace + spent' >= gracePeriod
    <3>1. spent' = spent + 1
      BY <2>1 DEF Tick, Idling
    <3> QED BY <1>2, <2>1, <3>1, Constants DEF IInv, TypeOK, Sound, Watches, Left, Off
  <2> QED BY <1>1, <1>2, <1>3, <2>1 DEF IInv, Unread, InItsPhase
<1> QED BY <1>5, <1>6, <1>7, <1>8, <1>9, <1>10 DEF IInv

(* A step of the connection or the peer that leaves the watchdog alone. *)
LEMMA OutsideInv == IInv /\ (Arrive \/ UserEnds \/ CloseTimerFires) => IInv'
<1> SUFFICES ASSUME IInv, Arrive \/ UserEnds \/ CloseTimerFires PROVE IInv'
  OBVIOUS
<1> USE DEF Arrive, UserEnds, CloseTimerFires, EndClient, loopVars, connVars, dataVars, Live
<1>1. UNCHANGED <<phase, spent, immediate, gracePeriod, state, watch, idle, backlog,
                  waiting, errors>>
  OBVIOUS
<1>2. TypeOK'
  <2>1. CloseAfter \in 0..CloseAfter
    BY Constants
  <2>2. /\ conn' \in {"open", "ending", "destroyed", "ended"} /\ pending' \in BOOLEAN
        /\ closeTimer' \in {Off} \cup 0..CloseAfter
    BY <2>1 DEF IInv, TypeOK
  <2> QED BY <1>1, <2>2 DEF IInv, TypeOK
<1>3. Sound(watch)' /\ Turns' /\ Silent'
  BY <1>1 DEF IInv, Sound, Turns, Silent
<1>4. Closing'
  BY Constants DEF IInv, Closing, TypeOK, Off
<1>5. Unread'
  BY <1>1 DEF IInv, Unread, InItsPhase
<1>6. Watching'
  BY <1>1 DEF IInv, Watching, Closing, Off
<1> QED BY <1>2, <1>3, <1>4, <1>5, <1>6 DEF IInv
(* The connection ends: the timers are cleared. *)
LEMMA EndInv == IInv /\ (SocketClose \/ PeerEnds) => IInv'
<1> SUFFICES ASSUME IInv, EndSocket PROVE IInv'
  BY DEF SocketClose, PeerEnds
<1> USE DEF EndSocket, loopVars
<1>1. Sound(Cleared) /\ Cleared.grace = Off
  BY ClearedBegins DEF Cleared
<1>2. TypeOK'
  BY <1>1 DEF IInv, TypeOK, Sound, Watches
<1>3. Sound(watch)' /\ Turns' /\ Closing' /\ Silent' /\ Unread' /\ Watching'
  BY <1>1 DEF IInv, Sound, Turns, Closing, Silent, Unread, Watching
<1> QED BY <1>2, <1>3 DEF IInv

LEMMA SocketDataInv == IInv /\ SocketData => IInv'
<1> SUFFICES ASSUME IInv, SocketData PROVE IInv'
  OBVIOUS
<1> DEFINE w == RecoverFromGrace(watch)
<1> USE DEF SocketData
<1>1. /\ Sound(w) /\ w.grace = Off
      /\ w = watch \/ w.timer = Interval
  BY RecoverBegins DEF IInv
<1>2. /\ Sound(watch') /\ state' \in {"login", "configuration", "play"}
      /\ \/ watch' = w /\ state' = state
         \/ Begun(watch') /\ (state' \in Watched => watch'.timer = Interval)
  BY <1>1, FramesParsed DEF IInv, TypeOK
<1> HIDE DEF w
<1>3. watch'.grace = Off
  BY <1>1, <1>2 DEF Begun
<1>4. TypeOK'
  <2>1. 0 \in 0..Interval + Longest
    BY Constants
  <2> QED BY <1>2, <2>1 DEF IInv, TypeOK, Sound, Watches, loopVars
<1>5. Turns' /\ Closing'
  BY DEF IInv, Turns, Closing, loopVars
<1>6. Silent' /\ Unread'
  BY <1>3 DEF Silent, Unread
<1>7. Watching'
  <2>1. Interval # Off
    BY Constants DEF Off
  <2> QED BY <1>1, <1>2, <2>1 DEF IInv, Watching
<1> QED BY <1>2, <1>4, <1>5, <1>6, <1>7 DEF IInv

LEMMA ImmediateInv == IInv /\ ImmediateFrames => IInv'
<1> SUFFICES ASSUME IInv, ImmediateFrames PROVE IInv'
  OBVIOUS
<1> USE DEF ImmediateFrames
<1>1. /\ Sound(watch') /\ state' \in {"login", "configuration", "play"}
      /\ \/ watch' = watch /\ state' = state
         \/ Begun(watch') /\ (state' \in Watched => watch'.timer = Interval)
  BY FramesParsed DEF IInv, TypeOK
<1>2. watch' = watch \/ watch'.grace = Off
  BY <1>1 DEF Begun
<1>3. TypeOK'
  <2>1. backlog' \in 0..MaxBacklog
    BY Constants DEF IInv, TypeOK, Turns
  <2> QED BY <1>1, <2>1 DEF IInv, TypeOK, Sound, Watches
<1>4. Turns' /\ Closing'
  BY DEF IInv, Turns, Closing
<1>5. Silent' /\ Unread'
  BY <1>2 DEF IInv, Silent, Unread, InItsPhase
<1>6. Watching'
  <2>1. Interval # Off
    BY Constants DEF Off
  <2> QED BY <1>1, <2>1 DEF IInv, Watching
<1> QED BY <1>1, <1>3, <1>4, <1>5, <1>6 DEF IInv

(* finishTimeout, from either timer: it ends an open client. *)
LEMMA FinishInv ==
    ASSUME IInv, NEW w, FinishTimeout(w), Sound(w), w.grace = Off,
           waiting' \in BOOLEAN, UNCHANGED <<loopVars, gracePeriod, state, dataVars>>
    PROVE  IInv'
<1> USE DEF FinishTimeout, EndClient, loopVars, dataVars
<1>1. TypeOK'
  <2>1. CloseAfter \in 0..CloseAfter /\ errors' \in 0..MaxErrors
    BY Constants DEF IInv, TypeOK, Least
  <2>2. /\ conn' \in {"open", "ending", "destroyed", "ended"}
        /\ closeTimer' \in {Off} \cup 0..CloseAfter
    BY <2>1 DEF IInv, TypeOK
  <2> QED BY <2>1, <2>2 DEF IInv, TypeOK, Sound, Watches
<1>2. conn' # "open"
  OBVIOUS
<1>3. Closing'
  BY Constants DEF IInv, Closing, TypeOK, Off
<1>4. Turns' /\ Silent' /\ Unread' /\ Watching'
  BY <1>2 DEF IInv, Turns, Silent, Unread, Watching
<1> QED BY <1>1, <1>3, <1>4 DEF IInv

LEMMA GraceInv == IInv /\ GraceFires => IInv'
<1> SUFFICES ASSUME IInv, GraceFires PROVE IInv'
  OBVIOUS
<1> DEFINE w == [watch EXCEPT !.grace = Off]
<1>1. Sound(w) /\ w.grace = Off
  BY DEF IInv, Sound, Watches
<1> QED BY <1>1, FinishInv DEF GraceFires, IInv, TypeOK
(***************************************************************************)
(* The timer that fires is set for the rest of the interval, or begins a   *)
(* grace period, or is the timeout.                                        *)
(***************************************************************************)
Again(v) ==
    /\ idle < Interval /\ v.timer = Interval - idle /\ v.grace = Off /\ ~v.started
    /\ UNCHANGED <<conn, closeTimer, waiting, errors>>

GraceBegins(v) ==
    /\ idle >= Interval /\ gracePeriod # 0
    /\ v.timer = Off /\ v.grace = gracePeriod /\ v.started
    /\ waiting' = (pending /\ backlog = 0)
    /\ UNCHANGED <<conn, closeTimer, errors>>

TimesOut(v) ==
    gracePeriod = 0 /\ v.grace = Off /\ FinishTimeout(v) /\ waiting' \in BOOLEAN

LEMMA TimerCases ==
    ASSUME IInv, TimerFires
    PROVE  /\ Sound(watch') /\ watch.timer = 0
           /\ Again(watch') \/ GraceBegins(watch') \/ TimesOut(watch')
<1> DEFINE fired == [watch EXCEPT !.timer = Off]
           begun == [fired EXCEPT !.started = TRUE]
           graced == [begun EXCEPT !.grace = gracePeriod]
<1>1. watch \in Watches /\ watch.timer = 0 /\ ~watch.started /\ watch.grace = Off
  BY DEF IInv, Sound, TimerFires, Off
<1>2. fired \in Watches /\ fired.timer = Off /\ fired.grace = Off /\ ~fired.started
  BY <1>1, Fields
<1> HIDE DEF fired
<1>3. begun \in Watches /\ begun.timer = Off /\ begun.grace = Off /\ begun.started
  BY <1>2 DEF Watches
<1> HIDE DEF begun
<1>4. gracePeriod \in 0..Longest
  BY Constants DEF IInv, TypeOK
<1>5. /\ graced \in Watches /\ graced.timer = Off /\ graced.grace = gracePeriod
      /\ graced.started
  BY <1>3, <1>4 DEF Watches
<1> HIDE DEF graced
<1>6. CASE idle < Interval /\ watch' = Schedule(fired, Interval - idle)
           /\ UNCHANGED <<conn, closeTimer, waiting, errors>>
  <2>1. Interval - idle \in {Off} \cup 0..Interval
    BY <1>6, Constants DEF IInv, TypeOK
  <2>2. watch' \in Watches /\ Again(watch')
    BY <1>2, <1>6, <2>1, Fields DEF Schedule, Again
  <2> QED BY <1>1, <2>2 DEF Sound, Again
<1>7. CASE /\ idle >= Interval /\ gracePeriod # 0 /\ watch' = graced
           /\ waiting' = (pending /\ backlog = 0)
           /\ UNCHANGED <<conn, closeTimer, errors>>
  BY <1>1, <1>5, <1>7 DEF Sound, GraceBegins
<1>8. CASE /\ gracePeriod = 0 /\ FinishTimeout(begun)
           /\ waiting' = (pending /\ backlog = 0)
  <2>1. waiting' \in BOOLEAN
    BY <1>8
  <2>2. watch' = begun
    BY <1>8 DEF FinishTimeout
  <2> QED BY <1>1, <1>3, <1>8, <2>1, <2>2 DEF Sound, TimesOut
<1> QED BY <1>6, <1>7, <1>8 DEF TimerFires, fired, begun, graced

LEMMA TimerInv == IInv /\ TimerFires => IInv'
<1> SUFFICES ASSUME IInv, TimerFires PROVE IInv'
  OBVIOUS
<1>1. /\ Sound(watch')
      /\ Again(watch') \/ GraceBegins(watch') \/ TimesOut(watch')
  BY TimerCases
<1>2. phase = "timers" /\ UNCHANGED <<loopVars, gracePeriod, state, dataVars>>
  BY DEF TimerFires
<1>3. CASE TimesOut(watch')
  BY <1>1, <1>2, <1>3, FinishInv DEF TimesOut
<1>4. CASE Again(watch') \/ GraceBegins(watch')
  <2> USE DEF loopVars, dataVars
  <2>1. waiting' \in BOOLEAN /\ UNCHANGED <<conn, closeTimer, errors>>
    BY <1>4 DEF Again, GraceBegins, IInv, TypeOK
  <2>2. TypeOK'
    BY <1>1, <1>2, <2>1 DEF IInv, TypeOK, Sound, Watches
  <2>3. Turns' /\ Closing'
    BY <1>2, <2>1 DEF IInv, Turns, Closing
  <2>4. Silent' /\ Unread'
    BY <1>2, <1>4, <2>1, Constants
    DEF Again, GraceBegins, IInv, TypeOK, Silent, Unread, InItsPhase
  <2>5. watch'.timer # Off \/ watch'.grace # Off
    BY <1>4, Constants DEF Again, GraceBegins, IInv, TypeOK, Off
  <2>6. Watching'
    BY <2>5 DEF Watching
  <2> QED BY <1>1, <2>2, <2>3, <2>4, <2>6 DEF IInv
<1> QED BY <1>1, <1>3, <1>4

LEMMA NextInv == IInv /\ [Next]_vars => IInv'
<1> SUFFICES ASSUME IInv, [Next]_vars PROVE IInv'
  OBVIOUS
<1>1. CASE Next
  BY <1>1, TimerInv, GraceInv, OutsideInv, SocketDataInv, ImmediateInv, EndInv, LoopInv,
     TickInv DEF Next
<1>2. CASE UNCHANGED vars
  <2> USE <1>2 DEF vars, loopVars, connVars, dataVars
  <2>1. TypeOK' /\ Sound(watch)' /\ Turns' /\ Closing'
    BY DEF IInv, TypeOK, Sound, Turns, Closing
  <2>2. Silent' /\ Unread' /\ Watching'
    BY DEF IInv, Silent, Unread, InItsPhase, Watching
  <2> QED BY <2>1, <2>2 DEF IInv
<1> QED BY <1>1, <1>2

(***************************************************************************)
(* onState, onKeepAlive, onSocketActivity and the timers (keepalive.js)    *)
(* never leave an open connection in a watched state without a timer.      *)
(***************************************************************************)
THEOREM NeverUnwatched == Spec => []Watching
<1>1. Init => IInv
  BY InitInv
<1>2. IInv => Watching
  BY DEF IInv
<1> QED BY <1>1, <1>2, NextInv, PTL DEF Spec
-----------------------------------------------------------------------------
(* One timeout *)

(* The parts of Once, for a connection that timed out and has not ended. *)
GraceEnds ==
    watch.grace # Off =>
        /\ conn = "destroyed" \/ (closeTimer = 0 /\ phase = "timers")
        /\ InItsPhase

ClosesFirst ==
    conn = "ending" /\ watch.timer # Off =>
        closeTimer <= watch.timer \/ closeTimer + idle <= Interval

(***************************************************************************)
(* A step that counts no timeout is about a connection that timed out      *)
(* before.                                                                 *)
(***************************************************************************)
LEMMA OnceStep ==
    ASSUME IInv, Once, errors' = errors, gracePeriod' = gracePeriod,
           conn = "ended" => conn' = "ended", conn # "open" => conn' # "open",
           /\ gracePeriod > MaxTimersBlock /\ errors > 0 /\ conn \in {"ending", "destroyed"}
           /\ GraceEnds /\ ClosesFirst
           => conn' = "ended" \/ (GraceEnds' /\ ClosesFirst')
    PROVE  Once'
<1> SUFFICES ASSUME gracePeriod > MaxTimersBlock, errors > 0, conn' # "ended"
             PROVE  conn' # "open" /\ GraceEnds' /\ ClosesFirst'
  BY DEF Once, GraceEnds, ClosesFirst, InItsPhase
<1>1. conn \in {"ending", "destroyed"} /\ GraceEnds /\ ClosesFirst
  BY DEF Once, GraceEnds, ClosesFirst, InItsPhase, IInv, TypeOK
<1> QED BY <1>1

(* A step that leaves the watchdog as it is, or begins it again. *)
LEMMA FramesOnce ==
    ASSUME IInv, Once, SocketData \/ ImmediateFrames, CloseAfter <= Interval
    PROVE  Once'
<1>1. /\ conn' = conn /\ errors' = errors /\ gracePeriod' = gracePeriod
      /\ closeTimer' = closeTimer /\ phase' = phase /\ spent' = spent
  BY DEF SocketData, ImmediateFrames, loopVars
<1>2. closeTimer <= CloseAfter /\ closeTimer \in Int
  BY Constants DEF IInv, TypeOK, Off
<1>3. CASE SocketData
  <2>1. watch'.grace = Off
    <3>1. /\ Sound(RecoverFromGrace(watch)) /\ RecoverFromGrace(watch).grace = Off
      BY RecoverBegins DEF IInv
    <3> QED BY <1>3, <3>1, FramesParsed DEF SocketData, Begun, IInv, TypeOK
  <2>2. closeTimer' + idle' <= Interval
    BY <1>1, <1>2, <1>3, Constants DEF SocketData
  <2>3. GraceEnds' /\ ClosesFirst'
    BY <2>1, <2>2 DEF GraceEnds, ClosesFirst
  <2> QED BY <1>1, <2>3, OnceStep
<1>4. CASE ImmediateFrames
  <2>1. watch' = watch \/ Begun(watch')
    BY <1>4, FramesParsed DEF ImmediateFrames, IInv, TypeOK
  <2>2. idle' = idle
    BY <1>4 DEF ImmediateFrames
  <2>3. CASE watch' = watch
    <3>1. GraceEnds /\ ClosesFirst => GraceEnds' /\ ClosesFirst'
      BY <1>1, <2>2, <2>3 DEF GraceEnds, ClosesFirst, InItsPhase
    <3> QED BY <1>1, <3>1, OnceStep
  <2>4. CASE Begun(watch')
    <3>1. GraceEnds' /\ ClosesFirst'
      BY <1>1, <1>2, <2>4, Constants DEF GraceEnds, ClosesFirst, Begun
    <3> QED BY <1>1, <3>1, OnceStep
  <2> QED BY <2>1, <2>3, <2>4
<1> QED BY <1>3, <1>4

(* The end, and steps of the connection. *)
LEMMA OutsideOnce ==
    ASSUME IInv, Once, Arrive \/ UserEnds \/ CloseTimerFires \/ SocketClose \/ PeerEnds
    PROVE  Once'
<1>1. CASE SocketClose \/ PeerEnds
  <2>1. conn' = "ended"
    BY <1>1 DEF SocketClose, PeerEnds, EndSocket
  <2> QED BY <2>1 DEF Once
<1>2. CASE UserEnds
  <2>1. conn = "open" /\ errors' = errors /\ gracePeriod' = gracePeriod
    BY <1>2 DEF UserEnds
  <2> QED BY <2>1 DEF Once, UserEnds
<1>3. CASE Arrive
  BY <1>3 DEF Arrive, Once, InItsPhase, loopVars, connVars
<1>4. CASE CloseTimerFires
  <2>1. /\ conn' = "destroyed" /\ conn # "ended"
        /\ UNCHANGED <<errors, gracePeriod, watch, phase, spent>>
    BY <1>4 DEF CloseTimerFires, loopVars, IInv, Closing, Off
  <2>2. GraceEnds => GraceEnds' /\ ClosesFirst'
    BY <2>1 DEF GraceEnds, ClosesFirst, InItsPhase
  <2> QED BY <2>1, <2>2, OnceStep
<1> QED BY <1>1, <1>2, <1>3, <1>4

(* No phase of timers is left before the close timer fired. *)
LEMMA LoopOnce ==
    ASSUME IInv, Once, Loop
    PROVE  Once'
<1>1. UNCHANGED <<errors, gracePeriod, conn, watch, closeTimer, idle>>
  BY DEF Loop, EnterPoll, EnterCheck, EnterTimers, connVars, dataVars
<1>2. ClosesFirst => ClosesFirst'
  BY <1>1 DEF ClosesFirst
<1>3. GraceEnds => GraceEnds'
  BY <1>1 DEF GraceEnds, InItsPhase, Loop, EnterPoll, EnterCheck, EnterTimers, Enter, NoneDue
<1> QED BY <1>1, <1>2, <1>3, OnceStep

LEMMA TickOnce ==
    ASSUME IInv, Once, Tick
    PROVE  Once'
<1>1. UNCHANGED <<errors, gracePeriod, conn, phase>>
  BY DEF Tick
<1>2. watch \in Watches /\ idle \in Nat /\ closeTimer \in {Off} \cup Nat /\ spent \in Nat
      /\ gracePeriod \in Nat
  BY Constants DEF IInv, Sound, TypeOK
<1>3. watch'.timer = Left(watch.timer) /\ watch'.grace = Left(watch.grace)
      /\ closeTimer' = Left(closeTimer)
  BY <1>2 DEF Tick, Watches
<1>4. GraceEnds => GraceEnds'
  <2> SUFFICES ASSUME GraceEnds, watch'.grace # Off PROVE GraceEnds'
    BY DEF GraceEnds
  <2>1. watch.grace \in Nat /\ watch'.grace >= watch.grace - 1
    BY <1>2, <1>3 DEF Watches, Left, Off
  <2>2. InItsPhase'
    <3> SUFFICES ASSUME phase = "timers" PROVE watch'.grace + spent' >= gracePeriod'
      BY <1>1 DEF InItsPhase
    <3>1. spent' = spent + 1
      BY DEF Tick, Idling
    <3>2. watch.grace + spent >= gracePeriod
      BY <2>1 DEF GraceEnds, InItsPhase, Off
    <3> QED BY <1>1, <1>2, <1>3, <2>1, <3>1, <3>2 DEF Watches, Left, Off
  <2>3. closeTimer = 0 => closeTimer' = 0
    BY <1>3 DEF Left
  <2> QED BY <1>1, <2>1, <2>2, <2>3 DEF GraceEnds, Off
<1>5. conn # "ending" \/ (ClosesFirst => ClosesFirst')
  <2> SUFFICES ASSUME conn = "ending", watch'.timer # Off,
                      watch.timer # Off =>
                          closeTimer <= watch.timer \/ closeTimer + idle <= Interval
               PROVE  closeTimer' <= watch'.timer \/ closeTimer' + idle' <= Interval
    BY <1>1 DEF ClosesFirst
  <2>1. closeTimer \in Nat /\ watch.timer \in Nat
    BY <1>2, <1>3 DEF IInv, Closing, Watches, Left, Off
  <2>2. idle' <= idle + 1
    BY <1>2, Constants DEF Tick, Least
  <2>3. idle' \in Nat
    BY <1>2, Constants DEF Tick, Least
  <2>4. /\ closeTimer' \in Nat /\ watch'.timer \in Nat /\ Interval \in Nat
        /\ closeTimer <= watch.timer => closeTimer' <= watch'.timer
        /\ closeTimer = 0 => closeTimer' = 0
        /\ closeTimer > 0 => closeTimer' = closeTimer - 1
    BY <1>3, <2>1, Constants DEF Left
  <2>5. closeTimer <= watch.timer \/ closeTimer + idle <= Interval
    BY <2>1 DEF Off
  <2>6. CASE closeTimer <= watch.timer
    BY <2>4, <2>6
  <2>7. CASE closeTimer = 0
    <3>1. closeTimer' = 0 /\ watch'.timer >= 0
      BY <2>4, <2>7
    <3> QED BY <3>1
  <2>8. CASE closeTimer > 0 /\ closeTimer + idle <= Interval
    <3>1. closeTimer' = closeTimer - 1 /\ idle \in Nat
      BY <1>2, <2>4, <2>8
    <3>2. \A c, d, i, j \in Nat :
              d = c - 1 /\ j <= i + 1 /\ c + i <= Interval => d + j <= Interval
      BY Constants
    <3>3. closeTimer' + idle' <= Interval
      BY <2>1, <2>2, <2>3, <2>4, <2>8, <3>1, <3>2
    <3> QED BY <3>3
  <2> QED BY <2>1, <2>5, <2>6, <2>7, <2>8
<1>6. conn = "destroyed" => ClosesFirst'
  BY <1>1 DEF ClosesFirst
<1> QED BY <1>1, <1>4, <1>5, <1>6, OnceStep
(* finishTimeout leaves no timer, and the close timer of an end. *)
LEMMA GraceOnce ==
    ASSUME IInv, Once, GraceFires
    PROVE  Once'
<1>1. watch.grace = 0 /\ watch \in Watches /\ watch.timer = Off
  BY DEF GraceFires, IInv, Sound, Off
<1>2. watch' = [watch EXCEPT !.grace = Off] /\ EndClient
  BY DEF GraceFires, FinishTimeout
<1>3. watch'.grace = Off /\ watch'.timer = Off
  BY <1>1, <1>2 DEF Watches
<1> QED BY <1>2, <1>3 DEF Once, EndClient

(***************************************************************************)
(* A grace period that begins behind a timeout finds the close timer due.  *)
(***************************************************************************)
LEMMA TimerOnce ==
    ASSUME IInv, Once, TimerFires
    PROVE  Once'
<1>1. /\ watch.timer = 0 /\ Sound(watch')
      /\ Again(watch') \/ GraceBegins(watch') \/ TimesOut(watch')
  BY TimerCases
<1>2. phase = "timers" /\ UNCHANGED <<phase, spent, gracePeriod, idle>>
  BY DEF TimerFires, loopVars, dataVars
<1>3. /\ idle \in Nat /\ spent \in Nat /\ gracePeriod \in Nat
      /\ closeTimer \in {Off} \cup Nat
  BY Constants DEF IInv, TypeOK
<1>4. CASE TimesOut(watch')
  <2>1. ~(gracePeriod > MaxTimersBlock)
    BY <1>4, Constants DEF TimesOut
  <2> QED BY <1>2, <2>1 DEF Once
<1>5. CASE Again(watch')
  <2>1. watch'.grace = Off /\ watch'.timer = Interval - idle
        /\ UNCHANGED <<conn, closeTimer, errors>>
    BY <1>5 DEF Again
  <2>2. GraceEnds'
    BY <2>1 DEF GraceEnds
  <2>3. ClosesFirst => ClosesFirst'
    <3> SUFFICES ASSUME ClosesFirst, conn = "ending" PROVE closeTimer <= Interval - idle
      BY <2>1 DEF ClosesFirst
    <3>1. closeTimer <= 0 \/ closeTimer + idle <= Interval
      BY <1>1 DEF ClosesFirst, Off
    <3>2. idle < Interval /\ closeTimer \in Nat
      BY <1>3, <1>5 DEF Again, IInv, Closing
    <3> QED BY <1>3, <3>1, <3>2, Constants
  <2> QED BY <1>2, <2>1, <2>2, <2>3, OnceStep
<1>6. CASE GraceBegins(watch')
  <2>1. /\ watch'.grace = gracePeriod /\ watch'.timer = Off /\ idle >= Interval
        /\ UNCHANGED <<conn, closeTimer, errors>>
    BY <1>6 DEF GraceBegins
  <2>2. ClosesFirst'
    BY <2>1 DEF ClosesFirst
  <2>3. conn \in {"ending", "destroyed"} /\ ClosesFirst => GraceEnds'
    <3> SUFFICES ASSUME conn \in {"ending", "destroyed"}, ClosesFirst
                 PROVE  (conn = "destroyed" \/ closeTimer = 0)
                        /\ watch'.grace + spent >= gracePeriod
      BY <1>2, <2>1 DEF GraceEnds, InItsPhase
    <3>1. watch'.grace + spent >= gracePeriod
      BY <1>3, <2>1
    <3>2. CASE conn = "ending"
      <4>1. closeTimer <= 0 \/ closeTimer + idle <= Interval
        BY <1>1, <3>2 DEF ClosesFirst, Off
      <4>2. closeTimer \in Nat
        BY <1>3, <3>2 DEF IInv, Closing
      <4> QED BY <1>3, <2>1, <3>1, <4>1, <4>2, Constants
    <3> QED BY <3>1, <3>2
  <2> QED BY <1>2, <2>1, <2>2, <2>3, OnceStep
<1> QED BY <1>1, <1>4, <1>5, <1>6

LEMMA NextOnce ==
    ASSUME IInv, Once, [Next]_vars, CloseAfter <= Interval
    PROVE  Once'
<1>1. CASE Next
  BY <1>1, TimerOnce, GraceOnce, OutsideOnce, FramesOnce, LoopOnce, TickOnce DEF Next
<1>2. CASE UNCHANGED vars
  BY <1>2 DEF vars, loopVars, connVars, dataVars, Once, InItsPhase
<1> QED BY <1>1, <1>2

(***************************************************************************)
(* A timeout (client/keepalive.js, finishTimeout) says that nothing was    *)
(* read for interval and grace and that none was waiting when the grace    *)
(* period began, and says it once; for a close timer (client.js) that is   *)
(* no longer than the interval, as the defaults have it.                   *)
(***************************************************************************)
TimeoutIsTrue ==
    errors' > errors /\ gracePeriod > MaxTimersBlock
        => /\ idle >= Interval + gracePeriod /\ ~waiting
           /\ conn # "ended" => errors = 0

LEMMA StepIsTrue ==
    ASSUME IInv, Once, [Next]_vars
    PROVE  TimeoutIsTrue
<1> SUFFICES ASSUME errors' > errors, gracePeriod > MaxTimersBlock
             PROVE  /\ idle >= Interval + gracePeriod /\ ~waiting
                    /\ conn # "ended" => errors = 0
  BY DEF TimeoutIsTrue
<1>1. errors \in Nat /\ errors' # errors
  BY Constants DEF IInv, TypeOK
<1>2. TimerFires \/ GraceFires
  BY <1>1 DEF Next, CloseTimerFires, Arrive, SocketData, ImmediateFrames, SocketClose,
             PeerEnds, EndSocket, UserEnds, Loop, EnterPoll, EnterCheck, EnterTimers, Tick,
             vars
<1>3. GraceFires
  <2>1. ASSUME TimerFires PROVE FALSE
    <3>1. TimesOut(watch')
      BY <1>1, <2>1, TimerCases DEF Again, GraceBegins
    <3> QED BY <3>1, Constants DEF TimesOut
  <2> QED BY <1>2, <2>1
<1>4. watch.grace = 0 /\ watch.grace # Off /\ phase = "timers"
  BY <1>3 DEF GraceFires, Off
<1>5. /\ idle \in Nat /\ gracePeriod \in Nat /\ spent \in Nat /\ spent <= MaxTimersBlock
  BY <1>4, Constants DEF IInv, TypeOK, Turns
<1>6. ~InItsPhase
  BY <1>4, <1>5, Constants DEF InItsPhase
<1>7. idle >= Interval + gracePeriod
  BY <1>4, <1>5, Constants DEF IInv, Silent
<1>8. ~waiting
  BY <1>4, <1>6 DEF IInv, Unread
<1>9. conn # "ended" => errors = 0
  <2> SUFFICES ASSUME conn # "ended", errors > 0 PROVE FALSE
    BY <1>1
  <2> QED BY <1>4, <1>6 DEF Once
<1> QED BY <1>7, <1>8, <1>9

(***************************************************************************)
(* A timeout (startGracePeriod and finishTimeout of client/keepalive.js)   *)
(* comes behind interval and grace without a read only, and once, however  *)
(* long callbacks block, if the close timer is not the longer one.         *)
(***************************************************************************)
THEOREM TimeoutCorrect ==
    ASSUME CloseAfter <= Interval
    PROVE  Spec => AccurateTimeout
<1>1. Init => IInv /\ Once
  BY InitInv
<1>2. IInv /\ Once /\ [Next]_vars => (IInv /\ Once)'
  BY NextInv, NextOnce
<1>3. IInv /\ Once /\ [Next]_vars => TimeoutIsTrue
  BY StepIsTrue
<1> QED BY <1>1, <1>2, <1>3, PTL DEF Spec, AccurateTimeout, TimeoutIsTrue
=============================================================================
