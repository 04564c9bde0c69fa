-------------------------- MODULE ClientKeepalive ---------------------------
(***************************************************************************)
(* The watchdog of client/keepalive.js over the event loop of Node: timers *)
(* fire before the data that waits in the kernel is read, callbacks block  *)
(* the loop, and the frames of a large chunk are parsed in later turns     *)
(* (transforms/framing.js), even after the connection ended.  setSocket    *)
(* and end() of client.js give it socket activity, the close timer and the *)
(* end of the connection.                                                  *)
(*                                                                         *)
(* Time is counted in ticks, taken by callbacks or by an idle poll.        *)
(***************************************************************************)
EXTENDS Integers

CONSTANTS
    Interval,        \* options.checkTimeoutInterval
    Graces,          \* the values of options.keepAliveTimeoutGracePeriod
    CloseAfter,      \* closeTimeout of client.js
    MaxTimersBlock,  \* ticks the callbacks of one timers phase may take
    MaxBlock,        \* ticks the callbacks of another phase may take
    MaxBacklog,      \* turns of 128 frames left of one chunk
    MaxErrors        \* bound on the timeouts counted

ASSUME KeepaliveAssumption ==
    /\ {Interval, CloseAfter, MaxErrors} \subseteq Nat \ {0}
    /\ {MaxTimersBlock, MaxBlock, MaxBacklog} \subseteq Nat
    /\ Graces \subseteq Nat
    /\ \E g \in Graces : \A h \in Graces : h <= g

Off == -1   \* a timer that is not armed

VARIABLES
    phase,       \* of the event loop
    spent,       \* ticks of this phase
    immediate,   \* a setImmediate callback is due in this turn
    gracePeriod, \* the option
    state,       \* protocolState
    conn,        \* open, ending (end() called), destroyed, ended
    watch,       \* the timers of keepalive.js: time left, grace started
    closeTimer,  \* time left to the destruction of the socket
    idle,        \* ticks since _lastSocketActivity, counted up to the timeout
    pending,     \* data in the kernel that was not read
    backlog,     \* turns of frames the splitter still holds
    waiting,     \* history: readable data was pending when grace began
    errors       \* history: KEEPALIVE_TIMEOUT errors

loopVars == <<phase, spent, immediate>>
connVars == <<state, conn, closeTimer>>
dataVars == <<idle, pending, backlog>>
vars == <<loopVars, gracePeriod, connVars, watch, dataVars, waiting, errors>>

Least(a, b) == IF a < b THEN a ELSE b
Longest == CHOOSE g \in Graces : \A h \in Graces : h <= g
Watched == {"configuration", "play"}
Live == conn \in {"open", "ending"}

TypeOK ==
    /\ phase \in {"timers", "poll", "check"}
    /\ spent \in 0..MaxTimersBlock + MaxBlock
    /\ immediate \in BOOLEAN
    /\ gracePeriod \in Graces
    /\ state \in {"login", "configuration", "play"}
    /\ conn \in {"open", "ending", "destroyed", "ended"}
    /\ watch \in [timer: {Off} \union 0..Interval,
                  grace: {Off} \union 0..Longest,
                  started: BOOLEAN]
    /\ closeTimer \in {Off} \union 0..CloseAfter
    /\ idle \in 0..Interval + Longest
    /\ pending \in BOOLEAN
    /\ backlog \in 0..MaxBacklog
    /\ waiting \in BOOLEAN
    /\ errors \in 0..MaxErrors

-----------------------------------------------------------------------------
(* The watchdog *)

Cleared == [timer |-> Off, grace |-> Off, started |-> FALSE]

Schedule(w, delay) == [w EXCEPT !.timer = delay]

RecoverFromGrace(w) == IF w.started THEN Schedule(Cleared, Interval) ELSE w

OnKeepAlive(w) == Schedule(RecoverFromGrace(w), Interval)

(* Fault: only the play state is watched. *)
OnStatePlay(s) == IF s = "play" THEN Schedule(Cleared, Interval) ELSE Cleared

OnState(s) == IF s \in Watched THEN Schedule(Cleared, Interval) ELSE Cleared

(***************************************************************************)
(* client.end: the close timer of the first end() is the one to fire.      *)
(***************************************************************************)
EndClient ==
    /\ conn' = IF conn = "open" THEN "ending" ELSE conn
    /\ closeTimer' = IF closeTimer = Off /\ conn # "ended" THEN CloseAfter
                     ELSE closeTimer

(***************************************************************************)
(* finishTimeout: the error is emitted and the client ended.               *)
(***************************************************************************)
FinishTimeout(w) ==
    /\ watch' = w
    /\ errors' = Least(errors + 1, MaxErrors)
    /\ EndClient

Init ==
    /\ phase = "poll"
    /\ spent = 0
    /\ immediate = FALSE
    /\ gracePeriod \in Graces
    /\ state = "login"
    /\ conn = "open"
    /\ watch = Cleared
    /\ closeTimer = Off
    /\ idle = 0
    /\ pending = FALSE
    /\ backlog = 0
    /\ waiting = FALSE
    /\ errors = 0

-----------------------------------------------------------------------------
(* The timers phase *)

(***************************************************************************)
(* The timer is set again for what is left since the last activity; after  *)
(* a whole interval without any the grace period starts.                   *)
(***************************************************************************)
TimerFires ==
    /\ phase = "timers"
    /\ watch.timer = 0
    /\ LET fired == [watch EXCEPT !.timer = Off]
           begun == [fired EXCEPT !.started = TRUE]
       IN  \/ /\ idle < Interval
              /\ watch' = Schedule(fired, Interval - idle)
              /\ UNCHANGED <<conn, closeTimer, waiting, errors>>
           \/ /\ idle >= Interval
              /\ ~fired.started
              /\ waiting' = (pending /\ backlog = 0)
              /\ IF gracePeriod = 0
                 THEN FinishTimeout(begun)
                 ELSE /\ watch' = [begun EXCEPT !.grace = gracePeriod]
                      /\ UNCHANGED <<conn, closeTimer, errors>>
    /\ UNCHANGED <<loopVars, gracePeriod, state, dataVars>>

(***************************************************************************)
(* Activity clears the grace timer (recoverFromGrace), so that it never    *)
(* finds any when it fires.                                                *)
(***************************************************************************)
GraceFires ==
    /\ phase = "timers"
    /\ watch.grace = 0
    /\ FinishTimeout([watch EXCEPT !.grace = Off])
    /\ UNCHANGED <<loopVars, gracePeriod, state, dataVars, waiting>>

CloseTimerFires ==
    /\ phase = "timers"
    /\ closeTimer = 0
    /\ closeTimer' = Off
    /\ conn' = "destroyed"
    /\ pending' = FALSE
    /\ UNCHANGED <<loopVars, gracePeriod, state, watch, idle, backlog, waiting,
                   errors>>

-----------------------------------------------------------------------------
(* The poll and check phases *)

Arrive ==
    /\ Live
    /\ ~pending
    /\ pending' = TRUE
    /\ UNCHANGED <<loopVars, gracePeriod, connVars, watch, idle, backlog,
                   waiting, errors>>

(***************************************************************************)
(* The frames of a turn: none of interest, keep_alive, a state switch.     *)
(***************************************************************************)
ParseFrames(w) ==
    \/ watch' = w /\ UNCHANGED state
    \/ state \in Watched /\ watch' = OnKeepAlive(w) /\ UNCHANGED state
    \/ /\ state' \in IF state = "play" THEN {"configuration"}
                     ELSE IF state = "login" THEN Watched ELSE {"play"}
       /\ watch' = OnState(state')

(* Fault: data does not end the grace period, only keep_alive does. *)
SocketDataUnheard ==
    /\ phase = "poll"
    /\ Live
    /\ pending
    /\ backlog = 0
    /\ pending' = FALSE
    /\ waiting' = waiting
    /\ idle' = 0
    /\ ParseFrames(watch)
    /\ backlog' \in 0..MaxBacklog
    /\ UNCHANGED <<loopVars, gracePeriod, conn, closeTimer, errors>>

(***************************************************************************)
(* onSocketData, then the first frames.  A chunk the splitter did not      *)
(* finish holds back the ones behind it.                                   *)
(***************************************************************************)
SocketData ==
    /\ phase = "poll"
    /\ Live
    /\ pending
    /\ backlog = 0
    /\ pending' = FALSE
    /\ waiting' = FALSE
    /\ idle' = 0
    /\ ParseFrames(RecoverFromGrace(watch))
    /\ backlog' \in 0..MaxBacklog
    /\ UNCHANGED <<loopVars, gracePeriod, conn, closeTimer, errors>>

ImmediateFrames ==
    /\ phase = "check"
    /\ immediate
    /\ immediate' = FALSE
    /\ backlog' = backlog - 1
    /\ ParseFrames(watch)
    /\ UNCHANGED <<phase, spent, gracePeriod, conn, closeTimer, idle, pending,
                   waiting, errors>>

(***************************************************************************)
(* endSocket: 'end' clears the timers.                                     *)
(***************************************************************************)
EndSocket ==
    /\ conn' = "ended"
    /\ closeTimer' = Off
    /\ watch' = Cleared
    /\ pending' = FALSE
    /\ UNCHANGED <<loopVars, gracePeriod, state, idle, backlog, waiting, errors>>

SocketClose ==
    /\ conn = "destroyed"
    /\ phase = "check"
    /\ EndSocket

PeerEnds ==
    /\ phase = "poll"
    /\ Live
    /\ ~pending
    /\ EndSocket

UserEnds ==
    /\ phase \in {"poll", "check"}
    /\ conn = "open"
    /\ EndClient
    /\ UNCHANGED <<loopVars, gracePeriod, state, watch, dataVars, waiting, errors>>

-----------------------------------------------------------------------------
(* The loop *)

NoneDue == 0 \notin {watch.timer, watch.grace, closeTimer}

Enter(p) == phase' = p /\ spent' = 0

EnterPoll ==
    /\ phase = "timers"
    /\ NoneDue
    /\ Enter("poll")
    /\ UNCHANGED <<immediate, gracePeriod, connVars, watch, dataVars, waiting, errors>>

EnterCheck ==
    /\ phase = "poll"
    /\ pending => backlog > 0
    /\ Enter("check")
    /\ immediate' = (backlog > 0)
    /\ UNCHANGED <<gracePeriod, connVars, watch, dataVars, waiting, errors>>

EnterTimers ==
    /\ phase = "check"
    /\ ~immediate
    /\ conn # "destroyed"
    /\ Enter("timers")
    /\ UNCHANGED <<immediate, gracePeriod, connVars, watch, dataVars, waiting, errors>>

(***************************************************************************)
(* A tick passes in a callback, or in a poll with nothing to do.           *)
(***************************************************************************)
Idling == phase = "poll" /\ ~pending /\ backlog = 0 /\ NoneDue

Left(t) == IF t > 0 THEN t - 1 ELSE t

Tick ==
    /\ \/ Idling /\ UNCHANGED spent
       \/ /\ spent < IF phase = "timers" THEN MaxTimersBlock ELSE MaxBlock
          /\ spent' = spent + 1
    /\ watch' = [watch EXCEPT !.timer = Left(@), !.grace = Left(@)]
    /\ closeTimer' = Left(closeTimer)
    /\ idle' = Least(idle + 1, Interval + Longest)
    /\ UNCHANGED <<phase, immediate, gracePeriod, state, conn, pending, backlog,
                   waiting, errors>>

Loop == EnterPoll \/ EnterCheck \/ EnterTimers

Next ==
    \/ TimerFires \/ GraceFires \/ CloseTimerFires
    \/ Arrive \/ SocketData \/ ImmediateFrames
    \/ SocketClose \/ PeerEnds \/ UserEnds
    \/ Loop \/ Tick

Spec == Init /\ [][Next]_vars

(***************************************************************************)
(* The loop turns, its callbacks run, and time passes.                     *)
(***************************************************************************)
FairSpec ==
    /\ Spec
    /\ WF_vars(Loop) /\ WF_vars(Tick)
    /\ WF_vars(TimerFires) /\ WF_vars(GraceFires) /\ WF_vars(CloseTimerFires)
    /\ WF_vars(SocketData) /\ WF_vars(ImmediateFrames) /\ WF_vars(SocketClose)

-----------------------------------------------------------------------------
(* Properties *)

(***************************************************************************)
(* An open connection in a watched state always has a timer that will end  *)
(* it: no order of state switches, keep_alive packets, data and timers     *)
(* leaves it unwatched (the comment in onState tells of one that did).     *)
(***************************************************************************)
Watching ==
    conn = "open" /\ state \in Watched => {watch.timer, watch.grace} # {Off}

(***************************************************************************)
(* However long callbacks block the loop, a connection only times out when *)
(* nothing was read for interval and grace, and not when data was waiting  *)
(* to be read as grace began, provided no timers phase outlasts the grace; *)
(* and only once until 'end', although data that arrives after it recovers *)
(* from the grace period and arms the watchdog again.                      *)
(***************************************************************************)
AccurateTimeout ==
    [][errors' > errors /\ gracePeriod > MaxTimersBlock
           => /\ idle >= Interval + gracePeriod /\ ~waiting
              /\ conn # "ended" => errors = 0]_vars

(***************************************************************************)
(* A peer that falls silent in a watched state gets its connection ended.  *)
(***************************************************************************)
SilentPeerEnds ==
    \/ []<><<Arrive>>_vars
    \/ <>[](state = "login")
    \/ <>(conn = "ended")
=============================================================================
