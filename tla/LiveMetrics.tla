----------------------------- MODULE LiveMetrics -----------------------------
(* The live dashboard of src/web/components/sections/LiveMetrics.tsx, the    *)
(* overview tab of the admin page.                                           *)
(*                                                                           *)
(* A mount of the component opens a WebSocket to the metrics hub and, as     *)
(* long as it has nothing to show, also polls /metrics.  A socket that       *)
(* closes leaves a timer behind that opens the next one.  Leaving the tab    *)
(* unmounts the component: the timer is cleared and the socket is asked to   *)
(* close, but the close event comes later and leaves a timer all the same,   *)
(* so a mount that is gone can go on opening sockets.                        *)
(*                                                                           *)
(* React keeps a state update apart from the render that commits it: what    *)
(* the handlers set is payload, what the last commit has seen is painted,    *)
(* and effects, the polling among them, are started and stopped by a commit. *)
EXTENDS Naturals

CONSTANTS
    Sockets,    \* WebSocket objects; a closed one stands for a new one
    Polls,      \* requests to /metrics that may be out at once
    MaxMounts,  \* bound: how often the tab is opened
    MaxTick,    \* bound: samples the server takes
    MaxFaults   \* bound: changes of what the server accepts

ASSUME LiveMetricsAssumption ==
    /\ MaxMounts \in Nat \ {0}
    /\ MaxTick \in Nat \ {0}
    /\ MaxFaults \in Nat

VARIABLES
    mounted,    \* the mount on the screen, 0 when another tab is
    mounts,     \* mounts so far
    ready,      \* socket -> its readyState
    owner,      \* socket -> the mount whose connect() made it
    frame,      \* socket -> the sample in the frame on its way, 0 when none
    timer,      \* mount -> whether its reconnectTimer is pending
    poll,       \* request to /metrics -> idle, asked, or answered and with what
    online,     \* the state variable of that name
    payload,    \* the state variable of that name: which sample, from where
    painted,    \* the payload of the last commit
    display,    \* the number an AnimatedCounter shows
    anim,       \* the number its animation starts from, 0 when none runs
    tick,       \* the server's last sample
    wsUp,       \* whether the server accepts and keeps WebSockets
    httpUp,     \* whether it answers GET /metrics
    faults      \* changes of wsUp and httpUp so far

wires == <<ready, owner, frame, timer>>
screen == <<online, payload, painted, display, anim>>
server == <<tick, wsUp, httpUp, faults>>
vars == <<mounted, mounts, wires, poll, screen, server>>

Mount == 1 .. MaxMounts
Tick == 1 .. MaxTick
Idle == [st |-> "idle", at |-> 0]
Asked == [st |-> "asked", at |-> 0]
Nothing == [via |-> "none", at |-> 0]
ReadyState == {"connecting", "open", "closing", "closed"}
Payload == {Nothing} \cup [via : {"ws", "poll"}, at : Tick]

(* The socket a mount holds: wsRef.current until it is closed. *)
Held(m, s) == owner[s] = m /\ ready[s] # "closed"

(* The polling effect is in place from the mount to the first commit that    *)
(* has a payload: the closure of its requests sees payload as null, active.  *)
Polling == mounted # 0 /\ painted = Nothing

(* What the screen says: eight grey boxes, or the header with its light and  *)
(* the cards, and the charts where the numbers came with a series.           *)
Skeleton == mounted # 0 /\ painted = Nothing
Light == IF online THEN "LIVE" ELSE "OFFLINE"
Cards == mounted # 0 /\ painted # Nothing
Charts == mounted # 0 /\ painted.via = "ws"

Init ==
    /\ mounted = 0
    /\ mounts = 0
    /\ ready = [s \in Sockets |-> "closed"]
    /\ owner = [s \in Sockets |-> 0]
    /\ frame = [s \in Sockets |-> 0]
    /\ timer = [m \in Mount |-> FALSE]
    /\ poll = [p \in Polls |-> Idle]
    /\ online = FALSE
    /\ payload = Nothing
    /\ painted = Nothing
    /\ display = 0
    /\ anim = 0
    /\ tick = 1
    /\ wsUp \in BOOLEAN
    /\ httpUp \in BOOLEAN
    /\ faults = 0

-----------------------------------------------------------------------------
(* Connecting *)

(* connect() of mount m: nothing when its socket is connecting or open.      *)
Busy(m) == \E s \in Sockets : owner[s] = m /\ ready[s] \in {"connecting", "open"}

Open(m) ==
    \E s \in Sockets :
        /\ ready[s] = "closed"
        /\ ready' = IF Busy(m) THEN ready ELSE [ready EXCEPT ![s] = "connecting"]
        /\ owner' = IF Busy(m) THEN owner ELSE [owner EXCEPT ![s] = m]

(* The tab is opened: a fresh state, both effects, and their first calls.    *)
MountTab ==
    /\ mounted = 0
    /\ mounts < MaxMounts
    /\ mounts' = mounts + 1
    /\ mounted' = mounts + 1
    /\ Open(mounts + 1)
    /\ \E p \in Polls : poll' = [poll EXCEPT ![p] = Asked]
    /\ UNCHANGED <<frame, timer, screen, server>>

(* The cleanups: clearTimeout and close() of the one effect, active = false  *)
(* and clearInterval of the other.                                           *)
UnmountTab ==
    /\ mounted # 0
    /\ mounted' = 0
    /\ timer' = [timer EXCEPT ![mounted] = FALSE]
    /\ ready' = [s \in Sockets |->
                    IF owner[s] = mounted /\ ready[s] \in {"connecting", "open"}
                    THEN "closing" ELSE ready[s]]
    /\ poll' = [p \in Polls |-> Idle]
    /\ online' = FALSE
    /\ payload' = Nothing
    /\ painted' = Nothing
    /\ display' = 0
    /\ anim' = 0
    /\ UNCHANGED <<mounts, owner, frame, server>>

(* onopen *)
Opened(s) ==
    /\ ready[s] = "connecting"
    /\ wsUp
    /\ ready' = [ready EXCEPT ![s] = "open"]
    /\ online' = IF owner[s] = mounted THEN TRUE ELSE online
    /\ UNCHANGED <<mounted, mounts, owner, frame, timer, poll, payload, painted, display, anim, server>>

(* A slip: onerror reconnects by itself instead of only closing. *)
FailedAndTimed(s) ==
    /\ ready[s] \in {"connecting", "open"}
    /\ ~wsUp
    /\ ready' = [ready EXCEPT ![s] = "closing"]
    /\ timer' = [timer EXCEPT ![owner[s]] = TRUE]
    /\ UNCHANGED <<mounted, mounts, owner, frame, poll, screen, server>>

(* onerror: a refused handshake or a lost connection. *)
Failed(s) ==
    /\ ready[s] \in {"connecting", "open"}
    /\ ~wsUp
    /\ ready' = [ready EXCEPT ![s] = "closing"]
    /\ UNCHANGED <<mounted, mounts, owner, frame, timer, poll, screen, server>>

(* Slips: the light is left on; the next attempt is left to the open tab.    *)
ClosedSilently(s) ==
    /\ ready[s] = "closing"
    /\ ready' = [ready EXCEPT ![s] = "closed"]
    /\ owner' = [owner EXCEPT ![s] = 0]
    /\ frame' = [frame EXCEPT ![s] = 0]
    /\ timer' = [timer EXCEPT ![owner[s]] = TRUE]
    /\ UNCHANGED <<mounted, mounts, poll, screen, server>>

ClosedForGood(s) ==
    /\ ready[s] = "closing"
    /\ ready' = [ready EXCEPT ![s] = "closed"]
    /\ owner' = [owner EXCEPT ![s] = 0]
    /\ frame' = [frame EXCEPT ![s] = 0]
    /\ timer' = [timer EXCEPT ![owner[s]] = online]
    /\ online' = IF owner[s] = mounted THEN FALSE ELSE online
    /\ UNCHANGED <<mounted, mounts, poll, payload, painted, display, anim, server>>

(* onclose, whoever closed the socket and whether or not its mount is left.  *)
Closed(s) ==
    /\ ready[s] = "closing"
    /\ ready' = [ready EXCEPT ![s] = "closed"]
    /\ owner' = [owner EXCEPT ![s] = 0]
    /\ frame' = [frame EXCEPT ![s] = 0]
    /\ timer' = [timer EXCEPT ![owner[s]] = TRUE]
    /\ online' = IF owner[s] = mounted THEN FALSE ELSE online
    /\ UNCHANGED <<mounted, mounts, poll, payload, painted, display, anim, server>>

(* setTimeout(connect, 2000) *)
Reconnect(m) ==
    /\ timer[m]
    /\ timer' = [timer EXCEPT ![m] = FALSE]
    /\ Open(m)
    /\ UNCHANGED <<mounted, mounts, frame, poll, screen, server>>

-----------------------------------------------------------------------------
(* Numbers *)

(* The hub writes its last sample to an open socket; one frame per socket is *)
(* on its way at a time.                                                     *)
HubSends(s) ==
    /\ ready[s] = "open"
    /\ wsUp
    /\ frame[s] = 0
    /\ frame' = [frame EXCEPT ![s] = tick]
    /\ UNCHANGED <<mounted, mounts, ready, owner, timer, poll, screen, server>>

(* onmessage; the browser delivers nothing to a socket that is closing.      *)
Message(s) ==
    /\ ready[s] = "open"
    /\ frame[s] # 0
    /\ frame' = [frame EXCEPT ![s] = 0]
    /\ payload' = IF owner[s] = mounted THEN [via |-> "ws", at |-> frame[s]] ELSE payload
    /\ UNCHANGED <<mounted, mounts, ready, owner, timer, poll, online, painted, display, anim, server>>

(* setInterval(poll, 3000) *)
PollAgain(p) ==
    /\ Polling
    /\ poll[p].st = "idle"
    /\ poll' = [poll EXCEPT ![p] = Asked]
    /\ UNCHANGED <<mounted, mounts, wires, screen, server>>

(* GET /metrics is answered with the counters of the moment.                 *)
PollServed(p) ==
    /\ poll[p].st = "asked"
    /\ httpUp
    /\ poll' = [poll EXCEPT ![p] = [st |-> "answered", at |-> tick]]
    /\ UNCHANGED <<mounted, mounts, wires, screen, server>>

(* A slip: a request that failed is taken for one that is still out. *)
PollFailedHangs(p) ==
    /\ poll[p].st # "idle"
    /\ ~httpUp
    /\ poll' = [poll EXCEPT ![p].st = "failed"]
    /\ UNCHANGED <<mounted, mounts, wires, screen, server>>

(* It fails, or its answer is lost: catch { noop }. *)
PollFailed(p) ==
    /\ poll[p].st # "idle"
    /\ ~httpUp
    /\ poll' = [poll EXCEPT ![p] = Idle]
    /\ UNCHANGED <<mounted, mounts, wires, screen, server>>

(* The answer of an active effect arrives.  Its closure sees payload as null *)
(* until a commit has run the cleanup, so it may replace a payload of the    *)
(* socket that has not been painted.  The answers of an effect that is no    *)
(* longer active are ignored: the cleanup takes them out of poll.            *)
PollAnswered(p) ==
    /\ poll[p].st = "answered"
    /\ poll' = [poll EXCEPT ![p] = Idle]
    /\ payload' = [via |-> "poll", at |-> poll[p].at]
    /\ online' = TRUE
    /\ UNCHANGED <<mounted, mounts, wires, painted, display, anim, server>>

(* Slips: a change during an animation ends it and starts none; requests     *)
(* that outlive their effect.                                                *)
CommitCancels ==
    /\ mounted # 0
    /\ painted # payload
    /\ painted' = payload
    /\ display' = IF painted = Nothing THEN payload.at ELSE display
    /\ anim' = IF painted = Nothing \/ painted.at = payload.at THEN anim
               ELSE IF anim = 0 THEN painted.at ELSE 0
    /\ poll' = [p \in Polls |-> Idle]
    /\ UNCHANGED <<mounted, mounts, wires, online, payload, server>>

CommitKeepsPolls ==
    /\ mounted # 0
    /\ painted # payload
    /\ painted' = payload
    /\ display' = IF painted = Nothing THEN payload.at ELSE display
    /\ anim' = IF painted = Nothing \/ painted.at = payload.at THEN anim ELSE painted.at
    /\ UNCHANGED <<mounted, mounts, wires, poll, online, payload, server>>

(* A render with the last payload is committed.  The first one ends the      *)
(* polling effect and mounts the counters at their value; a later one starts *)
(* the animation of a counter whose value has changed, from the value of the *)
(* commit before, in the place of the one that may be running.               *)
Commit ==
    /\ mounted # 0
    /\ painted # payload
    /\ painted' = payload
    /\ display' = IF painted = Nothing THEN payload.at ELSE display
    /\ anim' = IF painted = Nothing \/ painted.at = payload.at THEN anim ELSE painted.at
    /\ poll' = [p \in Polls |-> Idle]
    /\ UNCHANGED <<mounted, mounts, wires, online, payload, server>>

Between(a, b) == (a .. b) \cup (b .. a)

(* A frame of the animation: somewhere on the way, or the end of it.         *)
AnimationFrame ==
    /\ anim # 0
    /\ \/ display' \in Between(anim, painted.at) /\ anim' = anim
       \/ display' = painted.at /\ anim' = 0
    /\ UNCHANGED <<mounted, mounts, wires, poll, online, payload, painted, server>>

-----------------------------------------------------------------------------
(* The server *)

Sample ==
    /\ tick < MaxTick
    /\ tick' = tick + 1
    /\ UNCHANGED <<mounted, mounts, wires, poll, screen, wsUp, httpUp, faults>>

Turn ==
    /\ faults < MaxFaults
    /\ faults' = faults + 1
    /\ \/ wsUp' = ~wsUp /\ UNCHANGED httpUp
       \/ httpUp' = ~httpUp /\ UNCHANGED wsUp
    /\ UNCHANGED <<mounted, mounts, wires, poll, screen, tick>>

Next ==
    \/ MountTab \/ UnmountTab
    \/ \E s \in Sockets : Opened(s) \/ Failed(s) \/ Closed(s) \/ HubSends(s) \/ Message(s)
    \/ \E m \in Mount : Reconnect(m)
    \/ \E p \in Polls : PollAgain(p) \/ PollServed(p) \/ PollFailed(p) \/ PollAnswered(p)
    \/ Commit \/ AnimationFrame
    \/ Sample \/ Turn

Spec == Init /\ [][Next]_vars

(* Fair are the browser's own events: timers, socket events, answers, frames *)
(* of an animation and commits; and the hub, which writes once a second.     *)
(* Opening and leaving the tab, samples and outages are not.  The end of an  *)
(* animation is a matter of time, not of how often a frame falls short.      *)
Fairness ==
    /\ \A s \in Sockets : /\ WF_vars(Opened(s)) /\ WF_vars(Failed(s))
                          /\ WF_vars(Closed(s))
                          /\ WF_vars(HubSends(s)) /\ WF_vars(Message(s))
    /\ \A m \in Mount : WF_vars(Reconnect(m))
    /\ \A p \in Polls : /\ WF_vars(PollAgain(p)) /\ WF_vars(PollServed(p))
                        /\ WF_vars(PollFailed(p)) /\ WF_vars(PollAnswered(p))
    /\ WF_vars(Commit)
    /\ WF_vars(AnimationFrame /\ anim' = 0)

FairSpec == Spec /\ Fairness

-----------------------------------------------------------------------------
(* Properties *)

TypeOK ==
    /\ mounts \in 0 .. MaxMounts
    /\ mounted \in {0, mounts}
    /\ ready \in [Sockets -> ReadyState]
    /\ owner \in [Sockets -> 0 .. mounts]
    /\ frame \in [Sockets -> 0 .. tick]
    /\ timer \in [Mount -> BOOLEAN]
    /\ poll \in [Polls -> {Idle, Asked} \cup [st : {"answered"}, at : 1 .. tick]]
    /\ online \in BOOLEAN
    /\ payload \in {Nothing} \cup [via : {"ws", "poll"}, at : 1 .. tick]
    /\ painted \in {Nothing} \cup [via : {"ws", "poll"}, at : 1 .. tick]
    /\ display \in 0 .. tick
    /\ anim \in 0 .. tick
    /\ tick \in Tick
    /\ wsUp \in BOOLEAN
    /\ httpUp \in BOOLEAN
    /\ faults \in 0 .. MaxFaults

(* A chain of reconnections never forks: a mount, on the screen or left, has *)
(* at most one socket that is not closed, and while its timer is pending it  *)
(* has none, so that connect() cannot open a second one (lines 213-238).     *)
ChainNeverForks ==
    \A m \in Mount :
        /\ \A s, t \in Sockets : Held(m, s) /\ Held(m, t) => s = t
        /\ timer[m] => \A s \in Sockets : ~Held(m, s)

(* The mount on the screen never gives up: at every moment it has a socket   *)
(* that is not closed yet, or a timer that will open one.                    *)
NeverGivesUp ==
    mounted # 0 => timer[mounted] \/ \E s \in Sockets : Held(mounted, s)

(* What the light may be trusted for: when it says LIVE over numbers of the  *)
(* socket, the socket is open or its close event is still to come.  Over     *)
(* numbers of the fallback it says so without any socket, for poll() sets    *)
(* online too (line 260), and nothing turns it off before a close event.     *)
LightIsTrueOfSocketNumbers ==
    Light = "LIVE" /\ payload.via = "ws" =>
        \E s \in Sockets : Held(mounted, s) /\ ready[s] \in {"open", "closing"}

(* Once the screen shows numbers of the socket, neither a late answer of     *)
(* /metrics nor a reconnection takes the charts away or brings an older      *)
(* sample back, until the tab is left.  (Numbers of the fallback may be      *)
(* followed by an older frame that was on its way.)  Lines 248-267, 335.     *)
NumbersNeverGoBack ==
    [][Charts /\ mounted' # 0 => Charts' /\ painted'.at >= painted.at]_screen

(* The tab stays open and the server accepts WebSockets: the light is on for *)
(* good, whatever happened before (timer and connect(), lines 232-237).      *)
Reconnects ==
    <>[](mounted # 0 /\ wsUp) => <>[](Light = "LIVE")

(* The tab stays open and the server answers /metrics: the grey boxes go,    *)
(* with or without a socket (the fallback of lines 248-267).                 *)
NumbersAppear ==
    <>[](mounted # 0 /\ httpUp) => <>[]~Skeleton

(* A counter that is interrupted in its animation, as often as you like,     *)
(* shows its value in the end (AnimatedCounter, lines 83-106).               *)
CounterCatchesUp ==
    Cards ~> (~Cards \/ display = painted.at)
==============================================================================
