----------------------------- MODULE MetricsHub ------------------------------
(* The WebSocket hub of src/dns/internal/metrics/metrics.go, the sampler     *)
(* that wakes it and the handler of /ws/metrics in                           *)
(* src/dns/internal/api/api.go.                                              *)
(*                                                                           *)
(* One goroutine, the hub, owns the map of clients and serves three          *)
(* channels: registrations, unregistrations and the sampler's wake-ups.      *)
(* Every connection has a handler goroutine that registers its client, sends *)
(* what it finds in the client's channel to the browser, and unregisters the *)
(* client when it returns, for whatever reason.  The hub closes the client's *)
(* channel when it handles the unregistration, and also when it drops a slow *)
(* client.  Sending on a closed channel and closing it again both panic, and *)
(* nobody recovers a panic of the hub: the process ends, DNS server included.*)
EXTENDS Naturals, Sequences, FiniteSets

CONSTANTS
    Client,     \* the connections, each with its own handler and channel
    ChanCap,    \* capacity of registerCh and of unregisterCh
    SendCap     \* capacity of a client's send channel

ASSUME MetricsHubAssumption ==
    /\ ChanCap \in Nat \ {0}
    /\ SendCap \in Nat \ {0}

VARIABLES
    registerCh,     \* clients waiting to be registered
    unregisterCh,   \* clients waiting to be unregistered
    broadcastCh,    \* whether a wake-up is waiting
    sampler,        \* "idle", or "sending": blocked on a full broadcastCh
    handler,        \* client -> place of its handler
    left,           \* client -> whether its peer is gone (done is closed)
    clients,        \* the hub's map
    queue,          \* client -> number of payloads in its send channel
    closed,         \* client -> whether its send channel is closed
    panicked,       \* "no", "send" (on a closed channel) or "close" (of one)
    dropped,        \* history: clients closed by a broadcast as too slow
    overtaken       \* history: clients whose unregistration the hub took from
                    \* its channel while the registration was in the other

handlers == <<handler, left>>
hub      == <<clients, queue, closed, panicked, dropped, overtaken>>
vars     == <<registerCh, unregisterCh, broadcastCh, sampler, handlers, hub>>

(* Where a handler is: not connected; sending to registerCh; writing the     *)
(* first payload; waiting for a payload, a closed channel or a peer that is  *)
(* gone; writing a payload; sending to unregisterCh (the deferred call);     *)
(* returned.                                                                 *)
Place == {"new", "registering", "greeting", "waiting", "writing", "unregistering", "returned"}

Waiting(s) == {s[i] : i \in 1 .. Len(s)}

Init ==
    /\ registerCh = <<>>
    /\ unregisterCh = <<>>
    /\ broadcastCh = FALSE
    /\ sampler = "idle"
    /\ handler = [c \in Client |-> "new"]
    /\ left = [c \in Client |-> FALSE]
    /\ clients = {}
    /\ queue = [c \in Client |-> 0]
    /\ closed = [c \in Client |-> FALSE]
    /\ panicked = "no"
    /\ dropped = {}
    /\ overtaken = {}

Running == panicked = "no"

Goto(c, from, to) ==
    /\ Running
    /\ handler[c] = from
    /\ handler' = [handler EXCEPT ![c] = to]

------------------------------------------------------------------------------
(* The handler of one connection.                                            *)

Connect(c) ==
    /\ Goto(c, "new", "registering")
    /\ UNCHANGED <<registerCh, unregisterCh, broadcastCh, sampler, left, hub>>

(* metrics.Register blocks while the channel is full. *)
Register(c) ==
    /\ Goto(c, "registering", "greeting")
    /\ Len(registerCh) < ChanCap
    /\ registerCh' = Append(registerCh, c)
    /\ UNCHANGED <<unregisterCh, broadcastCh, sampler, left, hub>>

(* The first payload is written without looking at the error. *)
Greet(c) ==
    /\ Goto(c, "greeting", "waiting")
    /\ UNCHANGED <<registerCh, unregisterCh, broadcastCh, sampler, left, hub>>

(* The reader goroutine sees an error and closes done. *)
PeerLeaves(c) ==
    /\ Running
    /\ handler[c] \in {"waiting", "writing"}
    /\ ~left[c]
    /\ left' = [left EXCEPT ![c] = TRUE]
    /\ UNCHANGED <<registerCh, unregisterCh, broadcastCh, sampler, handler, hub>>

Take(c) ==
    /\ Goto(c, "waiting", "writing")
    /\ queue[c] > 0
    /\ queue' = [queue EXCEPT ![c] = @ - 1]
    /\ UNCHANGED <<registerCh, unregisterCh, broadcastCh, sampler, left,
                   clients, closed, panicked, dropped, overtaken>>

(* A write takes as long as the peer lets it, and may fail. *)
Write(c) ==
    /\ \/ Goto(c, "writing", "waiting")
       \/ Goto(c, "writing", "unregistering")
    /\ UNCHANGED <<registerCh, unregisterCh, broadcastCh, sampler, left, hub>>

(* A slip: the loop does not look at done. *)
LeaveWhenClosed(c) ==
    /\ Goto(c, "waiting", "unregistering")
    /\ closed[c] /\ queue[c] = 0
    /\ UNCHANGED <<registerCh, unregisterCh, broadcastCh, sampler, left, hub>>

(* A closed channel is noticed once it is drained; a peer that is gone, at   *)
(* any turn of the loop.                                                     *)
Leave(c) ==
    /\ Goto(c, "waiting", "unregistering")
    /\ left[c] \/ (closed[c] /\ queue[c] = 0)
    /\ UNCHANGED <<registerCh, unregisterCh, broadcastCh, sampler, left, hub>>

(* A slip: a return path that unregisters on its own, besides the defer. *)
UnregisterTwice(c) ==
    /\ \/ Goto(c, "unregistering", "returned")
       \/ Goto(c, "unregistering", "unregistering")
    /\ Len(unregisterCh) < ChanCap
    /\ unregisterCh' = Append(unregisterCh, c)
    /\ UNCHANGED <<registerCh, broadcastCh, sampler, left, hub>>

(* The deferred metrics.Unregister, whatever made the handler return. *)
Unregister(c) ==
    /\ Goto(c, "unregistering", "returned")
    /\ Len(unregisterCh) < ChanCap
    /\ unregisterCh' = Append(unregisterCh, c)
    /\ UNCHANGED <<registerCh, broadcastCh, sampler, left, hub>>

------------------------------------------------------------------------------
(* The sampler: one wake-up per sample, sent with a blocking send.           *)

Sample ==
    /\ Running
    /\ sampler = "idle"
    /\ sampler' = "sending"
    /\ UNCHANGED <<registerCh, unregisterCh, broadcastCh, handlers, hub>>

Wake ==
    /\ Running
    /\ sampler = "sending"
    /\ ~broadcastCh
    /\ broadcastCh' = TRUE
    /\ sampler' = "idle"
    /\ UNCHANGED <<registerCh, unregisterCh, handlers, hub>>

------------------------------------------------------------------------------
(* The hub: a select over the three channels, in no order of preference.     *)

HubRegister ==
    /\ Running
    /\ registerCh # <<>>
    /\ registerCh' = Tail(registerCh)
    /\ clients' = clients \cup {Head(registerCh)}
    /\ UNCHANGED <<unregisterCh, broadcastCh, sampler, handlers, queue, closed,
                   panicked, dropped, overtaken>>

(* close(c.send) is not conditional on c being in the map. *)
HubUnregister ==
    /\ Running
    /\ unregisterCh # <<>>
    /\ unregisterCh' = Tail(unregisterCh)
    /\ LET c == Head(unregisterCh)
       IN  /\ clients' = clients \ {c}
           /\ closed' = [closed EXCEPT ![c] = TRUE]
           /\ panicked' = IF closed[c] THEN "close" ELSE panicked
           /\ overtaken' = IF c \in Waiting(registerCh) THEN overtaken \cup {c} ELSE overtaken
    /\ UNCHANGED <<registerCh, broadcastCh, sampler, handlers, queue, dropped>>

(* Slips: the payload is sent without a look at the room there is, or only   *)
(* when there are two clients.                                               *)
HubBroadcastUnchecked ==
    /\ Running
    /\ broadcastCh
    /\ broadcastCh' = FALSE
    /\ queue' = [c \in Client |-> IF c \in clients THEN queue[c] + 1 ELSE queue[c]]
    /\ UNCHANGED <<registerCh, unregisterCh, sampler, handlers, clients, closed,
                   panicked, dropped, overtaken>>

HubBroadcastToTwo ==
    /\ Running
    /\ broadcastCh
    /\ broadcastCh' = FALSE
    /\ queue' = [c \in Client |->
                    IF /\ Cardinality(clients) > 1
                       /\ c \in clients
                       /\ queue[c] < SendCap
                    THEN queue[c] + 1 ELSE queue[c]]
    /\ UNCHANGED <<registerCh, unregisterCh, sampler, handlers, clients, closed,
                   panicked, dropped, overtaken>>

(* A payload for every client of the map, without waiting: a client whose    *)
(* channel is full is dropped and its channel closed.  Reaching a client     *)
(* whose channel is closed already panics.  The handlers that take payloads  *)
(* meanwhile could as well have done so before or after.                     *)
HubBroadcast ==
    /\ Running
    /\ broadcastCh
    /\ broadcastCh' = FALSE
    /\ LET dead == {c \in clients : closed[c]}
           slow == {c \in clients : ~closed[c] /\ queue[c] = SendCap}
       IN  IF dead # {}
           THEN /\ panicked' = "send"
                /\ UNCHANGED <<clients, queue, closed, dropped>>
           ELSE /\ clients' = clients \ slow
                /\ queue' = [c \in Client |->
                                IF c \in clients \ slow THEN queue[c] + 1 ELSE queue[c]]
                /\ closed' = [c \in Client |-> closed[c] \/ c \in slow]
                /\ dropped' = dropped \cup slow
                /\ UNCHANGED panicked
    /\ UNCHANGED <<registerCh, unregisterCh, sampler, handlers, overtaken>>

(* What the hub goroutine does. *)
Hub == HubRegister \/ HubUnregister \/ HubBroadcast

Handler(c) ==
    \/ Connect(c) \/ Register(c) \/ Greet(c) \/ PeerLeaves(c) \/ Take(c) \/ Write(c)
    \/ Leave(c) \/ Unregister(c)

Next ==
    \/ Sample \/ Wake \/ Hub
    \/ \E c \in Client : Handler(c)

Spec == Init /\ [][Next]_vars

(* Go schedules the hub and the sampler; the select of the hub chooses among *)
(* the ready channels at random, so it takes each of them again and again; a *)
(* handler blocked on a channel goes on when there is room, and one with a   *)
(* payload or a reason to leave acts on it; a write to a peer that is gone   *)
(* ends.  Nothing makes a peer connect, read or leave.                       *)
WriteToGone(c) == left[c] /\ Write(c)

Fairness ==
    /\ WF_vars(Sample) /\ WF_vars(Wake)
    /\ SF_vars(HubRegister) /\ SF_vars(HubUnregister) /\ SF_vars(HubBroadcast)
    /\ \A c \in Client :
          /\ SF_vars(Register(c)) /\ WF_vars(Greet(c)) /\ SF_vars(Leave(c))
          /\ WF_vars(Take(c) \/ Leave(c)) /\ WF_vars(WriteToGone(c)) /\ SF_vars(Unregister(c))

FairSpec == Spec /\ Fairness

------------------------------------------------------------------------------
(* Properties.                                                               *)

(* Every variable has its type; no channel holds more than its capacity. *)
TypeOK ==
    /\ registerCh \in Seq(Client) /\ Len(registerCh) <= ChanCap
    /\ unregisterCh \in Seq(Client) /\ Len(unregisterCh) <= ChanCap
    /\ broadcastCh \in BOOLEAN
    /\ sampler \in {"idle", "sending"}
    /\ handler \in [Client -> Place]
    /\ left \in [Client -> BOOLEAN]
    /\ clients \in SUBSET Client
    /\ queue \in [Client -> 0 .. SendCap]
    /\ closed \in [Client -> BOOLEAN]
    /\ panicked \in {"no", "send", "close"}
    /\ dropped \in SUBSET Client
    /\ overtaken \in SUBSET Client

(* The hub never panics by itself: it closes a channel twice only after it   *)
(* dropped a client as too slow, and sends on a closed channel only after it *)
(* took an unregistration before the registration of the same client.        *)
PanicExplained ==
    /\ panicked = "close" => \E c \in dropped : handler[c] = "returned"
    /\ panicked = "send" => \E c \in overtaken : handler[c] = "returned"

(* A handler that waits for a payload gets one, or is told to leave: a       *)
(* registration is not lost between the channel, the map and the broadcast.  *)
WaitingIsServed ==
    \A c \in Client : handler[c] = "waiting" ~> (handler[c] # "waiting" \/ ~Running)

(* When the peer is gone, the handler returns and the hub forgets the client.*)
PeerGoneIsForgotten ==
    \A c \in Client :
        left[c] ~> ((handler[c] = "returned" /\ c \notin clients) \/ ~Running)

(* metrics.go:402, "slow client - drop & disconnect": a client that does not *)
(* keep up is disconnected, the others and the process are not affected.     *)
SlowClientIsOnlyDropped == panicked # "close"
==============================================================================
