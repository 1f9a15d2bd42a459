-------------------------- MODULE MetricsHubProofs ---------------------------
(* Proofs about MetricsHub for every set of clients and every capacity of    *)
(* the channels.                                                             *)
EXTENDS MetricsHub, TLAPS

------------------------------------------------------------------------------
(* The inductive invariant.                                                  *)

Distinct(s) == \A i, j \in 1 .. Len(s) : s[i] = s[j] => i = j

(* A client that has not registered is known to nobody. *)
UnknownBefore(c) ==
    handler[c] \in {"new", "registering"} =>
        c \notin Waiting(registerCh) /\ c \notin clients /\ ~closed[c]

(* It enters the map once: while it waits for that, it was not in it.        *)
RegisteredOnce(c) ==
    c \in Waiting(registerCh) => c \notin clients /\ c \notin dropped

(* It unregisters once, at the very end of its handler: while that is under  *)
(* way, only a broadcast can have closed its channel.                        *)
UnregisteredOnce(c) ==
    c \in Waiting(unregisterCh) =>
        handler[c] = "returned" /\ (closed[c] => c \in dropped)

(* Who closed a channel, and how a closed one can still be in the map. *)
ClosedExplained(c) ==
    /\ c \in dropped => closed[c]
    /\ closed[c] => c \in dropped \/ handler[c] = "returned"
    /\ closed[c] /\ c \in clients \cup Waiting(registerCh) => c \in overtaken
    /\ c \in overtaken => handler[c] = "returned"

Once ==
    /\ Distinct(registerCh)
    /\ Distinct(unregisterCh)
    /\ \A c \in Client :
          UnknownBefore(c) /\ RegisteredOnce(c) /\ UnregisteredOnce(c) /\ ClosedExplained(c)

HubInv == TypeOK /\ Once /\ PanicExplained

------------------------------------------------------------------------------
(* Channels.                                                                 *)

(* Sending a client that is not in a channel. *)
LEMMA ChannelSend ==
    ASSUME NEW s \in Seq(Client), NEW c \in Client
    PROVE  /\ Append(s, c) \in Seq(Client)
           /\ Len(Append(s, c)) = Len(s) + 1
           /\ Waiting(Append(s, c)) = Waiting(s) \cup {c}
           /\ Distinct(s) /\ c \notin Waiting(s) => Distinct(Append(s, c))
<1>1. /\ Append(s, c) \in Seq(Client)
      /\ Len(Append(s, c)) = Len(s) + 1
      /\ Len(s) \in Nat
      /\ \A i \in 1 .. Len(s) : Append(s, c)[i] = s[i]
      /\ Append(s, c)[Len(s) + 1] = c
  OBVIOUS
<1>2. Waiting(Append(s, c)) = Waiting(s) \cup {c}
  BY <1>1 DEF Waiting
<1>3. ASSUME Distinct(s), c \notin Waiting(s),
             NEW i \in 1 .. Len(s) + 1, NEW j \in 1 .. Len(s) + 1,
             Append(s, c)[i] = Append(s, c)[j]
      PROVE  i = j
  <2>1. \A k \in 1 .. Len(s) : s[k] # c
    BY <1>3 DEF Waiting
  <2> QED
    BY <1>1, <1>3, <2>1 DEF Distinct
<1> QED
  BY <1>1, <1>2, <1>3 DEF Distinct

(* Receiving takes out the head, and nothing but the head. *)
LEMMA ChannelReceive ==
    ASSUME NEW s \in Seq(Client), s # <<>>
    PROVE  /\ Tail(s) \in Seq(Client)
           /\ Len(Tail(s)) <= Len(s)
           /\ Head(s) \in Client
           /\ Head(s) \in Waiting(s)
           /\ Distinct(s) => Distinct(Tail(s)) /\ Waiting(Tail(s)) = Waiting(s) \ {Head(s)}
<1>1. /\ Tail(s) \in Seq(Client)
      /\ Len(s) \in Nat /\ Len(s) > 0
      /\ Len(Tail(s)) = Len(s) - 1
      /\ Head(s) = s[1] /\ s[1] \in Client
      /\ \A i \in 1 .. Len(s) - 1 : Tail(s)[i] = s[i + 1]
  OBVIOUS
<1>2. Head(s) \in Waiting(s)
  BY <1>1 DEF Waiting
<1>3. ASSUME Distinct(s) PROVE Distinct(Tail(s))
  BY <1>1, <1>3 DEF Distinct
<1>4. ASSUME Distinct(s) PROVE Waiting(Tail(s)) = Waiting(s) \ {Head(s)}
  <2>1. Waiting(Tail(s)) \subseteq Waiting(s) \ {Head(s)}
    BY <1>1, <1>4 DEF Distinct, Waiting
  <2>2. ASSUME NEW i \in 1 .. Len(s), s[i] # Head(s) PROVE s[i] \in Waiting(Tail(s))
    <3>1. i # 1 /\ i - 1 \in 1 .. Len(s) - 1 /\ Tail(s)[i - 1] = s[i]
      BY <1>1, <2>2
    <3> QED
      BY <1>1, <3>1 DEF Waiting
  <2> QED
    BY <2>1, <2>2 DEF Waiting
<1> QED
  BY <1>1, <1>2, <1>3, <1>4

(* Nobody waits in an empty channel. *)
LEMMA ChannelEmpty == <<>> \in Seq(Client) /\ Waiting(<<>>) = {} /\ Distinct(<<>>) /\ Len(<<>>) = 0
BY DEF Waiting, Distinct

------------------------------------------------------------------------------
(* Type correctness.                                                         *)

(* The handler moves between places. *)
LEMMA GotoType ==
    ASSUME TypeOK, NEW c \in Client, NEW from \in Place, NEW to \in Place, Goto(c, from, to)
    PROVE  /\ handler' \in [Client -> Place]
           /\ handler[c] = from /\ handler'[c] = to
           /\ \A d \in Client : d # c => handler'[d] = handler[d]
BY DEF Goto, TypeOK

(* The empty hub is well typed. *)
LEMMA HubInitType == Init => TypeOK
<1> SUFFICES ASSUME Init PROVE TypeOK
  OBVIOUS
<1>1. 0 \in 0 .. SendCap /\ 0 <= ChanCap
  BY MetricsHubAssumption
<1> QED
  BY <1>1, ChannelEmpty DEF Init, TypeOK, Place

(* A step of a handler keeps the types: it waits for room before it sends. *)
LEMMA HandlerType ==
    ASSUME TypeOK, NEW c \in Client, Handler(c)
    PROVE  TypeOK'
<1> USE MetricsHubAssumption DEF Place
<1>1. CASE Connect(c)
  BY <1>1, GotoType DEF Connect, TypeOK, hub
<1>2. CASE Register(c)
  <2>1. registerCh' \in Seq(Client) /\ Len(registerCh') <= ChanCap
    BY <1>2, ChannelSend DEF Register, TypeOK
  <2> QED
    BY <1>2, <2>1, GotoType DEF Register, TypeOK, hub
<1>3. CASE Greet(c)
  BY <1>3, GotoType DEF Greet, TypeOK, hub
<1>4. CASE PeerLeaves(c)
  BY <1>4 DEF PeerLeaves, TypeOK, hub
<1>5. CASE Take(c)
  <2>1. queue' \in [Client -> 0 .. SendCap]
    BY <1>5 DEF Take, TypeOK
  <2> QED
    BY <1>5, <2>1, GotoType DEF Take, TypeOK
<1>6. CASE Write(c)
  BY <1>6, GotoType DEF Write, TypeOK, hub
<1>7. CASE Leave(c)
  BY <1>7, GotoType DEF Leave, TypeOK, hub
<1>8. CASE Unregister(c)
  <2>1. unregisterCh' \in Seq(Client) /\ Len(unregisterCh') <= ChanCap
    BY <1>8, ChannelSend DEF Unregister, TypeOK
  <2> QED
    BY <1>8, <2>1, GotoType DEF Unregister, TypeOK, hub
<1> QED
  BY <1>1, <1>2, <1>3, <1>4, <1>5, <1>6, <1>7, <1>8 DEF Handler

(* What a broadcast does when no client of the map has a closed channel. *)
BroadcastStep(slow) ==
    /\ \A c \in clients : c \in slow <=> queue[c] = SendCap
    /\ clients' = clients \ slow
    /\ queue' = [c \in Client |-> IF c \in clients \ slow THEN queue[c] + 1 ELSE queue[c]]
    /\ closed' = [c \in Client |-> closed[c] \/ c \in slow]
    /\ dropped' = dropped \cup slow
    /\ panicked' = panicked

(* A closed channel in the map ends the process ... *)
LEMMA BroadcastPanics ==
    ASSUME HubBroadcast, \E c \in clients : closed[c]
    PROVE  panicked' = "send" /\ UNCHANGED <<clients, queue, closed, dropped>>
<1>1. {c \in clients : closed[c]} # {}
  OBVIOUS
<1> QED
  BY <1>1 DEF HubBroadcast

(* ... otherwise the full ones are dropped and the others get the payload. *)
LEMMA BroadcastDelivers ==
    ASSUME HubBroadcast, \A c \in clients : ~closed[c]
    PROVE  \E slow \in SUBSET clients : BroadcastStep(slow)
<1> DEFINE slow == {c \in clients : ~closed[c] /\ queue[c] = SendCap}
<1>1. {c \in clients : closed[c]} = {}
  OBVIOUS
<1>2. BroadcastStep(slow)
  BY <1>1 DEF HubBroadcast, BroadcastStep
<1> QED
  BY <1>2

(* A step of the hub keeps the types: a broadcast looks at the room there is.*)
LEMMA HubType ==
    ASSUME TypeOK, Hub
    PROVE  TypeOK'
<1> USE MetricsHubAssumption
<1>1. CASE HubRegister
  <2>1. registerCh' \in Seq(Client) /\ Len(registerCh') <= ChanCap /\ Head(registerCh) \in Client
    BY <1>1, ChannelReceive DEF HubRegister, TypeOK
  <2> QED
    BY <1>1, <2>1 DEF HubRegister, TypeOK, handlers
<1>2. CASE HubUnregister
  <2>1. unregisterCh' \in Seq(Client) /\ Len(unregisterCh') <= ChanCap
    BY <1>2, ChannelReceive DEF HubUnregister, TypeOK
  <2>2. Head(unregisterCh) \in Client
    BY <1>2, ChannelReceive DEF HubUnregister, TypeOK
  <2> QED
    BY <1>2, <2>1, <2>2 DEF HubUnregister, TypeOK, handlers
<1>3. CASE HubBroadcast
  <2>1. CASE \E c \in clients : closed[c]
    BY <1>3, <2>1, BroadcastPanics DEF TypeOK, HubBroadcast, handlers
  <2>2. CASE \A c \in clients : ~closed[c]
    <3>1. PICK slow \in SUBSET clients : BroadcastStep(slow)
      BY <1>3, <2>2, BroadcastDelivers
    <3>2. queue' \in [Client -> 0 .. SendCap]
      <4>1. \A c \in Client : queue[c] \in 0 .. SendCap
        BY DEF TypeOK
      <4>2. \A c \in clients \ slow : queue[c] + 1 \in 0 .. SendCap
        BY <3>1, <4>1 DEF BroadcastStep, TypeOK
      <4> QED
        BY <3>1, <4>1, <4>2 DEF BroadcastStep
    <3>3. closed' \in [Client -> BOOLEAN]
      <4>1. \A c \in Client : (closed[c] \/ c \in slow) \in BOOLEAN
        OBVIOUS
      <4> QED
        BY <3>1, <4>1 DEF BroadcastStep
    <3> QED
      BY <1>3, <3>1, <3>2, <3>3 DEF BroadcastStep, HubBroadcast, TypeOK, handlers
  <2> QED
    BY <2>1, <2>2
<1> QED
  BY <1>1, <1>2, <1>3 DEF Hub

(* Every step keeps the types. *)
LEMMA HubNextType == TypeOK /\ [Next]_vars => TypeOK'
<1> SUFFICES ASSUME TypeOK, [Next]_vars PROVE TypeOK'
  OBVIOUS
<1>1. CASE Sample
  BY <1>1 DEF Sample, TypeOK, handlers, hub
<1>2. CASE Wake
  BY <1>2 DEF Wake, TypeOK, handlers, hub
<1>3. CASE UNCHANGED vars
  BY <1>3 DEF vars, TypeOK, handlers, hub
<1> QED
  BY <1>1, <1>2, <1>3, HubType, HandlerType DEF Next

(* No channel ever holds more than its capacity, and every variable keeps    *)
(* its type, for any number of clients.                                      *)
THEOREM HubTypeCorrect == Spec => []TypeOK
BY HubInitType, HubNextType, PTL DEF Spec

------------------------------------------------------------------------------
(* Each client is registered, and unregistered, once.                        *)

(* At the start nobody is registered. *)
LEMMA HubInitOnce == Init => HubInv
<1> SUFFICES ASSUME Init PROVE HubInv
  OBVIOUS
<1>1. Once
  BY ChannelEmpty DEF Init, Once, UnknownBefore, RegisteredOnce, UnregisteredOnce, ClosedExplained
<1>2. PanicExplained
  BY DEF Init, PanicExplained
<1> QED
  BY <1>1, <1>2, HubInitType DEF HubInv

(* A step that only moves handlers, forwards, disturbs nothing. *)
LEMMA HandlerFrame ==
    ASSUME HubInv,
           UNCHANGED <<registerCh, unregisterCh, clients, closed, panicked, dropped, overtaken>>,
           \A d \in Client : /\ handler'[d] \in {"new", "registering"}
                                    => handler[d] \in {"new", "registering"}
                             /\ handler[d] = "returned" => handler'[d] = "returned"
    PROVE  Once' /\ PanicExplained'
<1>1. ASSUME NEW d \in Client
      PROVE  (UnknownBefore(d) /\ RegisteredOnce(d) /\ UnregisteredOnce(d) /\ ClosedExplained(d))'
  BY <1>1 DEF HubInv, Once, UnknownBefore, RegisteredOnce, UnregisteredOnce, ClosedExplained, Waiting
<1>2. PanicExplained'
  BY DEF HubInv, PanicExplained, TypeOK
<1> QED
  BY <1>1, <1>2 DEF HubInv, Once, Distinct

(* A handler sends its client to registerCh once ... *)
LEMMA RegisterOnce ==
    ASSUME HubInv, NEW c \in Client, Register(c)
    PROVE  Once' /\ PanicExplained'
<1>1. /\ handler[c] = "registering" /\ handler'[c] = "greeting"
      /\ \A d \in Client : d # c => handler'[d] = handler[d]
      /\ UNCHANGED <<unregisterCh, clients, closed, panicked, dropped, overtaken>>
  BY GotoType DEF Register, HubInv, hub, Place
<1>2. UnknownBefore(c) /\ ClosedExplained(c) /\ UnregisteredOnce(c)
  BY DEF HubInv, Once
<1>3. c \notin Waiting(registerCh) /\ c \notin clients /\ ~closed[c] /\ c \notin dropped
  BY <1>1, <1>2 DEF UnknownBefore, ClosedExplained
<1>4. Waiting(registerCh') = Waiting(registerCh) \cup {c} /\ Distinct(registerCh')
  BY <1>3, ChannelSend DEF Register, HubInv, TypeOK, Once
<1>5. Waiting(registerCh)' = Waiting(registerCh) \cup {c} /\ Waiting(unregisterCh)' = Waiting(unregisterCh)
  BY <1>1, <1>4 DEF Waiting
<1>6. ASSUME NEW d \in Client
      PROVE  (UnknownBefore(d) /\ RegisteredOnce(d) /\ UnregisteredOnce(d) /\ ClosedExplained(d))'
  <2>1. UnknownBefore(d) /\ RegisteredOnce(d) /\ UnregisteredOnce(d) /\ ClosedExplained(d)
    BY DEF HubInv, Once
  <2>2. CASE d = c
    BY <1>1, <1>2, <1>3, <1>5, <2>2
       DEF UnknownBefore, RegisteredOnce, UnregisteredOnce, ClosedExplained
  <2>3. CASE d # c
    BY <1>1, <1>5, <2>1, <2>3
       DEF UnknownBefore, RegisteredOnce, UnregisteredOnce, ClosedExplained
  <2> QED
    BY <2>2, <2>3
<1>7. PanicExplained'
  BY <1>1 DEF HubInv, PanicExplained, TypeOK
<1>8. Distinct(unregisterCh)' /\ Distinct(registerCh)'
  BY <1>1, <1>4 DEF HubInv, Once, Distinct
<1> QED
  BY <1>6, <1>7, <1>8 DEF Once

(* ... and to unregisterCh once: it returns with that. *)
LEMMA UnregisterOnce ==
    ASSUME HubInv, NEW c \in Client, Unregister(c)
    PROVE  Once' /\ PanicExplained'
<1>1. /\ handler[c] = "unregistering" /\ handler'[c] = "returned"
      /\ \A d \in Client : d # c => handler'[d] = handler[d]
      /\ UNCHANGED <<registerCh, clients, closed, panicked, dropped, overtaken>>
  BY GotoType DEF Unregister, HubInv, hub, Place
<1>2. UnregisteredOnce(c) /\ RegisteredOnce(c) /\ ClosedExplained(c)
  BY DEF HubInv, Once
<1>3. c \notin Waiting(unregisterCh)
  BY <1>1, <1>2 DEF UnregisteredOnce
<1>4. Waiting(unregisterCh') = Waiting(unregisterCh) \cup {c} /\ Distinct(unregisterCh')
  BY <1>3, ChannelSend DEF Unregister, HubInv, TypeOK, Once
<1>5. Waiting(unregisterCh)' = Waiting(unregisterCh) \cup {c} /\ Waiting(registerCh)' = Waiting(registerCh)
  BY <1>1, <1>4 DEF Waiting
<1>6. ASSUME NEW d \in Client
      PROVE  (UnknownBefore(d) /\ RegisteredOnce(d) /\ UnregisteredOnce(d) /\ ClosedExplained(d))'
  <2>1. UnknownBefore(d) /\ RegisteredOnce(d) /\ UnregisteredOnce(d) /\ ClosedExplained(d)
    BY DEF HubInv, Once
  <2>2. CASE d = c
    BY <1>1, <1>2, <1>5, <2>2
       DEF UnknownBefore, RegisteredOnce, UnregisteredOnce, ClosedExplained
  <2>3. CASE d # c
    BY <1>1, <1>5, <2>1, <2>3
       DEF UnknownBefore, RegisteredOnce, UnregisteredOnce, ClosedExplained
  <2> QED
    BY <2>2, <2>3
<1>7. PanicExplained'
  BY <1>1 DEF HubInv, PanicExplained, TypeOK
<1>8. Distinct(unregisterCh)' /\ Distinct(registerCh)'
  BY <1>1, <1>4 DEF HubInv, Once, Distinct
<1> QED
  BY <1>6, <1>7, <1>8 DEF Once

(* A client moves from registerCh to the map. *)
LEMMA HubRegisterOnce ==
    ASSUME HubInv, HubRegister
    PROVE  Once' /\ PanicExplained'
<1> DEFINE c == Head(registerCh)
<1>1. /\ c \in Client /\ c \in Waiting(registerCh)
      /\ Distinct(Tail(registerCh)) /\ Waiting(Tail(registerCh)) = Waiting(registerCh) \ {c}
  BY ChannelReceive DEF HubRegister, HubInv, TypeOK, Once
<1>2. /\ Distinct(registerCh)'
      /\ Waiting(registerCh)' = Waiting(registerCh) \ {c}
      /\ clients' = clients \cup {c}
      /\ UNCHANGED <<unregisterCh, handler, closed, panicked, dropped, overtaken>>
  BY <1>1 DEF HubRegister, Distinct, Waiting, handlers
<1>3. Waiting(unregisterCh)' = Waiting(unregisterCh) /\ Distinct(unregisterCh)'
  BY <1>2 DEF HubInv, Once, Distinct, Waiting
<1>4. ASSUME NEW d \in Client
      PROVE  (UnknownBefore(d) /\ RegisteredOnce(d) /\ UnregisteredOnce(d) /\ ClosedExplained(d))'
  <2>1. UnknownBefore(d) /\ RegisteredOnce(d) /\ UnregisteredOnce(d) /\ ClosedExplained(d)
    BY DEF HubInv, Once
  <2> HIDE DEF c
  <2> QED
    BY <1>1, <1>2, <1>3, <2>1
       DEF UnknownBefore, RegisteredOnce, UnregisteredOnce, ClosedExplained
<1>5. PanicExplained'
  BY <1>2 DEF HubInv, PanicExplained
<1> QED
  BY <1>2, <1>3, <1>4, <1>5 DEF Once

(* The hub closes the channel of a client that has returned: it was closed   *)
(* before only if a broadcast dropped it.                                    *)
LEMMA HubUnregisterOnce ==
    ASSUME HubInv, HubUnregister
    PROVE  Once' /\ PanicExplained'
<1> DEFINE c == Head(unregisterCh)
<1>1. /\ c \in Client /\ c \in Waiting(unregisterCh)
      /\ Distinct(Tail(unregisterCh)) /\ Waiting(Tail(unregisterCh)) = Waiting(unregisterCh) \ {c}
  BY ChannelReceive DEF HubUnregister, HubInv, TypeOK, Once
<1>2. /\ Distinct(unregisterCh)'
      /\ Waiting(unregisterCh)' = Waiting(unregisterCh) \ {c}
      /\ clients' = clients \ {c}
      /\ closed' = [closed EXCEPT ![c] = TRUE]
      /\ panicked' = IF closed[c] THEN "close" ELSE panicked
      /\ overtaken' = IF c \in Waiting(registerCh) THEN overtaken \cup {c} ELSE overtaken
      /\ UNCHANGED <<registerCh, handler, dropped>>
  BY <1>1 DEF HubUnregister, Distinct, Waiting, handlers
<1>3. Waiting(registerCh)' = Waiting(registerCh) /\ Distinct(registerCh)'
  BY <1>2 DEF HubInv, Once, Distinct, Waiting
<1>4. handler[c] = "returned" /\ (closed[c] => c \in dropped)
  BY <1>1 DEF HubInv, Once, UnregisteredOnce
<1> HIDE DEF c
<1>5. closed'[c] /\ \A d \in Client : d # c => closed'[d] = closed[d]
  BY <1>1, <1>2 DEF HubInv, TypeOK
<1>6. ASSUME NEW d \in Client
      PROVE  (UnknownBefore(d) /\ RegisteredOnce(d) /\ UnregisteredOnce(d) /\ ClosedExplained(d))'
  <2>1. UnknownBefore(d) /\ RegisteredOnce(d) /\ UnregisteredOnce(d) /\ ClosedExplained(d)
    BY DEF HubInv, Once
  <2>2. CASE d = c
    BY <1>1, <1>2, <1>3, <1>4, <1>5, <2>1, <2>2
       DEF UnknownBefore, RegisteredOnce, UnregisteredOnce, ClosedExplained
  <2>3. CASE d # c
    BY <1>2, <1>3, <1>5, <2>1, <2>3
       DEF UnknownBefore, RegisteredOnce, UnregisteredOnce, ClosedExplained
  <2> QED
    BY <2>2, <2>3
<1>7. PanicExplained'
  BY <1>1, <1>2, <1>4 DEF HubInv, PanicExplained
<1> QED
  BY <1>2, <1>3, <1>6, <1>7 DEF Once

(* A broadcast closes only channels of clients it drops, and panics only on  *)
(* a client whose unregistration overtook its registration.                  *)
LEMMA HubBroadcastOnce ==
    ASSUME HubInv, HubBroadcast
    PROVE  Once' /\ PanicExplained'
<1>0. UNCHANGED <<registerCh, unregisterCh, handler, overtaken>>
  BY DEF HubBroadcast, handlers
<1>a. /\ Waiting(registerCh)' = Waiting(registerCh)
      /\ Waiting(unregisterCh)' = Waiting(unregisterCh)
      /\ Distinct(registerCh)' /\ Distinct(unregisterCh)'
  BY <1>0 DEF HubInv, Once, Distinct, Waiting
<1>b. \A d \in Client : /\ UnknownBefore(d) /\ RegisteredOnce(d)
                        /\ UnregisteredOnce(d) /\ ClosedExplained(d)
  BY DEF HubInv, Once
<1>1. CASE \E c \in clients : closed[c]
  <2>1. PICK c \in clients : closed[c]
    BY <1>1
  <2>2. c \in overtaken /\ handler[c] = "returned"
    BY <2>1, <1>b DEF ClosedExplained, HubInv, TypeOK
  <2>3. panicked' = "send" /\ UNCHANGED <<clients, queue, closed, dropped>>
    BY <1>1, BroadcastPanics
  <2>4. PanicExplained'
    BY <1>0, <2>2, <2>3 DEF PanicExplained
  <2>5. ASSUME NEW d \in Client
        PROVE  (UnknownBefore(d) /\ RegisteredOnce(d) /\ UnregisteredOnce(d) /\ ClosedExplained(d))'
    BY <1>0, <1>a, <1>b, <2>3 DEF UnknownBefore, RegisteredOnce, UnregisteredOnce, ClosedExplained
  <2> QED
    BY <1>a, <2>4, <2>5 DEF Once
<1>2. CASE \A c \in clients : ~closed[c]
  <2>1. PICK slow \in SUBSET clients : BroadcastStep(slow)
    BY <1>2, BroadcastDelivers
  <2>2. /\ clients' = clients \ slow
        /\ dropped' = dropped \cup slow
        /\ panicked' = panicked
        /\ \A d \in Client : closed'[d] = (closed[d] \/ d \in slow)
    BY <2>1 DEF BroadcastStep
  <2>3. PanicExplained'
    BY <1>0, <2>2 DEF HubInv, PanicExplained
  <2>4. ASSUME NEW d \in Client
        PROVE  (UnknownBefore(d) /\ RegisteredOnce(d) /\ UnregisteredOnce(d) /\ ClosedExplained(d))'
    <3>1. UnknownBefore(d) /\ RegisteredOnce(d) /\ UnregisteredOnce(d) /\ ClosedExplained(d)
      BY <1>b
    <3>2. (closed[d])' = (closed[d] \/ d \in slow)
      BY <2>2
    <3> QED
      BY <1>0, <1>a, <2>2, <3>1, <3>2
         DEF UnknownBefore, RegisteredOnce, UnregisteredOnce, ClosedExplained
  <2> QED
    BY <1>a, <2>3, <2>4 DEF Once
<1> QED
  BY <1>1, <1>2

(* Every step keeps the inductive invariant. *)
LEMMA HubNextOnce == HubInv /\ [Next]_vars => HubInv'
<1> SUFFICES ASSUME HubInv, [Next]_vars PROVE Once' /\ PanicExplained'
  BY HubNextType DEF HubInv
<1>a. TypeOK
  BY DEF HubInv
<1>1. CASE Sample \/ Wake
  BY <1>1, HandlerFrame DEF Sample, Wake, handlers, hub
<1>2. CASE Hub
  BY <1>2, HubRegisterOnce, HubUnregisterOnce, HubBroadcastOnce DEF Hub
<1>3. ASSUME NEW c \in Client, Connect(c) PROVE Once' /\ PanicExplained'
  BY <1>3, <1>a, GotoType, HandlerFrame DEF Connect, hub, Place
<1>4. ASSUME NEW c \in Client, Register(c) PROVE Once' /\ PanicExplained'
  BY <1>4, RegisterOnce
<1>5. ASSUME NEW c \in Client, Greet(c) PROVE Once' /\ PanicExplained'
  BY <1>5, <1>a, GotoType, HandlerFrame DEF Greet, hub, Place
<1>6. ASSUME NEW c \in Client, PeerLeaves(c) PROVE Once' /\ PanicExplained'
  BY <1>6, HandlerFrame DEF PeerLeaves, hub
<1>7. ASSUME NEW c \in Client, Take(c) PROVE Once' /\ PanicExplained'
  BY <1>7, <1>a, GotoType, HandlerFrame DEF Take, Place
<1>8. ASSUME NEW c \in Client, Write(c) PROVE Once' /\ PanicExplained'
  BY <1>8, <1>a, GotoType, HandlerFrame DEF Write, hub, Place
<1>9. ASSUME NEW c \in Client, Leave(c) PROVE Once' /\ PanicExplained'
  BY <1>9, <1>a, GotoType, HandlerFrame DEF Leave, hub, Place
<1>10. ASSUME NEW c \in Client, Unregister(c) PROVE Once' /\ PanicExplained'
  BY <1>10, UnregisterOnce
<1>11. CASE UNCHANGED vars
  BY <1>11, HandlerFrame DEF vars, handlers, hub
<1> QED
  BY <1>1, <1>2, <1>3, <1>4, <1>5, <1>6, <1>7, <1>8, <1>9, <1>10, <1>11 DEF Next, Handler

(* The two ways in which the hub can panic are the only ones, whatever the   *)
(* number of connections and the capacities of the channels.                 *)
THEOREM PanicCorrect == Spec => []PanicExplained
<1>1. HubInv => PanicExplained
  BY DEF HubInv
<1> QED
  BY <1>1, HubInitOnce, HubNextOnce, PTL DEF Spec
==============================================================================
