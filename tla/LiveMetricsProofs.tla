-------------------------- MODULE LiveMetricsProofs --------------------------
(* Proofs about LiveMetrics for any number of sockets, requests, mounts,     *)
(* samples and outages.                                                      *)
EXTENDS LiveMetrics, TLAPS

------------------------------------------------------------------------------
(* The inductive invariant.                                                  *)

(* A socket is closed exactly as long as it belongs to nobody, and then has  *)
(* no frame on its way.                                                      *)
Owned ==
    \A s \in Sockets :
        /\ ready[s] = "closed" <=> owner[s] = 0
        /\ ready[s] = "closed" => frame[s] = 0

(* Only a mount that there was has a timer. *)
TimersAreOld == \A m \in Mount : timer[m] => m <= mounts

(* Without a mount there is nothing on the screen, and no request out.       *)
NobodyLooks ==
    mounted = 0 =>
        ~online /\ payload = Nothing /\ painted = Nothing /\ \A p \in Polls : poll[p] = Idle

(* Once numbers are painted the polling is over, and what has come over the  *)
(* socket since, up to the frame on its way, is no older.                    *)
PaintedIsOldest ==
    /\ painted # Nothing => \A p \in Polls : poll[p] = Idle
    /\ painted.via = "ws" => payload.via = "ws" /\ payload.at >= painted.at

FramesAreNewer ==
    mounted # 0 /\ payload.via = "ws" =>
        \A s \in Sockets : owner[s] = mounted /\ frame[s] # 0 => frame[s] >= payload.at

LiveInv ==
    /\ TypeOK
    /\ Owned /\ TimersAreOld /\ NobodyLooks
    /\ ChainNeverForks /\ NeverGivesUp
    /\ LightIsTrueOfSocketNumbers
    /\ PaintedIsOldest /\ FramesAreNewer

------------------------------------------------------------------------------
(* Type correctness.                                                         *)

(* The types hold when the tab has never been opened. *)
LEMMA TypeInit == Init => TypeOK
<1> SUFFICES ASSUME Init PROVE TypeOK
  OBVIOUS
<1>1. mounts \in 0 .. MaxMounts /\ mounted \in {0, mounts} /\ tick \in Tick /\ faults \in 0 .. MaxFaults
  BY LiveMetricsAssumption DEF Init, Tick
<1>2. /\ ready \in [Sockets -> ReadyState]
      /\ owner \in [Sockets -> 0 .. mounts]
      /\ frame \in [Sockets -> 0 .. tick]
  BY DEF Init, ReadyState
<1>3. /\ timer \in [Mount -> BOOLEAN]
      /\ poll \in [Polls -> {Idle, Asked} \cup [st : {"answered"}, at : 1 .. tick]]
  BY DEF Init
<1>4. online \in BOOLEAN /\ wsUp \in BOOLEAN /\ httpUp \in BOOLEAN
  BY Zenon DEF Init
<1>5. payload = Nothing /\ painted = Nothing /\ display \in 0 .. tick /\ anim \in 0 .. tick
  BY DEF Init
<1> QED
  BY <1>1, <1>2, <1>3, <1>4, <1>5 DEF TypeOK

(* Connecting keeps the types of the two functions it changes. *)
LEMMA OpenType ==
    ASSUME TypeOK, NEW m \in Nat, Open(m)
    PROVE  /\ ready' \in [Sockets -> ReadyState]
           /\ \A n \in Nat : m <= n /\ mounts <= n => owner' \in [Sockets -> 0 .. n]
<1>1. PICK s \in Sockets :
        /\ ready' = IF Busy(m) THEN ready ELSE [ready EXCEPT ![s] = "connecting"]
        /\ owner' = IF Busy(m) THEN owner ELSE [owner EXCEPT ![s] = m]
  BY DEF Open
<1>2. ready' \in [Sockets -> ReadyState]
  BY <1>1 DEF TypeOK, ReadyState
<1>3. ASSUME NEW n \in Nat, m <= n, mounts <= n
      PROVE  owner' \in [Sockets -> 0 .. n]
  <2>1. owner \in [Sockets -> 0 .. n]
    BY <1>3 DEF TypeOK
  <2> QED
    BY <1>1, <1>3, <2>1
<1> QED
  BY <1>2, <1>3

(* Every step keeps the types. *)
LEMMA TypeStep == TypeOK /\ TimersAreOld /\ [Next]_vars => TypeOK'
<1> SUFFICES ASSUME TypeOK, TimersAreOld, [Next]_vars PROVE TypeOK'
  OBVIOUS
<1> USE LiveMetricsAssumption DEF TypeOK, Mount, Tick, ReadyState, Idle, Asked, Nothing
<1>1. CASE MountTab
  <2>1. mounts + 1 \in 0 .. MaxMounts /\ mounts + 1 \in Nat
    BY <1>1 DEF MountTab
  <2>2. ready' \in [Sockets -> ReadyState] /\ owner' \in [Sockets -> 0 .. mounts']
    BY <1>1, <2>1, OpenType DEF MountTab
  <2>3. UNCHANGED <<frame, timer, online, payload, painted, display, anim, tick, wsUp, httpUp, faults>>
    BY <1>1 DEF MountTab, screen, server
  <2> QED
    BY <1>1, <2>1, <2>2, <2>3 DEF MountTab
<1>2. CASE UnmountTab
  <2>1. timer' \in [Mount -> BOOLEAN]
    BY <1>2 DEF UnmountTab
  <2>2. /\ ready' \in [Sockets -> ReadyState]
        /\ poll' \in [Polls -> {Idle, Asked} \cup [st : {"answered"}, at : 1 .. tick]]
    BY <1>2 DEF UnmountTab
  <2>3. UNCHANGED <<mounts, owner, frame, tick, wsUp, httpUp, faults>>
    BY <1>2 DEF UnmountTab, server
  <2>4. online' \in BOOLEAN
    BY <1>2 DEF UnmountTab
  <2>5. mounted' = 0 /\ payload' = Nothing /\ painted' = Nothing /\ display' = 0 /\ anim' = 0
    BY <1>2 DEF UnmountTab
  <2>6. mounts' \in 0 .. MaxMounts /\ tick' \in Tick /\ faults' \in 0 .. MaxFaults
    BY <2>3
  <2> QED
    BY <2>1, <2>2, <2>3, <2>4, <2>5, <2>6
<1>3. ASSUME NEW s \in Sockets, Opened(s) PROVE TypeOK'
  BY <1>3 DEF Opened, server
<1>4. ASSUME NEW s \in Sockets, Failed(s) PROVE TypeOK'
  BY <1>4 DEF Failed, screen, server
<1>5. ASSUME NEW s \in Sockets, Closed(s) PROVE TypeOK'
  <2>1. timer' \in [Mount -> BOOLEAN] /\ online' \in BOOLEAN
    BY <1>5 DEF Closed
  <2>2. /\ ready' \in [Sockets -> ReadyState]
        /\ owner' \in [Sockets -> 0 .. mounts]
        /\ frame' \in [Sockets -> 0 .. tick]
    BY <1>5 DEF Closed
  <2>3. UNCHANGED <<mounted, mounts, poll, payload, painted, display, anim, tick, wsUp, httpUp, faults>>
    BY <1>5 DEF Closed, server
  <2> QED
    BY <2>1, <2>2, <2>3
<1>6. ASSUME NEW s \in Sockets, HubSends(s) PROVE TypeOK'
  BY <1>6 DEF HubSends, screen, server
<1>7. ASSUME NEW s \in Sockets, Message(s) PROVE TypeOK'
  BY <1>7 DEF Message, server
<1>8. ASSUME NEW m \in Mount, Reconnect(m) PROVE TypeOK'
  <2>1. ready' \in [Sockets -> ReadyState] /\ (m <= mounts => owner' \in [Sockets -> 0 .. mounts'])
    BY <1>8, OpenType DEF Reconnect
  <2>2. timer' \in [Mount -> BOOLEAN]
    BY <1>8 DEF Reconnect
  <2>3. UNCHANGED <<mounted, mounts, frame, poll, online, payload, painted, display, anim, tick, wsUp, httpUp, faults>>
    BY <1>8 DEF Reconnect, screen, server
  <2>4. m <= mounts
    BY <1>8 DEF Reconnect, TimersAreOld
  <2> QED
    BY <2>1, <2>2, <2>3, <2>4
<1>9. ASSUME NEW p \in Polls, PollAgain(p) \/ PollServed(p) \/ PollFailed(p) PROVE TypeOK'
  <2>1. poll' \in [Polls -> {Idle, Asked} \cup [st : {"answered"}, at : 1 .. tick]]
    <3>1. CASE PollAgain(p)
      BY <3>1 DEF PollAgain
    <3>2. CASE PollServed(p)
      <4>1. [st |-> "answered", at |-> tick] \in [st : {"answered"}, at : 1 .. tick]
        OBVIOUS
      <4> QED
        BY <3>2, <4>1 DEF PollServed
    <3>3. CASE PollFailed(p)
      BY <3>3 DEF PollFailed
    <3> QED
      BY <1>9, <3>1, <3>2, <3>3
  <2>2. UNCHANGED <<mounted, mounts, ready, owner, frame, timer, online, payload, painted, display, anim, tick, wsUp, httpUp, faults>>
    BY <1>9 DEF PollAgain, PollServed, PollFailed, wires, screen, server
  <2> QED
    BY <2>1, <2>2
<1>10. ASSUME NEW p \in Polls, PollAnswered(p) PROVE TypeOK'
  BY <1>10 DEF PollAnswered, wires, server
<1>11. CASE Commit
  BY <1>11 DEF Commit, wires, server
<1>12. CASE AnimationFrame
  BY <1>12 DEF AnimationFrame, Between, wires, server
<1>13. CASE Sample
  BY <1>13 DEF Sample, wires, screen
<1>14. CASE Turn
  <2>1. wsUp' \in BOOLEAN /\ httpUp' \in BOOLEAN
    BY <1>14, Zenon DEF Turn
  <2>2. faults' \in 0 .. MaxFaults
    BY <1>14 DEF Turn
  <2>3. UNCHANGED <<mounted, mounts, ready, owner, frame, timer, poll, online, payload, painted, display, anim, tick>>
    BY <1>14 DEF Turn, wires, screen
  <2> QED
    BY <2>1, <2>2, <2>3
<1>15. CASE UNCHANGED vars
  BY <1>15 DEF vars, wires, screen, server
<1> QED
  BY <1>1, <1>2, <1>3, <1>4, <1>5, <1>6, <1>7, <1>8, <1>9, <1>10, <1>11, <1>12, <1>13, <1>14, <1>15 DEF Next

------------------------------------------------------------------------------
(* Sockets and timers.                                                       *)

(* What connect() does for a mount without a socket that is not closed.      *)
LEMMA OpenOne ==
    ASSUME TypeOK, Owned, NEW m \in Nat \ {0}, Open(m),
           \A s \in Sockets : owner[s] # m
    PROVE  \E s \in Sockets :
              /\ ready[s] = "closed"
              /\ ready' = [ready EXCEPT ![s] = "connecting"]
              /\ owner' = [owner EXCEPT ![s] = m]
  BY DEF Open, Busy

(* The steps that touch neither sockets nor timers nor what is mounted.      *)
Aside ==
    \/ \E s \in Sockets : Message(s)
    \/ \E p \in Polls : PollAgain(p) \/ PollServed(p) \/ PollFailed(p) \/ PollAnswered(p)
    \/ Commit \/ AnimationFrame \/ Sample \/ Turn \/ UNCHANGED vars

(* Such a step leaves them as they are. *)
LEMMA AsideFrame ==
    ASSUME Aside
    PROVE  UNCHANGED <<mounted, mounts, ready, owner, timer>>
  BY DEF Aside, Message, PollAgain, PollServed, PollFailed, PollAnswered, Commit, AnimationFrame,
         Sample, Turn, vars, wires

(* The inductive step of Owned and TimersAreOld. *)
LEMMA OwnedStep ==
    ASSUME TypeOK, Owned, TimersAreOld, ChainNeverForks, [Next]_vars
    PROVE  Owned' /\ TimersAreOld'
<1> USE DEF TypeOK, Mount, ReadyState
<1>1. CASE MountTab
  <2>1. mounts + 1 \in Nat \ {0} /\ \A s \in Sockets : owner[s] # mounts + 1
    OBVIOUS
  <2>2. PICK s \in Sockets :
          /\ ready[s] = "closed"
          /\ ready' = [ready EXCEPT ![s] = "connecting"]
          /\ owner' = [owner EXCEPT ![s] = mounts + 1]
    BY <1>1, <2>1, OpenOne DEF MountTab
  <2>3. Owned'
    BY <1>1, <2>1, <2>2 DEF MountTab, Owned
  <2>4. TimersAreOld'
    BY <1>1 DEF MountTab, TimersAreOld
  <2> QED
    BY <2>3, <2>4
<1>2. CASE UnmountTab
  <2>1. Owned'
    BY <1>2 DEF UnmountTab, Owned
  <2>2. TimersAreOld'
    BY <1>2 DEF UnmountTab, TimersAreOld
  <2> QED
    BY <2>1, <2>2
<1>3. ASSUME NEW s \in Sockets, Opened(s) \/ Failed(s) PROVE Owned' /\ TimersAreOld'
  BY <1>3 DEF Opened, Failed, Owned, TimersAreOld
<1>4. ASSUME NEW s \in Sockets, Closed(s) PROVE Owned' /\ TimersAreOld'
  <2>1. Owned'
    BY <1>4 DEF Closed, Owned
  <2>2. TimersAreOld'
    BY <1>4 DEF Closed, TimersAreOld
  <2> QED
    BY <2>1, <2>2
<1>5. ASSUME NEW s \in Sockets, HubSends(s) PROVE Owned' /\ TimersAreOld'
  BY <1>5 DEF HubSends, Owned, TimersAreOld
<1>6. ASSUME NEW m \in Mount, Reconnect(m) PROVE Owned' /\ TimersAreOld'
  <2>1. m \in Nat \ {0} /\ \A s \in Sockets : owner[s] # m
    BY <1>6, LiveMetricsAssumption DEF Reconnect, ChainNeverForks, Held, Owned
  <2>2. PICK s \in Sockets :
          /\ ready[s] = "closed"
          /\ ready' = [ready EXCEPT ![s] = "connecting"]
          /\ owner' = [owner EXCEPT ![s] = m]
    BY <1>6, <2>1, OpenOne DEF Reconnect
  <2>3. Owned'
    BY <1>6, <2>1, <2>2 DEF Reconnect, Owned
  <2>4. TimersAreOld'
    BY <1>6 DEF Reconnect, TimersAreOld
  <2> QED
    BY <2>3, <2>4
<1>7. CASE Aside
  <2>1. \A s \in Sockets : frame'[s] = 0 \/ frame'[s] = frame[s]
    BY <1>7 DEF Aside, Message, PollAgain, PollServed, PollFailed, PollAnswered, Commit,
                AnimationFrame, Sample, Turn, vars, wires
  <2>2. Owned'
    BY <1>7, <2>1, AsideFrame DEF Owned
  <2>3. TimersAreOld'
    BY <1>7, AsideFrame DEF TimersAreOld
  <2> QED
    BY <2>2, <2>3
<1> QED
  BY <1>1, <1>2, <1>3, <1>4, <1>5, <1>6, <1>7 DEF Next, Aside

(* The inductive step of ChainNeverForks.  A timer is only set when the one  *)
(* socket of its mount closes, and a socket is only opened when the timer    *)
(* has fired or the mount is new.                                            *)
LEMMA ChainStep ==
    ASSUME TypeOK, Owned, TimersAreOld, ChainNeverForks, [Next]_vars
    PROVE  ChainNeverForks'
<1> USE DEF TypeOK, Mount, ReadyState, ChainNeverForks, Held
<1>1. CASE MountTab
  <2>1. mounts + 1 \in Nat \ {0} /\ \A s \in Sockets : owner[s] # mounts + 1
    OBVIOUS
  <2>2. PICK s \in Sockets :
          /\ ready[s] = "closed"
          /\ ready' = [ready EXCEPT ![s] = "connecting"]
          /\ owner' = [owner EXCEPT ![s] = mounts + 1]
    BY <1>1, <2>1, OpenOne DEF MountTab
  <2>3. timer' = timer /\ \A m \in Mount : timer[m] => m # mounts + 1
    BY <1>1 DEF MountTab, TimersAreOld
  <2> QED
    BY <2>1, <2>2, <2>3
<1>2. CASE UnmountTab
  <2>1. owner' = owner /\ \A s \in Sockets : ready'[s] = "closed" <=> ready[s] = "closed"
    BY <1>2 DEF UnmountTab
  <2>2. \A m \in Mount : timer'[m] => timer[m]
    BY <1>2 DEF UnmountTab
  <2> QED
    BY <2>1, <2>2
<1>3. ASSUME NEW s \in Sockets, Opened(s) \/ Failed(s) PROVE ChainNeverForks'
  <2>1. \A t \in Sockets : ready'[t] # "closed" => ready[t] # "closed"
    BY <1>3 DEF Opened, Failed
  <2>2. UNCHANGED <<owner, timer>>
    BY <1>3 DEF Opened, Failed
  <2> QED
    BY <2>1, <2>2
<1>4. ASSUME NEW s \in Sockets, Closed(s) PROVE ChainNeverForks'
  <2>1. /\ ready' = [ready EXCEPT ![s] = "closed"]
        /\ owner' = [owner EXCEPT ![s] = 0]
        /\ ready[s] = "closing"
    BY <1>4 DEF Closed
  <2>2. \A m \in Mount : timer'[m] => timer[m] \/ m = owner[s]
    BY <1>4 DEF Closed
  <2>3. \A m \in Mount, t \in Sockets : Held(m, t)' => Held(m, t) /\ t # s
    BY <2>1
  <2>4. ASSUME NEW m \in Mount, timer'[m], NEW t \in Sockets PROVE ~Held(m, t)'
    <3>1. CASE timer[m]
      BY <3>1, <2>3
    <3>2. CASE m = owner[s]
      BY <3>2, <2>1, <2>3
    <3> QED
      BY <2>2, <2>4, <3>1, <3>2
  <2>5. \A m \in Mount, t, u \in Sockets : Held(m, t)' /\ Held(m, u)' => t = u
    BY <2>3
  <2>6. \A m \in Mount : timer'[m] => \A t \in Sockets : ~Held(m, t)'
    BY <2>4
  <2> QED
    BY <2>5, <2>6
<1>5. ASSUME NEW s \in Sockets, HubSends(s) PROVE ChainNeverForks'
  BY <1>5 DEF HubSends
<1>6. ASSUME NEW m \in Mount, Reconnect(m) PROVE ChainNeverForks'
  <2>1. m \in Nat \ {0} /\ \A s \in Sockets : owner[s] # m
    BY <1>6, LiveMetricsAssumption DEF Reconnect, Owned
  <2>2. PICK s \in Sockets :
          /\ ready[s] = "closed"
          /\ ready' = [ready EXCEPT ![s] = "connecting"]
          /\ owner' = [owner EXCEPT ![s] = m]
    BY <1>6, <2>1, OpenOne DEF Reconnect
  <2>3. \A n \in Mount : timer'[n] => timer[n] /\ n # m
    BY <1>6 DEF Reconnect
  <2> QED
    BY <2>1, <2>2, <2>3
<1>7. CASE Aside
  BY <1>7, AsideFrame
<1> QED
  BY <1>1, <1>2, <1>3, <1>4, <1>5, <1>6, <1>7 DEF Next, Aside

(* The inductive step of NeverGivesUp. *)
LEMMA NeverGivesUpStep ==
    ASSUME TypeOK, Owned, ChainNeverForks, NeverGivesUp, [Next]_vars
    PROVE  NeverGivesUp'
<1> USE DEF TypeOK, Mount, ReadyState, NeverGivesUp, Held
<1>1. CASE MountTab
  <2>1. mounts + 1 \in Nat \ {0} /\ \A s \in Sockets : owner[s] # mounts + 1
    OBVIOUS
  <2>2. PICK s \in Sockets :
          /\ ready[s] = "closed"
          /\ ready' = [ready EXCEPT ![s] = "connecting"]
          /\ owner' = [owner EXCEPT ![s] = mounts + 1]
    BY <1>1, <2>1, OpenOne DEF MountTab
  <2>3. mounted' = mounts + 1
    BY <1>1 DEF MountTab
  <2> QED
    BY <2>2, <2>3
<1>2. CASE UnmountTab
  BY <1>2 DEF UnmountTab
<1>3. ASSUME NEW s \in Sockets, Opened(s) \/ Failed(s) PROVE NeverGivesUp'
  <2>1. \A t \in Sockets : ready[t] # "closed" => ready'[t] # "closed"
    BY <1>3 DEF Opened, Failed
  <2>2. UNCHANGED <<mounted, owner, timer>>
    BY <1>3 DEF Opened, Failed
  <2> QED
    BY <2>1, <2>2
<1>4. ASSUME NEW s \in Sockets, Closed(s) PROVE NeverGivesUp'
  <2>1. /\ ready' = [ready EXCEPT ![s] = "closed"]
        /\ owner' = [owner EXCEPT ![s] = 0]
        /\ timer' = [timer EXCEPT ![owner[s]] = TRUE]
        /\ mounted' = mounted
    BY <1>4 DEF Closed
  <2>2. CASE owner[s] = mounted /\ mounted # 0
    <3>1. mounted \in Mount
      BY <2>2
    <3> QED
      BY <2>1, <2>2, <3>1
  <2>3. CASE owner[s] # mounted /\ mounted # 0
    <3>1. timer[mounted] => timer'[mounted]
      BY <2>1, <2>3
    <3>2. \A t \in Sockets : owner[t] = mounted => t # s
      BY <2>3
    <3> QED
      BY <2>1, <2>3, <3>1, <3>2
  <2>4. CASE mounted = 0
    BY <2>1, <2>4
  <2> QED
    BY <2>2, <2>3, <2>4
<1>5. ASSUME NEW s \in Sockets, HubSends(s) PROVE NeverGivesUp'
  BY <1>5 DEF HubSends
<1>6. ASSUME NEW m \in Mount, Reconnect(m) PROVE NeverGivesUp'
  <2>1. m \in Nat \ {0} /\ \A s \in Sockets : owner[s] # m
    BY <1>6, LiveMetricsAssumption DEF Reconnect, Owned, ChainNeverForks
  <2>2. PICK s \in Sockets :
          /\ ready[s] = "closed"
          /\ ready' = [ready EXCEPT ![s] = "connecting"]
          /\ owner' = [owner EXCEPT ![s] = m]
    BY <1>6, <2>1, OpenOne DEF Reconnect
  <2>3. mounted' = mounted /\ (timer[mounted] /\ mounted # m => timer'[mounted])
    BY <1>6 DEF Reconnect
  <2>4. CASE mounted = m
    BY <2>2, <2>3, <2>4
  <2>5. CASE mounted # m
    BY <2>2, <2>3, <2>5 DEF Owned
  <2> QED
    BY <2>4, <2>5
<1>7. CASE Aside
  BY <1>7, AsideFrame
<1> QED
  BY <1>1, <1>2, <1>3, <1>4, <1>5, <1>6, <1>7 DEF Next, Aside

------------------------------------------------------------------------------
(* What is on the screen.                                                    *)

(* The inductive step of NobodyLooks. *)
LEMMA NobodyLooksStep ==
    ASSUME TypeOK, Owned, NobodyLooks, [Next]_vars
    PROVE  NobodyLooks'
<1> USE DEF TypeOK, NobodyLooks
<1>1. CASE MountTab
  BY <1>1, LiveMetricsAssumption DEF MountTab
<1>2. CASE UnmountTab
  BY <1>2 DEF UnmountTab
<1>3. ASSUME NEW s \in Sockets, Opened(s) \/ Failed(s) \/ Closed(s) \/ HubSends(s) PROVE NobodyLooks'
  <2>1. UNCHANGED <<mounted, payload, painted, poll>>
    BY <1>3 DEF Opened, Failed, Closed, HubSends, screen
  <2>2. mounted = 0 /\ ~online => ~online'
    BY <1>3 DEF Opened, Failed, Closed, HubSends, Owned, screen
  <2> QED
    BY <2>1, <2>2
<1>4. ASSUME NEW s \in Sockets, Message(s) PROVE NobodyLooks'
  BY <1>4 DEF Message, Owned
<1>5. ASSUME NEW m \in Mount, Reconnect(m) PROVE NobodyLooks'
  BY <1>5 DEF Reconnect, screen
<1>6. ASSUME NEW p \in Polls, PollAgain(p) PROVE NobodyLooks'
  BY <1>6 DEF PollAgain, Polling, screen
<1>7. ASSUME NEW p \in Polls, PollServed(p) \/ PollFailed(p) PROVE NobodyLooks'
  BY <1>7 DEF PollServed, PollFailed, Idle, screen
<1>8. ASSUME NEW p \in Polls, PollAnswered(p) PROVE NobodyLooks'
  BY <1>8 DEF PollAnswered, Idle
<1>9. CASE Commit
  BY <1>9 DEF Commit
<1>10. CASE AnimationFrame
  BY <1>10 DEF AnimationFrame
<1>11. CASE Sample \/ Turn \/ UNCHANGED vars
  BY <1>11 DEF Sample, Turn, vars, screen
<1> QED
  BY <1>1, <1>2, <1>3, <1>4, <1>5, <1>6, <1>7, <1>8, <1>9, <1>10, <1>11 DEF Next

(* The inductive step of LightIsTrueOfSocketNumbers. *)
LEMMA LightStep ==
    ASSUME TypeOK, Owned, NobodyLooks, LightIsTrueOfSocketNumbers, [Next]_vars
    PROVE  LightIsTrueOfSocketNumbers'
<1> DEFINE Backed == \E s \in Sockets : owner[s] = mounted /\ ready[s] \in {"open", "closing"}
           Live == online /\ payload.via = "ws"
<1>a. LightIsTrueOfSocketNumbers <=> (Live => Backed)
  BY DEF LightIsTrueOfSocketNumbers, Light, Held
<1>b. LightIsTrueOfSocketNumbers' <=> (Live' => Backed')
  BY DEF LightIsTrueOfSocketNumbers, Light, Held
<1>c. (Live => Backed) => (Live' => Backed')
  <2> SUFFICES ASSUME Live => Backed, Live' PROVE Backed'
    OBVIOUS
  <2> USE DEF TypeOK
  <2>1. CASE MountTab
    BY <2>1 DEF MountTab, NobodyLooks, screen
  <2>2. CASE UnmountTab
    BY <2>2 DEF UnmountTab
  <2>3. ASSUME NEW s \in Sockets, Opened(s) PROVE Backed'
    <3>1. ready' = [ready EXCEPT ![s] = "open"] /\ UNCHANGED <<owner, mounted, payload>>
      BY <2>3 DEF Opened
    <3>2. CASE owner[s] = mounted
      BY <3>1, <3>2
    <3>3. CASE owner[s] # mounted
      <4>1. Live
        BY <2>3, <3>3 DEF Opened
      <4> QED
        BY <3>1, <3>3, <4>1
    <3> QED
      BY <3>2, <3>3
  <2>4. ASSUME NEW s \in Sockets, Failed(s) PROVE Backed'
    <3>1. ready' = [ready EXCEPT ![s] = "closing"] /\ UNCHANGED <<owner, mounted, payload, online>>
      BY <2>4 DEF Failed, screen
    <3> QED
      BY <3>1
  <2>5. ASSUME NEW s \in Sockets, Closed(s) PROVE Backed'
    <3>1. /\ ready' = [ready EXCEPT ![s] = "closed"]
          /\ owner' = [owner EXCEPT ![s] = 0]
          /\ UNCHANGED <<mounted, payload>>
      BY <2>5 DEF Closed
    <3>2. owner[s] # mounted /\ Live
      BY <2>5 DEF Closed
    <3> QED
      BY <3>1, <3>2
  <2>6. ASSUME NEW s \in Sockets, HubSends(s) PROVE Backed'
    BY <2>6 DEF HubSends, screen
  <2>7. ASSUME NEW s \in Sockets, Message(s) PROVE Backed'
    <3>1. ready[s] = "open" /\ UNCHANGED <<ready, owner, mounted, online>>
      BY <2>7 DEF Message
    <3>2. CASE owner[s] = mounted
      BY <3>1, <3>2
    <3>3. CASE owner[s] # mounted
      BY <2>7, <3>1, <3>3 DEF Message
    <3> QED
      BY <3>2, <3>3
  <2>8. ASSUME NEW m \in Mount, Reconnect(m) PROVE Backed'
    <3>1. Live /\ mounted' = mounted
      BY <2>8 DEF Reconnect, screen
    <3>2. \A s \in Sockets : ready[s] # "closed" => ready'[s] = ready[s] /\ owner'[s] = owner[s]
      BY <2>8 DEF Reconnect, Open
    <3> QED
      BY <3>1, <3>2
  <2>9. ASSUME NEW p \in Polls, PollAgain(p) \/ PollServed(p) \/ PollFailed(p) PROVE Backed'
    BY <2>9 DEF PollAgain, PollServed, PollFailed, wires, screen
  <2>10. ASSUME NEW p \in Polls, PollAnswered(p) PROVE Backed'
    BY <2>10 DEF PollAnswered
  <2>11. CASE Commit \/ AnimationFrame \/ Sample \/ Turn \/ UNCHANGED vars
    BY <2>11 DEF Commit, AnimationFrame, Sample, Turn, vars, wires, screen
  <2> QED
    BY <2>1, <2>2, <2>3, <2>4, <2>5, <2>6, <2>7, <2>8, <2>9, <2>10, <2>11 DEF Next
<1> QED
  BY <1>a, <1>b, <1>c

(* The inductive step of PaintedIsOldest and FramesAreNewer. *)
LEMMA NumbersStep ==
    ASSUME TypeOK, Owned, NobodyLooks, ChainNeverForks, PaintedIsOldest, FramesAreNewer, [Next]_vars
    PROVE  PaintedIsOldest' /\ FramesAreNewer'
<1> USE DEF TypeOK, PaintedIsOldest, FramesAreNewer
<1>1. CASE MountTab
  BY <1>1 DEF MountTab, NobodyLooks, Nothing, screen
<1>2. CASE UnmountTab
  BY <1>2 DEF UnmountTab, Nothing
<1>3. ASSUME NEW s \in Sockets, Opened(s) \/ Failed(s) PROVE PaintedIsOldest' /\ FramesAreNewer'
  BY <1>3 DEF Opened, Failed, screen
<1>4. ASSUME NEW s \in Sockets, Closed(s) PROVE PaintedIsOldest' /\ FramesAreNewer'
  BY <1>4 DEF Closed
<1>5. ASSUME NEW s \in Sockets, HubSends(s) PROVE PaintedIsOldest' /\ FramesAreNewer'
  <2>1. UNCHANGED <<mounted, owner, poll, payload, painted>> /\ frame' = [frame EXCEPT ![s] = tick]
    BY <1>5 DEF HubSends, screen
  <2>2. payload.via = "ws" => tick >= payload.at
    BY DEF Nothing, Tick
  <2> QED
    BY <2>1, <2>2
<1>6. ASSUME NEW s \in Sockets, Message(s) PROVE PaintedIsOldest' /\ FramesAreNewer'
  <2>1. /\ frame' = [frame EXCEPT ![s] = 0] /\ frame[s] # 0 /\ ready[s] = "open"
        /\ UNCHANGED <<mounted, owner, poll, painted>>
    BY <1>6 DEF Message
  <2>2. CASE owner[s] # mounted
    <3>1. payload' = payload
      BY <1>6, <2>2 DEF Message
    <3> QED
      BY <2>1, <3>1
  <2>3. CASE owner[s] = mounted
    <3>1. payload' = [via |-> "ws", at |-> frame[s]]
      BY <1>6, <2>3 DEF Message
    <3>2. mounted # 0 /\ mounted \in Mount
      BY <2>1, <2>3 DEF Owned, Mount
    <3>3. \A t \in Sockets : owner[t] = mounted => t = s
      BY <2>1, <2>3, <3>2 DEF Owned, ChainNeverForks, Held
    <3>4. FramesAreNewer'
      BY <2>1, <3>3
    <3>5. PaintedIsOldest'
      <4>1. painted.at \in Nat /\ payload.at \in Nat /\ frame[s] \in Nat
        BY DEF Nothing, Tick
      <4>2. painted.via = "ws" => frame[s] >= painted.at
        BY <2>1, <2>3, <3>2, <4>1
      <4>3. payload'.via = "ws" /\ payload'.at = frame[s]
        BY <3>1
      <4> QED
        BY <2>1, <4>2, <4>3
    <3> QED
      BY <3>4, <3>5
  <2> QED
    BY <2>2, <2>3
<1>7. ASSUME NEW m \in Mount, Reconnect(m) PROVE PaintedIsOldest' /\ FramesAreNewer'
  <2>1. UNCHANGED <<mounted, frame, poll, payload, painted>>
    BY <1>7 DEF Reconnect, screen
  <2>2. \A s \in Sockets : owner'[s] = owner[s] \/ frame[s] = 0
    BY <1>7 DEF Reconnect, Open, Owned
  <2> QED
    BY <2>1, <2>2
<1>8. ASSUME NEW p \in Polls, PollAgain(p) \/ PollServed(p) \/ PollFailed(p) PROVE PaintedIsOldest' /\ FramesAreNewer'
  <2>1. UNCHANGED <<mounted, owner, frame, payload, painted>>
    BY <1>8 DEF PollAgain, PollServed, PollFailed, wires, screen
  <2>2. painted # Nothing => poll[p] = Idle /\ ~Polling
    BY DEF Polling
  <2>3. painted # Nothing => poll' = poll
    BY <1>8, <2>2 DEF PollAgain, PollServed, PollFailed, Idle
  <2> QED
    BY <2>1, <2>3
<1>9. ASSUME NEW p \in Polls, PollAnswered(p) PROVE PaintedIsOldest' /\ FramesAreNewer'
  <2>1. painted = Nothing /\ painted' = painted
    BY <1>9 DEF PollAnswered, Idle
  <2>2. payload'.via = "poll"
    BY <1>9 DEF PollAnswered
  <2> QED
    BY <2>1, <2>2 DEF Nothing
<1>10. CASE Commit
  <2>1. /\ painted' = payload
        /\ \A p \in Polls : poll'[p] = Idle
        /\ UNCHANGED <<mounted, owner, frame, payload>>
    BY <1>10 DEF Commit, wires
  <2>2. payload.via = "ws" => payload.at >= payload.at
    BY DEF Nothing, Tick
  <2> QED
    BY <2>1, <2>2
<1>11. CASE AnimationFrame \/ Sample \/ Turn \/ UNCHANGED vars
  BY <1>11 DEF AnimationFrame, Sample, Turn, vars, wires, screen
<1> QED
  BY <1>1, <1>2, <1>3, <1>4, <1>5, <1>6, <1>7, <1>8, <1>9, <1>10, <1>11 DEF Next

------------------------------------------------------------------------------
(* The theorems.                                                             *)

(* LiveInv holds initially, and every step keeps it.                         *)
LEMMA LiveInvInit == Init => LiveInv
<1> SUFFICES ASSUME Init PROVE LiveInv
  OBVIOUS
<1>1. TypeOK
  BY TypeInit
<1>2. Owned /\ TimersAreOld
  BY DEF Init, Owned, TimersAreOld
<1>3. NobodyLooks /\ PaintedIsOldest /\ FramesAreNewer
  BY DEF Init, NobodyLooks, PaintedIsOldest, FramesAreNewer, Nothing
<1>4. ChainNeverForks /\ NeverGivesUp
  BY DEF Init, ChainNeverForks, NeverGivesUp, Held
<1>5. LightIsTrueOfSocketNumbers
  BY DEF Init, LightIsTrueOfSocketNumbers, Nothing
<1> QED
  BY <1>1, <1>2, <1>3, <1>4, <1>5 DEF LiveInv

(* The inductive step: each conjunct from those it needs. *)
LEMMA LiveInvStep == LiveInv /\ [Next]_vars => LiveInv'
  BY TypeStep, OwnedStep, ChainStep, NeverGivesUpStep, NobodyLooksStep, LightStep, NumbersStep DEF LiveInv

(* The inductive invariant of the live tab. *)
THEOREM LiveInvariant == Spec => []LiveInv
  BY LiveInvInit, LiveInvStep, PTL DEF Spec

(* Every variable of the live tab keeps its type.                            *)
THEOREM LiveTypeCorrect == Spec => []TypeOK
<1>1. LiveInv => TypeOK
  BY DEF LiveInv
<1> QED
  BY <1>1, LiveInvariant, PTL

(* A mount never has two sockets, nor a socket and a pending timer.          *)
THEOREM ChainCorrect == Spec => []ChainNeverForks
<1>1. LiveInv => ChainNeverForks
  BY DEF LiveInv
<1> QED
  BY <1>1, LiveInvariant, PTL

(* The mount on the screen always has a socket or a timer.                   *)
THEOREM NeverGivesUpCorrect == Spec => []NeverGivesUp
<1>1. LiveInv => NeverGivesUp
  BY DEF LiveInv
<1> QED
  BY <1>1, LiveInvariant, PTL

(* The light over numbers of the socket is backed by a socket.               *)
THEOREM LightCorrect == Spec => []LightIsTrueOfSocketNumbers
<1>1. LiveInv => LightIsTrueOfSocketNumbers
  BY DEF LiveInv
<1> QED
  BY <1>1, LiveInvariant, PTL

(* Numbers of the socket are only followed by newer ones.                    *)
THEOREM NumbersCorrect == Spec => NumbersNeverGoBack
<1>1. ASSUME LiveInv, [Next]_vars
      PROVE  [Charts /\ mounted' # 0 => Charts' /\ painted'.at >= painted.at]_screen
  <2> SUFFICES ASSUME Charts, mounted' # 0
               PROVE  Charts' /\ painted'.at >= painted.at
    OBVIOUS
  <2>1. painted.via = "ws" /\ mounted # 0 /\ painted.at \in Nat
    BY <1>1 DEF Charts, LiveInv, TypeOK, Nothing, Tick
  <2>2. CASE painted' = painted
    BY <2>1, <2>2 DEF Charts
  <2>3. CASE Commit
    <3>1. painted' = payload
      BY <2>3 DEF Commit
    <3>2. payload.via = "ws" /\ payload.at >= painted.at
      BY <1>1, <2>1 DEF LiveInv, PaintedIsOldest
    <3> QED
      BY <3>1, <3>2 DEF Charts
  <2>4. CASE MountTab \/ UnmountTab
    BY <2>1, <2>4 DEF MountTab, UnmountTab
  <2>5. Next => painted' = painted \/ Commit \/ MountTab \/ UnmountTab
    BY DEF Next, Opened, Failed, Closed, HubSends, Message, Reconnect, PollAgain, PollServed,
           PollFailed, PollAnswered, AnimationFrame, Sample, Turn, screen
  <2>6. UNCHANGED vars => painted' = painted
    BY DEF vars, screen
  <2> QED
    BY <1>1, <2>2, <2>3, <2>4, <2>5, <2>6
<1> QED
  BY <1>1, LiveInvariant, PTL DEF Spec, NumbersNeverGoBack
==============================================================================
