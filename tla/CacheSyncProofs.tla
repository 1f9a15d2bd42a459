--------------------------- MODULE CacheSyncProofs ---------------------------
(* Proofs about CacheSync for every set of replicas, domains, categories and *)
(* goroutine slots and every budget of mutations and failures.               *)
EXTENDS CacheSync, TLAPS, FiniteSetTheorems

------------------------------------------------------------------------------
(* The inductive invariant.                                                  *)

SelectFailed == left["select"] < Budget["select"]

(* A Reload past its SELECT carries a committed version, or nothing when the *)
(* SELECT failed; only a version with a domain in it reaches the pipeline.   *)
JobsCarryCommitted ==
    \A r \in Replica, w \in Worker :
        /\ job[r][w].pc \in InFlight =>
              \/ job[r][w].view \in committed
              \/ SelectFailed /\ job[r][w].view = Blank
        /\ job[r][w].pc \in Pipe =>
              /\ job[r][w].view \in committed
              /\ Members(job[r][w].view) # {}

L1IsCommitted(r) == SelectFailed \/ \E v \in committed : l1[r] = Members(v)

MetaIsCommitted(r) == SelectFailed \/ meta[r] \in committed

(* The warm-up assigns both maps before the replica serves. *)
WarmUpAssigns ==
    \A r \in Replica :
        /\ phase[r] = "up" \/ job[r]["main"].pc \in {"metaCache", "gauge"} => L1IsCommitted(r)
        /\ phase[r] = "up" \/ job[r]["main"].pc = "gauge" => MetaIsCommitted(r)

(* The temporary key too is put together from committed versions. *)
RedisIsAssembled ==
    /\ Assembled(rset)
    /\ Assembled(rtmp)
    /\ \A d \in Domain : rmeta[d] # Absent => \E v \in committed : v[d] = rmeta[d]

(* All of it together is inductive: the table itself is a committed version, *)
(* jobs carry committed versions, and what they assign is what they carry.   *)
Provenance ==
    /\ TypeOK
    /\ left["select"] <= Budget["select"]
    /\ ViewOf(db) \in committed
    /\ JobsCarryCommitted
    /\ WarmUpAssigns
    /\ RedisIsAssembled

------------------------------------------------------------------------------
(* Type correctness.                                                         *)

(* The SELECT returns a view; so does the empty map. *)
LEMMA ViewOfType ==
    ASSUME NEW table \in [Domain -> Row]
    PROVE  ViewOf(table) \in View
BY DEF ViewOf, View, Row

(* The empty view is a view, without members. *)
LEMMA BlankType == Blank \in View /\ Members(Blank) = {}
BY DEF Blank, View, Members

(* The gauge counts a finite set. *)
LEMMA GaugeType ==
    ASSUME NEW v
    PROVE  Members(v) \in SUBSET Domain /\ Cardinality(Members(v)) \in Nat
<1>1. Members(v) \subseteq Domain
  BY DEF Members
<1>2. IsFiniteSet(Members(v))
  BY <1>1, CacheSyncAssumption, FS_Subset
<1>3. QED
  BY <1>1, <1>2, FS_CardinalityType

(* Before the first start every variable has its type. *)
LEMMA InitType == Init => TypeOK
<1> SUFFICES ASSUME Init PROVE TypeOK
  OBVIOUS
<1>1. Idle \in [pc : Place, view : View]
  BY BlankType DEF Idle, Place
<1>2. committed \in SUBSET View
  BY ViewOfType DEF Init
<1>3. left \in [Fault -> Nat]
  BY CacheSyncAssumption DEF Init
<1>4. job \in [Replica -> [Worker -> [pc : Place, view : View]]]
  BY <1>1 DEF Init
<1> QED
  BY <1>2, <1>3, <1>4, BlankType DEF Init, TypeOK

(* Spending keeps the budgets natural numbers and never adds to one. *)
LEMMA SpendType ==
    ASSUME TypeOK, NEW kind \in Fault, Spend(kind)
    PROVE  /\ left' \in [Fault -> Nat]
           /\ left'["select"] <= left["select"]
           /\ left'[kind] < left[kind]
<1>1. /\ left' = [left EXCEPT ![kind] = @ - 1]
      /\ left \in [Fault -> Nat]
      /\ left[kind] > 0
      /\ left[kind] \in Nat
      /\ left["select"] \in Nat
  BY DEF Spend, TypeOK, Fault
<1> QED
  BY <1>1 DEF Fault

(* A mutation keeps the types, whatever table it commits. *)
LEMMA CommitType ==
    ASSUME TypeOK, NEW r \in Replica, NEW s \in GoSlot, NEW table \in [Domain -> Row],
           Commit(r, s, table), Announced(r) \/ Silent(r)
    PROVE  TypeOK'
<1>1. left' \in [Fault -> Nat]
  BY SpendType DEF Commit, Fault
<1>2. committed' \in SUBSET View
  BY ViewOfType DEF Commit, TypeOK
<1>3. [pc |-> "select", view |-> Blank] \in [pc : Place, view : View]
  BY BlankType DEF Place
<1>4. job' \in [Replica -> [Worker -> [pc : Place, view : View]]]
  <2>1. s \in Worker
    BY DEF Worker
  <2> QED
    BY <1>3, <2>1 DEF Commit, TypeOK
<1>5. pubs' \in [Replica -> Nat] /\ excuse' \in [Replica -> BOOLEAN]
  <2>1. CASE Announced(r)
    BY <2>1 DEF Announced, TypeOK
  <2>2. CASE Silent(r)
    BY <2>2 DEF Silent, TypeOK
  <2> QED
    BY <2>1, <2>2
<1>6. db' \in [Domain -> Row] /\ UNCHANGED <<redis, caches, process, inbox>>
  BY DEF Commit
<1> QED
  BY <1>1, <1>2, <1>4, <1>5, <1>6 DEF TypeOK, redis, caches, process

(* All an admin request does: commit some table and start the goroutines. *)
LEMMA AdminCommits ==
    ASSUME TypeOK, NEW r \in Replica, NEW s \in GoSlot, Admin(r, s)
    PROVE  \E table \in [Domain -> Row] :
              /\ Commit(r, s, table)
              /\ Announced(r) \/ Silent(r)
<1> USE DEF TypeOK, Row
<1>1. ASSUME NEW d \in Domain, NEW c \in Category, AddDomain(r, s, d, c)
      PROVE  \E table \in [Domain -> Row] : Commit(r, s, table) /\ (Announced(r) \/ Silent(r))
  <2>1. [db EXCEPT ![d] = c] \in [Domain -> Row]
    OBVIOUS
  <2> QED BY <1>1, <2>1 DEF AddDomain
<1>2. ASSUME NEW d \in Domain, NEW e \in Domain, NEW row \in Category \cup {Inactive},
             UpdateDomain(r, s, d, e, row)
      PROVE  \E table \in [Domain -> Row] : Commit(r, s, table) /\ (Announced(r) \/ Silent(r))
  <2>1. [db EXCEPT ![d] = Absent, ![e] = row] \in [Domain -> Row]
    OBVIOUS
  <2> QED BY <1>2, <2>1 DEF UpdateDomain
<1>3. ASSUME NEW d \in Domain, DeleteDomain(r, s, d)
      PROVE  \E table \in [Domain -> Row] : Commit(r, s, table) /\ (Announced(r) \/ Silent(r))
  <2>1. [db EXCEPT ![d] = Absent] \in [Domain -> Row]
    OBVIOUS
  <2> QED BY <1>3, <2>1 DEF DeleteDomain
<1>4. ASSUME NEW old \in Category, NEW new \in Category, RenameCategory(r, s, old, new)
      PROVE  \E table \in [Domain -> Row] : Commit(r, s, table) /\ (Announced(r) \/ Silent(r))
  <2>1. [d \in Domain |-> IF db[d] = old THEN new ELSE db[d]] \in [Domain -> Row]
    OBVIOUS
  <2> QED BY <1>4, <2>1 DEF RenameCategory
<1>5. ASSUME NEW D \in SUBSET Domain, NEW c \in Category, ImportDomains(r, s, D, c)
      PROVE  \E table \in [Domain -> Row] : Commit(r, s, table) /\ (Announced(r) \/ Silent(r))
  <2>1. [d \in Domain |-> IF d \in D /\ db[d] = Absent THEN c ELSE db[d]] \in [Domain -> Row]
    OBVIOUS
  <2> QED BY <1>5, <2>1 DEF ImportDomains
<1> QED BY <1>1, <1>2, <1>3, <1>4, <1>5 DEF Admin

(* Moving a worker from one place of Reload to another keeps the type of job.*)
LEMMA GotoType ==
    ASSUME TypeOK, NEW r \in Replica, NEW w \in Worker, NEW place \in Place, Goto(r, w, place)
    PROVE  job' \in [Replica -> [Worker -> [pc : Place, view : View]]]
BY DEF TypeOK, Goto

(* The program counters named in Reload are places. *)
LEMMA PlaceNames ==
    /\ Pipe \subseteq InFlight
    /\ InFlight \subseteq Place
    /\ {"idle", "select", "meta", "del", "sadd", "rename", "l1", "metaCache", "gauge"} = Place
    /\ "idle" \notin InFlight
    /\ "select" \notin InFlight
    /\ "l1" \notin Pipe /\ "metaCache" \notin Pipe /\ "gauge" \notin Pipe
    /\ Pipe = {"meta", "del", "sadd", "rename"}
BY DEF Place, InFlight, Pipe

(* Each statement of Reload keeps the types. *)
LEMMA ReloadType ==
    ASSUME TypeOK, NEW r \in Replica, NEW w \in Worker, Reload(r, w)
    PROVE  TypeOK'
<1> DEFINE Jobs == [Replica -> [Worker -> [pc : Place, view : View]]]
<1>a. job[r][w].view \in View /\ job \in Jobs
  BY DEF TypeOK
<1>b. ViewOf(db) \in View
  BY ViewOfType DEF TypeOK
<1>1. CASE Select(r, w)
  <2>1. [pc |-> IF rdb[r] /\ Members(ViewOf(db)) # {} THEN "meta" ELSE "l1", view |-> ViewOf(db)]
           \in [pc : Place, view : View]
    BY <1>b, PlaceNames
  <2>2. job' \in Jobs
    BY <1>1, <1>a, <2>1 DEF Select
  <2>3. excuse' \in [Replica -> BOOLEAN]
    BY <1>1 DEF Select, TypeOK
  <2> QED
    BY <1>1, <2>2, <2>3 DEF Select, TypeOK, store, redis, caches, process
<1>2. CASE SelectFails(r, w)
  <2>1. [pc |-> "l1", view |-> Blank] \in [pc : Place, view : View]
    BY BlankType, PlaceNames
  <2>2. job' \in Jobs
    BY <1>2, <1>a, <2>1 DEF SelectFails
  <2>3. excuse' \in [Replica -> BOOLEAN]
    BY <1>2 DEF SelectFails, TypeOK
  <2>4. left' \in [Fault -> Nat]
    BY <1>2, SpendType DEF SelectFails, Fault
  <2> QED
    BY <1>2, <2>2, <2>3, <2>4 DEF SelectFails, TypeOK, store, redis, caches, process
<1>3. CASE PipeMeta(r, w)
  <2>1. rmeta' \in View
    BY <1>3, <1>a DEF PipeMeta, TypeOK, View
  <2>2. job' \in Jobs
    BY <1>3, GotoType, PlaceNames DEF PipeMeta
  <2> QED
    BY <1>3, <2>1, <2>2 DEF PipeMeta, TypeOK, store, caches, process
<1>4. CASE PipeDel(r, w)
  <2>1. job' \in Jobs
    BY <1>4, GotoType, PlaceNames DEF PipeDel
  <2> QED
    BY <1>4, <2>1 DEF PipeDel, TypeOK, store, caches, process
<1>5. CASE PipeSAdd(r, w)
  <2>1. job' \in Jobs
    BY <1>5, GotoType, PlaceNames DEF PipeSAdd
  <2>2. rtmp' \in SUBSET Domain
    BY <1>5, GaugeType DEF PipeSAdd, TypeOK
  <2> QED
    BY <1>5, <2>1, <2>2 DEF PipeSAdd, TypeOK, store, caches, process
<1>6. CASE PipeRename(r, w)
  <2>1. job' \in Jobs
    BY <1>6, GotoType, PlaceNames DEF PipeRename
  <2> QED
    BY <1>6, <2>1 DEF PipeRename, TypeOK, store, caches, process
<1>7. CASE PipeBroken(r, w)
  <2>1. job' \in Jobs
    BY <1>7, GotoType, PlaceNames DEF PipeBroken
  <2>2. left' \in [Fault -> Nat]
    BY <1>7, SpendType DEF PipeBroken, Fault
  <2> QED
    BY <1>7, <2>1, <2>2 DEF PipeBroken, TypeOK, store, redis, caches, process
<1>8. CASE SwapL1(r, w)
  <2>1. job' \in Jobs
    BY <1>8, GotoType, PlaceNames DEF SwapL1
  <2>2. l1' \in [Replica -> SUBSET Domain]
    BY <1>8, GaugeType DEF SwapL1, TypeOK
  <2> QED
    BY <1>8, <2>1, <2>2 DEF SwapL1, TypeOK, store, redis, process
<1>9. CASE SwapMeta(r, w)
  <2>1. job' \in Jobs
    BY <1>9, GotoType, PlaceNames DEF SwapMeta
  <2> QED
    BY <1>9, <2>1, <1>a DEF SwapMeta, TypeOK, store, redis, process
<1>10. CASE SetGauge(r, w)
  <2>1. Idle \in [pc : Place, view : View]
    BY BlankType, PlaceNames DEF Idle
  <2>2. job' \in Jobs
    BY <1>10, <1>a, <2>1 DEF SetGauge
  <2>3. gauge' \in [Replica -> Nat]
    BY <1>10, GaugeType DEF SetGauge, TypeOK
  <2>4. phase' \in [Replica -> {"down", "warming", "up"}]
    BY <1>10 DEF SetGauge, TypeOK
  <2> QED
    BY <1>10, <2>2, <2>3, <2>4 DEF SetGauge, TypeOK, store, redis
<1> QED
  BY <1>1, <1>2, <1>3, <1>4, <1>5, <1>6, <1>7, <1>8, <1>9, <1>10 DEF Reload

(* Every step keeps the types. *)
LEMMA NextType == TypeOK /\ [Next]_vars => TypeOK'
<1> SUFFICES ASSUME TypeOK, [Next]_vars PROVE TypeOK'
  OBVIOUS
<1> DEFINE Jobs == [Replica -> [Worker -> [pc : Place, view : View]]]
<1>a. "main" \in Worker /\ "subscriber" \in Worker
  BY DEF Worker
<1>b. [pc |-> "select", view |-> Blank] \in [pc : Place, view : View]
  BY BlankType, PlaceNames
<1>1. CASE Evict
  <2>1. left' \in [Fault -> Nat]
    BY <1>1, SpendType DEF Evict, Fault
  <2>2. rset' \in SUBSET Domain /\ rtmp' \in SUBSET Domain /\ rmeta' \in View
    BY <1>1 DEF Evict, TypeOK, View
  <2> QED
    BY <1>1, <2>1, <2>2 DEF Evict, TypeOK, store, caches, process
<1>2. ASSUME NEW r \in Replica, Boot(r) PROVE TypeOK'
  <2>1. left' \in [Fault -> Nat]
    BY <1>2, SpendType DEF Boot, TypeOK, Fault
  <2>2. job' \in Jobs
    BY <1>2, <1>a, <1>b DEF Boot, TypeOK
  <2>3. /\ phase' \in [Replica -> {"down", "warming", "up"}]
        /\ rdb' \in [Replica -> BOOLEAN]
    BY <1>2 DEF Boot, TypeOK
  <2> QED
    BY <1>2, <2>1, <2>2, <2>3 DEF Boot, TypeOK, store, redis, caches
<1>3. ASSUME NEW r \in Replica, Subscribe(r) PROVE TypeOK'
  BY <1>3 DEF Subscribe, TypeOK, store, redis, caches
<1>4. ASSUME NEW r \in Replica, Receive(r) PROVE TypeOK'
  <2>1. job' \in Jobs
    BY <1>4, <1>a, <1>b DEF Receive, TypeOK
  <2>2. inbox' \in [Replica -> Nat]
    BY <1>4 DEF Receive, TypeOK
  <2> QED
    BY <1>4, <2>1, <2>2 DEF Receive, TypeOK, store, redis, caches, process
<1>5. ASSUME NEW r \in Replica, Publish(r) PROVE TypeOK'
  <2>1. left' \in [Fault -> Nat]
    BY <1>5, SpendType DEF Publish, TypeOK, Fault
  <2>2. pubs' \in [Replica -> Nat]
    BY <1>5 DEF Publish, TypeOK
  <2>3. inbox' \in [Replica -> Nat]
    BY <1>5 DEF Publish, TypeOK
  <2>4. excuse' \in [Replica -> BOOLEAN]
    BY <1>5 DEF Publish, TypeOK
  <2> QED
    BY <1>5, <2>1, <2>2, <2>3, <2>4 DEF Publish, TypeOK, store, redis, caches, process
<1>6. ASSUME NEW r \in Replica, Crash(r) PROVE TypeOK'
  <2>1. left' \in [Fault -> Nat]
    BY <1>6, SpendType DEF Crash, Fault
  <2>2. Idle \in [pc : Place, view : View]
    BY BlankType, PlaceNames DEF Idle
  <2>3. job' \in Jobs
    BY <1>6, <2>2 DEF Crash, TypeOK
  <2>4. /\ l1' \in [Replica -> SUBSET Domain]
        /\ meta' \in [Replica -> View]
        /\ gauge' \in [Replica -> Nat]
    BY <1>6, BlankType DEF Crash, TypeOK
  <2>5. /\ phase' \in [Replica -> {"down", "warming", "up"}]
        /\ rdb' \in [Replica -> BOOLEAN]
        /\ subscribed' \in [Replica -> BOOLEAN]
        /\ inbox' \in [Replica -> Nat]
        /\ pubs' \in [Replica -> Nat]
    BY <1>6 DEF Crash, TypeOK
  <2>6. excuse' \in [Replica -> BOOLEAN]
    BY <1>6 DEF Crash, TypeOK
  <2> QED
    BY <1>6, <2>1, <2>3, <2>4, <2>5, <2>6 DEF Crash, TypeOK, store, redis
<1>7. ASSUME NEW r \in Replica, NEW s \in GoSlot, Admin(r, s) PROVE TypeOK'
  BY <1>7, AdminCommits, CommitType
<1>8. ASSUME NEW r \in Replica, NEW w \in Worker, Reload(r, w) PROVE TypeOK'
  BY <1>8, ReloadType
<1>9. CASE UNCHANGED vars
  BY <1>9 DEF vars, TypeOK, store, redis, caches, process
<1> QED
  BY <1>1, <1>2, <1>3, <1>4, <1>5, <1>6, <1>7, <1>8, <1>9 DEF Next

(* Every variable of the cache keeps its type. *)
THEOREM TypeCorrect == Spec => []TypeOK
BY InitType, NextType, PTL DEF Spec

------------------------------------------------------------------------------
(* Provenance.                                                               *)

(* History only grows and budgets only shrink; only a mutation touches the   *)
(* table and its history, and it records the view it commits.                *)
LEMMA HistoryGrows ==
    ASSUME TypeOK, [Next]_vars
    PROVE  /\ committed \subseteq committed'
           /\ left'["select"] <= left["select"]
           /\ ViewOf(db) \in committed => ViewOf(db)' \in committed'
<1>a. left["select"] \in Nat
  BY DEF TypeOK, Fault
<1> DEFINE Goal == /\ committed \subseteq committed'
                   /\ left'["select"] <= left["select"]
                   /\ ViewOf(db) \in committed => ViewOf(db)' \in committed'
<1>b. UNCHANGED <<store, left>> => Goal
  BY <1>a DEF store, ViewOf
<1>c. ASSUME UNCHANGED store, NEW kind \in Fault, Spend(kind) PROVE Goal
  BY <1>c, SpendType DEF store, ViewOf
<1> USE DEF Fault
<1>1. CASE Evict
  BY <1>1, <1>c DEF Evict
<1>2. ASSUME NEW r \in Replica, Boot(r) PROVE Goal
  BY <1>2, <1>b, <1>c DEF Boot
<1>3. ASSUME NEW r \in Replica, Subscribe(r) \/ Receive(r) PROVE Goal
  BY <1>3, <1>b DEF Subscribe, Receive
<1>4. ASSUME NEW r \in Replica, Publish(r) PROVE Goal
  BY <1>4, <1>b, <1>c DEF Publish
<1>5. ASSUME NEW r \in Replica, Crash(r) PROVE Goal
  BY <1>5, <1>c DEF Crash
<1>6. ASSUME NEW r \in Replica, NEW s \in GoSlot, Admin(r, s) PROVE Goal
  <2>1. PICK table \in [Domain -> Row] : Commit(r, s, table)
    BY <1>6, AdminCommits
  <2>2. ViewOf(db)' = ViewOf(table)
    BY <2>1 DEF Commit, ViewOf
  <2>3. left'["select"] <= left["select"]
    BY <2>1, SpendType DEF Commit
  <2> QED
    BY <2>1, <2>2, <2>3 DEF Commit
<1>7. ASSUME NEW r \in Replica, NEW w \in Worker, Reload(r, w) PROVE Goal
  BY <1>7, <1>b, <1>c DEF Reload, Select, SelectFails, PipeMeta, PipeDel, PipeSAdd,
                          PipeRename, PipeBroken, SwapL1, SwapMeta, SetGauge
<1>8. CASE UNCHANGED vars
  BY <1>8, <1>b DEF vars
<1> QED
  BY <1>1, <1>2, <1>3, <1>4, <1>5, <1>6, <1>7, <1>8 DEF Next

(* A step of one Reload leaves every other worker where it is.               *)
LEMMA ReloadKeepsOthers ==
    ASSUME TypeOK, NEW r \in Replica, NEW w \in Worker, Reload(r, w),
           NEW q \in Replica, NEW x \in Worker, q # r \/ x # w
    PROVE  job'[q][x] = job[q][x]
<1>1. job \in [Replica -> [Worker -> [pc : Place, view : View]]]
  BY DEF TypeOK
<1>2. CASE Select(r, w) \/ SelectFails(r, w) \/ SetGauge(r, w)
  BY <1>1, <1>2 DEF Select, SelectFails, SetGauge
<1>3. CASE \/ PipeMeta(r, w) \/ PipeDel(r, w) \/ PipeSAdd(r, w) \/ PipeRename(r, w)
           \/ PipeBroken(r, w) \/ SwapL1(r, w) \/ SwapMeta(r, w)
  BY <1>1, <1>3 DEF PipeMeta, PipeDel, PipeSAdd, PipeRename, PipeBroken, SwapL1, SwapMeta, Goto
<1> QED
  BY <1>2, <1>3 DEF Reload

(* A step of one Reload moves one worker, and the rows it read stay with it  *)
(* from the SELECT to the end.                                               *)
LEMMA ReloadMovesOneJob ==
    ASSUME TypeOK, NEW r \in Replica, NEW w \in Worker, Reload(r, w)
    PROVE  \/ /\ job[r][w].pc = "select"
              /\ job'[r][w].view = ViewOf(db)
              /\ job'[r][w].pc \in {"meta", "l1"}
              /\ job'[r][w].pc = "meta" => Members(ViewOf(db)) # {}
           \/ /\ job[r][w].pc = "select"
              /\ job'[r][w] = [pc |-> "l1", view |-> Blank]
              /\ left'["select"] < left["select"]
           \/ /\ job[r][w].pc \in Pipe
              /\ job'[r][w].pc \in Pipe \cup {"l1"}
              /\ job'[r][w].view = job[r][w].view
           \/ /\ job[r][w].pc = "l1"
              /\ job'[r][w] = [pc |-> "metaCache", view |-> job[r][w].view]
           \/ /\ job[r][w].pc = "metaCache"
              /\ job'[r][w] = [pc |-> "gauge", view |-> job[r][w].view]
           \/ /\ job[r][w].pc = "gauge"
              /\ job'[r][w] = Idle
<1>1. job \in [Replica -> [Worker -> [pc : Place, view : View]]]
  BY DEF TypeOK
<1>2. CASE Select(r, w)
  BY <1>1, <1>2 DEF Select
<1>3. CASE SelectFails(r, w)
  <2>1. left'["select"] < left["select"]
    BY <1>3, SpendType DEF SelectFails, Fault
  <2> QED
    BY <1>1, <1>3, <2>1 DEF SelectFails
<1>4. CASE PipeMeta(r, w) \/ PipeDel(r, w) \/ PipeSAdd(r, w) \/ PipeRename(r, w) \/ PipeBroken(r, w)
  BY <1>1, <1>4 DEF PipeMeta, PipeDel, PipeSAdd, PipeRename, PipeBroken, Goto, Pipe
<1>5. CASE SwapL1(r, w)
  BY <1>1, <1>5 DEF SwapL1, Goto
<1>6. CASE SwapMeta(r, w)
  BY <1>1, <1>6 DEF SwapMeta, Goto
<1>7. CASE SetGauge(r, w)
  BY <1>1, <1>7 DEF SetGauge
<1> QED
  BY <1>2, <1>3, <1>4, <1>5, <1>6, <1>7 DEF Reload

(* What a Reload carries stays a committed version.                          *)
LEMMA NextJobs ==
    ASSUME Provenance, [Next]_vars
    PROVE  JobsCarryCommitted'
<1>a. /\ committed \subseteq committed'
      /\ SelectFailed => SelectFailed'
      /\ left'["select"] <= left["select"]
      /\ left["select"] <= Budget["select"]
      /\ {left["select"], left'["select"], Budget["select"]} \subseteq Int
  <2>1. /\ left["select"] \in Nat /\ Budget["select"] \in Nat
        /\ TypeOK' /\ TypeOK
    BY CacheSyncAssumption, NextType DEF Provenance, TypeOK, Fault
  <2>2. left'["select"] \in Nat
    BY <2>1 DEF TypeOK, Fault
  <2> QED
    BY <2>1, <2>2, HistoryGrows DEF Provenance, SelectFailed
<1> DEFINE Carries(j) == /\ j.pc \in InFlight =>
                               \/ j.view \in committed
                               \/ SelectFailed /\ j.view = Blank
                         /\ j.pc \in Pipe => j.view \in committed /\ Members(j.view) # {}
           Carries2(j) == /\ j.pc \in InFlight =>
                               \/ j.view \in committed'
                               \/ SelectFailed' /\ j.view = Blank
                          /\ j.pc \in Pipe => j.view \in committed' /\ Members(j.view) # {}
<1>b. \A q \in Replica, x \in Worker : Carries(job[q][x])
  BY DEF Provenance, JobsCarryCommitted
<1>c. \A j : Carries(j) => Carries2(j)
  BY <1>a
<1>d. \A v : Carries2([pc |-> "select", view |-> v]) /\ Carries2([pc |-> "idle", view |-> v])
  BY PlaceNames
<1> SUFFICES ASSUME NEW q \in Replica, NEW x \in Worker PROVE Carries2(job'[q][x])
  BY DEF JobsCarryCommitted
<1> HIDE DEF Carries, Carries2
<1>e. job \in [Replica -> [Worker -> [pc : Place, view : View]]]
  BY DEF Provenance, TypeOK
<1>f. job'[q][x] = job[q][x] => Carries2(job'[q][x])
  BY <1>b, <1>c
<1>1. CASE Evict
  BY <1>1, <1>f DEF Evict
<1>2. ASSUME NEW r \in Replica, Boot(r) PROVE Carries2(job'[q][x])
  <2>1. job'[q][x] = job[q][x] \/ job'[q][x] = [pc |-> "select", view |-> Blank]
    BY <1>2, <1>e DEF Boot
  <2> QED
    BY <2>1, <1>f, <1>d
<1>3. ASSUME NEW r \in Replica, Subscribe(r) \/ Publish(r) PROVE Carries2(job'[q][x])
  BY <1>3, <1>f DEF Subscribe, Publish
<1>4. ASSUME NEW r \in Replica, Receive(r) PROVE Carries2(job'[q][x])
  <2>1. job'[q][x] = job[q][x] \/ job'[q][x] = [pc |-> "select", view |-> Blank]
    BY <1>4, <1>e DEF Receive
  <2> QED
    BY <2>1, <1>f, <1>d
<1>5. ASSUME NEW r \in Replica, Crash(r) PROVE Carries2(job'[q][x])
  <2>1. job'[q][x] = job[q][x] \/ job'[q][x] = [pc |-> "idle", view |-> Blank]
    BY <1>5, <1>e DEF Crash, Idle
  <2> QED
    BY <2>1, <1>f, <1>d
<1>6. ASSUME NEW r \in Replica, NEW s \in GoSlot, Admin(r, s) PROVE Carries2(job'[q][x])
  <2>1. PICK table \in [Domain -> Row] : Commit(r, s, table)
    BY <1>6, AdminCommits DEF Provenance
  <2>2. job'[q][x] = job[q][x] \/ job'[q][x] = [pc |-> "select", view |-> Blank]
    BY <2>1, <1>e DEF Commit
  <2> QED
    BY <2>2, <1>f, <1>d
<1>7. ASSUME NEW r \in Replica, NEW w \in Worker, Reload(r, w) PROVE Carries2(job'[q][x])
  <2>0. ASSUME q # r \/ x # w PROVE job'[q][x] = job[q][x]
    BY <1>7, <2>0, ReloadKeepsOthers DEF Provenance
  <2> SUFFICES ASSUME q = r, x = w PROVE Carries2(job'[q][x])
    BY <2>0, <1>f
  <2> DEFINE old == job[r][w]
             new == job'[r][w]
  <2>1. Carries(old)
    BY <1>b
  <2>2. ViewOf(db) \in committed'
    BY <1>a DEF Provenance
  <2>3. \/ /\ new.view = ViewOf(db)
           /\ new.pc \in {"meta", "l1"}
           /\ new.pc = "meta" => Members(ViewOf(db)) # {}
        \/ /\ new = [pc |-> "l1", view |-> Blank]
           /\ left'["select"] < left["select"]
        \/ /\ old.pc \in Pipe
           /\ new.pc \in Pipe \cup {"l1"}
           /\ new.view = old.view
        \/ /\ old.pc = "l1"
           /\ new = [pc |-> "metaCache", view |-> old.view]
        \/ /\ old.pc = "metaCache"
           /\ new = [pc |-> "gauge", view |-> old.view]
        \/ new = Idle
    BY <1>7, ReloadMovesOneJob DEF Provenance
  <2> HIDE DEF old, new
  <2>4. CASE /\ new.view = ViewOf(db)
             /\ new.pc \in {"meta", "l1"}
             /\ new.pc = "meta" => Members(ViewOf(db)) # {}
    <3>1. Carries2(new)
      BY <2>4, <2>2, PlaceNames DEF Carries2
    <3> QED
      BY <3>1 DEF new
  <2>5. CASE new = [pc |-> "l1", view |-> Blank] /\ left'["select"] < left["select"]
    <3>1. SelectFailed'
      BY <2>5, <1>a DEF SelectFailed
    <3>2. new.pc = "l1" /\ new.view = Blank
      BY <2>5
    <3>3. Carries2(new)
      BY <3>1, <3>2, PlaceNames DEF Carries2
    <3> QED
      BY <3>3 DEF new
  <2>6. CASE old.pc \in Pipe /\ new.pc \in Pipe \cup {"l1"} /\ new.view = old.view
    <3>1. Carries2(new)
      BY <2>6, <2>1, <1>a, PlaceNames DEF Carries, Carries2
    <3> QED
      BY <3>1 DEF new
  <2>7. CASE \/ old.pc = "l1" /\ new = [pc |-> "metaCache", view |-> old.view]
             \/ old.pc = "metaCache" /\ new = [pc |-> "gauge", view |-> old.view]
    <3>1. new.view = old.view /\ old.pc \in InFlight /\ new.pc \notin Pipe
      BY <2>7, PlaceNames DEF InFlight
    <3>2. Carries2(new)
      BY <3>1, <2>1, <1>a DEF Carries, Carries2
    <3> QED
      BY <3>2 DEF new
  <2>8. CASE new = Idle
    BY <2>8, <1>d DEF new, Idle
  <2> QED
    BY <2>3, <2>4, <2>5, <2>6, <2>7, <2>8
<1>8. CASE UNCHANGED vars
  BY <1>8, <1>f DEF vars
<1> QED
  BY <1>1, <1>2, <1>3, <1>4, <1>5, <1>6, <1>7, <1>8 DEF Next

(* The hot set of a serving replica, and of a replica whose warm-up is past  *)
(* the assignment, stays a committed version; so does its metaCache.         *)
LEMMA NextServed ==
    ASSUME Provenance, [Next]_vars
    PROVE  WarmUpAssigns'
<1>a. /\ committed \subseteq committed'
      /\ SelectFailed => SelectFailed'
      /\ TypeOK
  <2>1. left["select"] \in Nat /\ left'["select"] \in Nat /\ Budget["select"] \in Nat
    BY CacheSyncAssumption, NextType DEF Provenance, TypeOK, Fault
  <2> QED
    BY <2>1, HistoryGrows DEF Provenance, SelectFailed
<1> SUFFICES ASSUME NEW q \in Replica
             PROVE  /\ phase'[q] = "up" \/ job'[q]["main"].pc \in {"metaCache", "gauge"}
                          => L1IsCommitted(q)'
                    /\ phase'[q] = "up" \/ job'[q]["main"].pc = "gauge"
                          => MetaIsCommitted(q)'
  BY DEF WarmUpAssigns
<1> DEFINE Goal == /\ phase'[q] = "up" \/ job'[q]["main"].pc \in {"metaCache", "gauge"}
                          => L1IsCommitted(q)'
                   /\ phase'[q] = "up" \/ job'[q]["main"].pc = "gauge"
                          => MetaIsCommitted(q)'
<1>b. l1'[q] = l1[q] /\ L1IsCommitted(q) => L1IsCommitted(q)'
  BY <1>a DEF L1IsCommitted
<1>c. meta'[q] = meta[q] /\ MetaIsCommitted(q) => MetaIsCommitted(q)'
  BY <1>a DEF MetaIsCommitted
<1>d. /\ phase[q] = "up" \/ job[q]["main"].pc \in {"metaCache", "gauge"} => L1IsCommitted(q)
      /\ phase[q] = "up" \/ job[q]["main"].pc = "gauge" => MetaIsCommitted(q)
  BY DEF Provenance, WarmUpAssigns
<1>e. /\ "main" \in Worker
      /\ job \in [Replica -> [Worker -> [pc : Place, view : View]]]
  BY <1>a DEF Worker, TypeOK
(* Steps that leave the caches alone and put main at no place but select or  *)
(* idle disturb nothing.                                                     *)
<1>f. ASSUME UNCHANGED caches, phase'[q] = "up" => phase[q] = "up",
             \/ job'[q]["main"].pc = job[q]["main"].pc
             \/ job'[q]["main"].pc \notin {"metaCache", "gauge"}
      PROVE  Goal
  <2>1. l1'[q] = l1[q] /\ meta'[q] = meta[q]
    BY <1>f DEF caches
  <2> QED
    BY <1>b, <1>c, <1>d, <1>f, <2>1
<1>1. CASE Evict
  BY <1>1, <1>f DEF Evict, process
<1>2. ASSUME NEW r \in Replica, Boot(r) PROVE Goal
  <2>1. phase'[q] = "up" => phase[q] = "up"
    BY <1>2, <1>a DEF Boot, TypeOK
  <2>2. job'[q]["main"].pc = job[q]["main"].pc \/ job'[q]["main"].pc = "select"
    BY <1>2, <1>e DEF Boot
  <2>3. UNCHANGED caches
    BY <1>2 DEF Boot
  <2> QED
    BY <2>1, <2>2, <2>3, <1>f
<1>3. ASSUME NEW r \in Replica, Subscribe(r) \/ Publish(r) PROVE Goal
  BY <1>3, <1>f DEF Subscribe, Publish, process
<1>4. ASSUME NEW r \in Replica, Receive(r) PROVE Goal
  <2>1. job'[q]["main"].pc = job[q]["main"].pc
    BY <1>4, <1>e DEF Receive
  <2> QED
    BY <1>4, <2>1, <1>f DEF Receive, process
<1>5. ASSUME NEW r \in Replica, Crash(r) PROVE Goal
  <2>1. CASE q = r
    <3>1. phase'[q] # "up" /\ job'[q]["main"].pc = "idle"
      BY <1>5, <2>1, <1>a, <1>e DEF Crash, TypeOK, Idle
    <3> QED
      BY <3>1
  <2>2. CASE q # r
    <3>1. /\ phase'[q] = phase[q]
          /\ job'[q] = job[q]
          /\ l1'[q] = l1[q]
          /\ meta'[q] = meta[q]
      BY <1>5, <2>2, <1>a DEF Crash, TypeOK
    <3> QED
      BY <3>1, <1>b, <1>c, <1>d
  <2> QED
    BY <2>1, <2>2
<1>6. ASSUME NEW r \in Replica, NEW s \in GoSlot, Admin(r, s) PROVE Goal
  <2>1. PICK table \in [Domain -> Row] : Commit(r, s, table)
    BY <1>6, <1>a, AdminCommits
  <2>2. job'[q]["main"].pc = job[q]["main"].pc \/ job'[q]["main"].pc = "select"
    BY <2>1, <1>e DEF Commit
  <2> QED
    BY <2>1, <2>2, <1>f DEF Commit, process
<1>7. ASSUME NEW r \in Replica, NEW w \in Worker, Reload(r, w) PROVE Goal
  <2>a. job[r][w].pc \in InFlight =>
           (job[r][w].view \in committed \/ (SelectFailed /\ job[r][w].view = Blank))
    BY DEF Provenance, JobsCarryCommitted
  <2>b. q # r \/ w # "main" => job'[q]["main"] = job[q]["main"]
    BY <1>7, <1>a, <1>e, ReloadKeepsOthers
  <2>1. CASE Select(r, w) \/ SelectFails(r, w)
    <3>1. q = r /\ w = "main" => job'[q]["main"].pc \in {"meta", "l1"}
      BY <2>1, <1>e DEF Select, SelectFails
    <3> QED
      BY <2>1, <2>b, <3>1, <1>f DEF Select, SelectFails, process
  <2>2. CASE \/ PipeMeta(r, w) \/ PipeDel(r, w) \/ PipeSAdd(r, w)
             \/ PipeRename(r, w) \/ PipeBroken(r, w)
    <3>1. q = r /\ w = "main" => job'[q]["main"].pc \in {"meta", "del", "sadd", "rename", "l1"}
      BY <2>2, <1>e DEF PipeMeta, PipeDel, PipeSAdd, PipeRename, PipeBroken, Goto
    <3> QED
      BY <2>2, <2>b, <3>1, <1>f DEF PipeMeta, PipeDel, PipeSAdd, PipeRename, PipeBroken, process
  <2>3. CASE SwapL1(r, w)
    <3>1. /\ phase' = phase
          /\ meta' = meta
          /\ \/ job'[q]["main"].pc = job[q]["main"].pc
             \/ /\ q = r
                /\ job'[q]["main"].pc = "metaCache"
      BY <2>3, <2>b, <1>e DEF SwapL1, Goto, process
    <3>2. CASE q = r
      <4>1. l1'[q] = Members(job[r][w].view)
        BY <2>3, <3>2, <1>a DEF SwapL1, TypeOK
      <4>2. job[r][w].view \in committed \/ SelectFailed
        BY <2>3, <2>a DEF SwapL1, InFlight
      <4>3. L1IsCommitted(q)'
        BY <4>1, <4>2, <1>a DEF L1IsCommitted
      <4> QED
        BY <3>1, <4>3, <1>c, <1>d
    <3>3. CASE q # r
      <4>1. l1'[q] = l1[q]
        BY <2>3, <3>3, <1>a DEF SwapL1, TypeOK
      <4> QED
        BY <3>1, <3>3, <4>1, <1>b, <1>c, <1>d
    <3> QED
      BY <3>2, <3>3
  <2>4. CASE SwapMeta(r, w)
    <3>1. /\ phase' = phase
          /\ l1' = l1
          /\ \/ job'[q]["main"].pc = job[q]["main"].pc
             \/ /\ q = r
                /\ job[q]["main"].pc = "metaCache"
                /\ job'[q]["main"].pc = "gauge"
      BY <2>4, <2>b, <1>e DEF SwapMeta, Goto, process
    <3>2. CASE q = r
      <4>1. meta'[q] = job[r][w].view
        BY <2>4, <3>2, <1>a DEF SwapMeta, TypeOK
      <4>2. job[r][w].view \in committed \/ SelectFailed
        BY <2>4, <2>a DEF SwapMeta, InFlight
      <4>3. MetaIsCommitted(q)'
        BY <4>1, <4>2, <1>a DEF MetaIsCommitted
      <4> QED
        BY <3>1, <4>3, <1>b, <1>d
    <3>3. CASE q # r
      <4>1. meta'[q] = meta[q]
        BY <2>4, <3>3, <1>a DEF SwapMeta, TypeOK
      <4> QED
        BY <3>1, <3>3, <4>1, <1>b, <1>c, <1>d
    <3> QED
      BY <3>2, <3>3
  <2>5. CASE SetGauge(r, w)
    <3>1. /\ l1' = l1
          /\ meta' = meta
          /\ \/ job'[q]["main"].pc = job[q]["main"].pc
             \/ job'[q]["main"].pc = "idle"
          /\ phase'[q] = phase[q] \/ job[q]["main"].pc = "gauge"
      BY <2>5, <2>b, <1>a, <1>e DEF SetGauge, TypeOK, Idle
    <3> QED
      BY <3>1, <1>b, <1>c, <1>d
  <2> QED
    BY <1>7, <2>1, <2>2, <2>3, <2>4, <2>5 DEF Reload
<1>8. CASE UNCHANGED vars
  <2>1. UNCHANGED <<caches, phase, job>>
    BY <1>8 DEF vars, process
  <2> QED
    BY <2>1, <1>f
<1> QED
  BY <1>1, <1>2, <1>3, <1>4, <1>5, <1>6, <1>7, <1>8 DEF Next

(* More history only helps: what was assembled from it still is. *)
LEMMA AssembledGrows ==
    ASSUME committed \subseteq committed', NEW S, Assembled(S)
    PROVE  \A d \in S : \E v \in committed' : d \in Members(v) /\ Members(v) \subseteq S
BY DEF Assembled

(* A version adds itself whole. *)
LEMMA AssembledUnion ==
    ASSUME NEW S, Assembled(S), NEW v \in committed
    PROVE  Assembled(S \cup Members(v))
<1> SUFFICES ASSUME NEW d \in S \cup Members(v)
             PROVE  \E u \in committed : d \in Members(u) /\ Members(u) \subseteq S \cup Members(v)
  BY DEF Assembled
<1>1. CASE d \in S
  BY <1>1 DEF Assembled
<1>2. CASE d \in Members(v)
  BY <1>2
<1> QED
  BY <1>1, <1>2

(* The pipelines may interleave in any way: the set under the temporary key, *)
(* the shared set and the metadata keep coming from committed versions.      *)
LEMMA NextRedis ==
    ASSUME Provenance, [Next]_vars
    PROVE  RedisIsAssembled'
<1>a. committed \subseteq committed' /\ TypeOK
  BY HistoryGrows DEF Provenance
<1>b. /\ Assembled(rset)
      /\ Assembled(rtmp)
      /\ \A d \in Domain : rmeta[d] # Absent => \E v \in committed : v[d] = rmeta[d]
  BY DEF Provenance, RedisIsAssembled
<1>c. Assembled({})
  BY DEF Assembled
<1>s. (Assembled(rset') /\ UNCHANGED committed) \/ rset' = rset => Assembled(rset)'
  BY <1>a, <1>b, AssembledGrows DEF Assembled
<1>t. (Assembled(rtmp') /\ UNCHANGED committed) \/ rtmp' = rtmp => Assembled(rtmp)'
  BY <1>a, <1>b, AssembledGrows DEF Assembled
<1>m. ASSUME \A d \in Domain : \/ rmeta'[d] = rmeta[d]
                               \/ rmeta'[d] = Absent
                               \/ \E v \in committed : v[d] = rmeta'[d]
      PROVE  \A d \in Domain : rmeta'[d] # Absent => \E v \in committed' : v[d] = rmeta'[d]
  BY <1>m, <1>a, <1>b
<1>u. UNCHANGED redis => RedisIsAssembled'
  BY <1>s, <1>t, <1>m DEF redis, RedisIsAssembled
<1>1. CASE Evict
  <2>1. /\ rset' = rset \/ rset' = {}
        /\ rtmp' = rtmp \/ rtmp' = {}
        /\ UNCHANGED committed
    BY <1>1 DEF Evict, store
  <2>2. \A d \in Domain : rmeta'[d] = rmeta[d] \/ rmeta'[d] = Absent
    BY <1>1, <1>a DEF Evict, TypeOK, View
  <2> QED
    BY <2>1, <2>2, <1>b, <1>c, <1>s, <1>t, <1>m DEF RedisIsAssembled
<1>2. ASSUME NEW r \in Replica,
             Boot(r) \/ Subscribe(r) \/ Receive(r) \/ Publish(r) \/ Crash(r)
      PROVE  RedisIsAssembled'
  BY <1>2, <1>u DEF Boot, Subscribe, Receive, Publish, Crash
<1>3. ASSUME NEW r \in Replica, NEW s \in GoSlot, Admin(r, s) PROVE RedisIsAssembled'
  <2>1. PICK table \in [Domain -> Row] : Commit(r, s, table)
    BY <1>3, <1>a, AdminCommits
  <2> QED
    BY <2>1, <1>u DEF Commit
<1>4. ASSUME NEW r \in Replica, NEW w \in Worker, Reload(r, w) PROVE RedisIsAssembled'
  <2>a. job[r][w].pc \in Pipe => job[r][w].view \in committed
    BY DEF Provenance, JobsCarryCommitted
  <2>1. CASE \/ Select(r, w) \/ SelectFails(r, w) \/ PipeBroken(r, w)
             \/ SwapL1(r, w) \/ SwapMeta(r, w) \/ SetGauge(r, w)
    BY <2>1, <1>u DEF Select, SelectFails, PipeBroken, SwapL1, SwapMeta, SetGauge
  <2>2. CASE PipeMeta(r, w)
    <3>1. job[r][w].view \in committed /\ UNCHANGED <<rset, rtmp>>
      BY <2>2, <2>a DEF PipeMeta, Pipe
    <3>2. \A d \in Domain : rmeta'[d] = rmeta[d] \/ rmeta'[d] = job[r][w].view[d]
      BY <2>2 DEF PipeMeta
    <3> QED
      BY <3>1, <3>2, <1>s, <1>t, <1>m DEF RedisIsAssembled
  <2>3. CASE PipeDel(r, w)
    <3>1. rtmp' = {} /\ UNCHANGED <<rset, rmeta, committed>>
      BY <2>3 DEF PipeDel, store
    <3> QED
      BY <3>1, <1>c, <1>s, <1>t, <1>m DEF RedisIsAssembled
  <2>4. CASE PipeSAdd(r, w)
    <3>1. /\ job[r][w].view \in committed
          /\ rtmp' = rtmp \cup Members(job[r][w].view)
          /\ UNCHANGED <<rset, rmeta, committed>>
      BY <2>4, <2>a DEF PipeSAdd, Pipe, store
    <3>2. Assembled(rtmp')
      BY <3>1, <1>b, AssembledUnion
    <3> QED
      BY <3>1, <3>2, <1>s, <1>t, <1>m DEF RedisIsAssembled
  <2>5. CASE PipeRename(r, w)
    <3>1. /\ rset' = rset \/ rset' = rtmp
          /\ rtmp' = {}
          /\ UNCHANGED <<rmeta, committed>>
      BY <2>5 DEF PipeRename, store
    <3>2. Assembled(rset') /\ Assembled(rtmp')
      BY <3>1, <1>b, <1>c
    <3> QED
      BY <3>1, <3>2, <1>s, <1>t, <1>m DEF RedisIsAssembled
  <2> QED
    BY <1>4, <2>1, <2>2, <2>3, <2>4, <2>5 DEF Reload
<1>5. CASE UNCHANGED vars
  BY <1>5, <1>u DEF vars
<1> QED
  BY <1>1, <1>2, <1>3, <1>4, <1>5 DEF Next

(* Nothing is served or shared at the start, and the table is committed. *)
LEMMA InitProvenance == Init => Provenance
<1> SUFFICES ASSUME Init PROVE Provenance
  OBVIOUS
<1>1. TypeOK
  BY InitType
<1>2. left["select"] <= Budget["select"]
  BY CacheSyncAssumption DEF Init, Fault
<1>3. ViewOf(db) \in committed
  BY DEF Init
<1>4. JobsCarryCommitted
  BY PlaceNames DEF Init, JobsCarryCommitted, Idle
<1>5. WarmUpAssigns
  BY DEF Init, WarmUpAssigns, Idle, Worker
<1>6. RedisIsAssembled
  BY DEF Init, RedisIsAssembled, Assembled, Blank
<1> QED
  BY <1>1, <1>2, <1>3, <1>4, <1>5, <1>6 DEF Provenance

(* Every step keeps the inductive invariant. *)
LEMMA NextProvenance == Provenance /\ [Next]_vars => Provenance'
<1> SUFFICES ASSUME Provenance, [Next]_vars PROVE Provenance'
  OBVIOUS
<1>1. TypeOK /\ TypeOK'
  BY NextType DEF Provenance
<1>2. left'["select"] <= Budget["select"]
  <2>1. left["select"] \in Nat /\ left'["select"] \in Nat /\ Budget["select"] \in Nat
    BY <1>1, CacheSyncAssumption DEF TypeOK, Fault
  <2> QED
    BY <1>1, <2>1, HistoryGrows DEF Provenance
<1>3. ViewOf(db)' \in committed'
  BY HistoryGrows DEF Provenance
<1> QED
  BY <1>1, <1>2, <1>3, NextJobs, NextServed, NextRedis DEF Provenance

(* Every view anywhere in the system comes from the history of the table. *)
THEOREM ProvenanceHolds == Spec => []Provenance
BY InitProvenance, NextProvenance, PTL DEF Spec

(* A serving replica answers from one committed version of the table, unless *)
(* a SELECT failed.                                                          *)
THEOREM ServedCorrect == Spec => []ServedIsCommitted
<1>1. Provenance => ServedIsCommitted
  BY DEF Provenance, WarmUpAssigns, L1IsCommitted, MetaIsCommitted, SelectFailed,
         ServedIsCommitted
<1> QED
  BY <1>1, ProvenanceHolds, PTL

(* However the pipelines of the replicas interleave, break off or lose keys, *)
(* the shared set is assembled from committed versions.                      *)
THEOREM SharedCorrect == Spec => []SharedIsAssembled
<1>1. Provenance => SharedIsAssembled
  BY DEF Provenance, RedisIsAssembled, SharedIsAssembled
<1> QED
  BY <1>1, ProvenanceHolds, PTL

(* Only PipeRename and Evict write the shared set. *)
LEMMA SharedWrites ==
    ASSUME Provenance, [Next]_vars, rset' # rset
    PROVE  \/ Evict /\ rset' = {}
           \/ rtmp # {} /\ rset' = rtmp /\ UNCHANGED <<left, committed, l1>>
<1>1. CASE Evict
  BY <1>1 DEF Evict
<1>2. ASSUME NEW r \in Replica,
             Boot(r) \/ Subscribe(r) \/ Receive(r) \/ Publish(r) \/ Crash(r)
      PROVE  FALSE
  BY <1>2 DEF Boot, Subscribe, Receive, Publish, Crash, redis
<1>3. ASSUME NEW r \in Replica, NEW s \in GoSlot, Admin(r, s) PROVE FALSE
  <2>1. PICK table \in [Domain -> Row] : Commit(r, s, table)
    BY <1>3, AdminCommits DEF Provenance
  <2> QED
    BY <2>1 DEF Commit, redis
<1>4. ASSUME NEW r \in Replica, NEW w \in Worker, Reload(r, w)
      PROVE  PipeRename(r, w)
  BY <1>4 DEF Reload, Select, SelectFails, PipeMeta, PipeDel, PipeSAdd, PipeBroken,
              SwapL1, SwapMeta, SetGauge, redis
<1>5. ASSUME NEW r \in Replica, NEW w \in Worker, PipeRename(r, w)
      PROVE  rtmp # {} /\ rset' = rtmp /\ UNCHANGED <<left, committed, l1>>
  BY <1>5 DEF PipeRename, store, caches
<1>6. CASE UNCHANGED vars
  BY <1>6 DEF vars, redis
<1> QED
  BY <1>1, <1>2, <1>3, <1>4, <1>5, <1>6 DEF Next

(* The BUG-5 fix: no step but an eviction empties the shared set, and none   *)
(* drops a domain that every version has.                                    *)
THEOREM SwapCorrect == Spec => SwapIsAtomic
<1> DEFINE Swap == \/ left'["evict"] < left["evict"]
                   \/ /\ rset # {} => rset' # {}
                      /\ \A d \in rset \ rset' : \E v \in committed : d \notin Members(v)
<1>1. ASSUME Provenance, [Next]_vars PROVE Swap
  <2>1. CASE rset' = rset
    BY <2>1
  <2>2. CASE Evict
    BY <1>1, <2>2, SpendType DEF Evict, Provenance, Fault
  <2>3. CASE rtmp # {} /\ rset' = rtmp
    <3>1. Assembled(rtmp)
      BY <1>1 DEF Provenance, RedisIsAssembled
    <3>2. PICK v \in committed : Members(v) \subseteq rtmp
      BY <2>3, <3>1 DEF Assembled
    <3> QED
      BY <2>3, <3>2
  <2> QED
    BY <1>1, <2>1, <2>2, <2>3, SharedWrites
<1>2. Provenance /\ [Next]_vars => [Swap]_vars
  BY <1>1
<1> QED
  BY <1>2, ProvenanceHolds, PTL DEF Spec, SwapIsAtomic

------------------------------------------------------------------------------
(* CacheSync implements BlocklistView.                                       *)

(* Outside Reload, only mutations, crashes and evictions are seen.           *)
LEMMA EventSimulation ==
    ASSUME Provenance, [Next]_vars,
           ~ \E r \in Replica, w \in Worker : Reload(r, w)
    PROVE  [Promised!Next]_(Promised!viewVars)
<1>1. CASE Evict
  <2>1. UNCHANGED <<committed, l1, meta>>
    BY <1>1 DEF Evict, store, caches
  <2>2. CASE rset' = {} /\ UNCHANGED rmeta
    BY <2>1, <2>2 DEF Promised!Expire, Promised!Next
  <2>3. CASE UNCHANGED <<rset, rmeta>>
    BY <2>1, <2>3 DEF Promised!viewVars
  <2>4. CASE (\E d \in Domain : rmeta' = [rmeta EXCEPT ![d] = Absent]) /\ UNCHANGED rset
    BY <2>1, <2>4 DEF Promised!Expire, Promised!Next
  <2> QED
    BY <1>1, <2>2, <2>3, <2>4 DEF Evict
<1>2. ASSUME NEW r \in Replica, Boot(r) \/ Subscribe(r) \/ Receive(r) \/ Publish(r)
      PROVE  UNCHANGED Promised!viewVars
  BY <1>2 DEF Boot, Subscribe, Receive, Publish, store, redis, caches, Promised!viewVars
<1>3. ASSUME NEW r \in Replica, NEW s \in GoSlot, Admin(r, s)
      PROVE  Promised!Commit
  <2>1. PICK table \in [Domain -> Row] : Commit(r, s, table)
    BY <1>3, AdminCommits DEF Provenance
  <2>2. ViewOf(table) \in Promised!View
    BY ViewOfType DEF View, Promised!View
  <2>3. committed' = committed \cup {ViewOf(table)} /\ UNCHANGED <<l1, meta, rset, rmeta>>
    BY <2>1 DEF Commit, redis, caches
  <2> QED
    BY <2>2, <2>3 DEF Promised!Commit
<1>4. ASSUME NEW r \in Replica, Crash(r) PROVE Promised!Forget(r)
  BY <1>4 DEF Crash, store, redis, Blank, Promised!Forget, Promised!Blank
<1>5. CASE UNCHANGED vars
  BY <1>5 DEF vars, store, redis, caches, Promised!viewVars
<1> QED
  BY <1>1, <1>2, <1>3, <1>4, <1>5 DEF Next, Promised!Next

(* The steps of Reload: what a job carries was committed, so what it assigns *)
(* or sends to Redis is what BlocklistView allows.                           *)
LEMMA ReloadSimulation ==
    ASSUME Provenance, NEW r \in Replica, NEW w \in Worker, Reload(r, w)
    PROVE  [Promised!Next]_(Promised!viewVars)
<1> DEFINE v == job[r][w].view
<1>1. CASE Select(r, w) \/ SelectFails(r, w) \/ PipeDel(r, w) \/ PipeSAdd(r, w)
           \/ PipeBroken(r, w) \/ SetGauge(r, w)
  BY <1>1 DEF Select, SelectFails, PipeDel, PipeSAdd, PipeBroken, SetGauge,
              store, redis, caches, Promised!viewVars
<1>2. CASE PipeMeta(r, w)
  <2>1. v \in committed
    BY <1>2 DEF PipeMeta, Provenance, JobsCarryCommitted, Pipe
  <2>2. /\ rmeta' = [d \in Domain |-> IF d \in Promised!Members(v) THEN v[d] ELSE rmeta[d]]
        /\ UNCHANGED <<committed, l1, meta, rset>>
    BY <1>2 DEF PipeMeta, Members, Promised!Members, store, caches
  <2> QED
    BY <2>1, <2>2 DEF Promised!Label, Promised!Next
<1>3. CASE PipeRename(r, w)
  <2>1. UNCHANGED <<committed, l1, meta, rmeta>>
    BY <1>3 DEF PipeRename, store, caches
  <2>2. CASE rtmp = {}
    BY <1>3, <2>1, <2>2 DEF PipeRename, Promised!viewVars
  <2>3. CASE rtmp # {}
    <3>1. rset' = rtmp
      BY <1>3, <2>3 DEF PipeRename
    <3>2. rset' \in (SUBSET Domain) \ {{}}
      BY <2>3, <3>1 DEF Provenance, TypeOK
    <3>3. \A d \in rset' : \E m \in committed :
             d \in Promised!Members(m) /\ Promised!Members(m) \subseteq rset'
      BY <3>1 DEF Provenance, RedisIsAssembled, Assembled, Members, Promised!Members
    <3> QED
      BY <2>1, <3>2, <3>3 DEF Promised!Share, Promised!Next
  <2> QED
    BY <2>2, <2>3
<1>4. CASE SwapL1(r, w)
  <2>1. l1' = [l1 EXCEPT ![r] = Members(v)] /\ UNCHANGED <<committed, meta, rset, rmeta>>
    BY <1>4 DEF SwapL1, store, redis
  <2>2. v \in committed \/ v = Blank
    BY <1>4 DEF SwapL1, Provenance, JobsCarryCommitted, InFlight
  <2>3. CASE v \in committed
    BY <2>1, <2>3 DEF Members, Promised!Members, Promised!Show, Promised!Next
  <2>4. CASE v = Blank
    BY <2>1, <2>4, BlankType DEF Promised!Forget, Promised!Next
  <2> QED
    BY <2>2, <2>3, <2>4
<1>5. CASE SwapMeta(r, w)
  <2>1. meta' = [meta EXCEPT ![r] = v] /\ UNCHANGED <<committed, l1, rset, rmeta>>
    BY <1>5 DEF SwapMeta, store, redis
  <2>2. v \in committed \/ v = Blank
    BY <1>5 DEF SwapMeta, Provenance, JobsCarryCommitted, InFlight
  <2>3. CASE v \in committed
    BY <2>1, <2>3 DEF Promised!Describe, Promised!Next
  <2>4. CASE v = Blank
    BY <2>1, <2>4 DEF Blank, Promised!Blank, Promised!Forget, Promised!Next
  <2> QED
    BY <2>2, <2>3, <2>4
<1> QED
  BY <1>1, <1>2, <1>3, <1>4, <1>5 DEF Reload

(* The cache shows and describes committed versions and shares unions of     *)
(* them: it implements BlocklistView.                                        *)
THEOREM Implementation == Spec => ImplementsView
<1>1. Init => Promised!Init
  <2> SUFFICES ASSUME Init PROVE Promised!Init
    OBVIOUS
  <2>1. ViewOf(db) \in Promised!View
    BY ViewOfType DEF Init, View, Promised!View
  <2> QED
    BY <2>1 DEF Init, Blank, Promised!Blank, Promised!Init
<1>2. Provenance /\ [Next]_vars => [Promised!Next]_(Promised!viewVars)
  BY EventSimulation, ReloadSimulation
<1> QED
  BY <1>1, <1>2, ProvenanceHolds, PTL DEF Spec, ImplementsView, Promised!Spec

------------------------------------------------------------------------------
(* Freshness.                                                                *)

(* Something is still to come that makes r read the table again: a message,  *)
(* a publication of another replica, or a Reload before its SELECT.          *)
Owed(r) ==
    \/ inbox[r] > 0
    \/ \E q \in Replica : q # r /\ pubs[q] > 0
    \/ \E w \in Worker : job[r][w].pc = "select"

BeforeL1 == Pipe \cup {"l1"}
BeforeMeta == BeforeL1 \cup {"metaCache"}

(* Every Reload in flight carries the current table, and what no Reload has  *)
(* still to assign describes the current table already.                      *)
Current(r) ==
    /\ \A w \in Worker : job[r][w].pc \in InFlight => job[r][w].view = ViewOf(db)
    /\ (\E w \in Worker : job[r][w].pc \in BeforeL1) \/ l1[r] = Members(ViewOf(db))
    /\ (\E w \in Worker : job[r][w].pc \in BeforeMeta) \/ meta[r] = ViewOf(db)
    /\ \/ \E w \in Worker : job[r][w].pc \in InFlight
       \/ gauge[r] = Cardinality(Members(ViewOf(db)))

(* The Reloads of r that are past their SELECT have read the same version. *)
SameVersion(r) ==
    \A w, x \in Worker :
        job[r][w].pc \in InFlight /\ job[r][x].pc \in InFlight
            => job[r][w].view = job[r][x].view

(* A replica that is down does nothing and hears nothing. *)
Stopped(r) ==
    /\ \A w \in Worker : job[r][w].pc = "idle"
    /\ inbox[r] = 0
    /\ ~subscribed[r]

(* The inductive statement about one replica: unless excused, its Reloads in *)
(* flight agree, and it is owed another one or its caches are current.       *)
FreshAt(r) ==
    /\ phase[r] = "down" => Stopped(r)
    /\ phase[r] # "down" /\ ~excuse[r] => SameVersion(r) /\ (Owed(r) \/ Current(r))

Freshness == TypeOK /\ \A r \in Replica : FreshAt(r)

(* A step that leaves the jobs and caches of q alone disturbs its freshness  *)
(* only by taking away what was owed to it.                                  *)
LEMMA FreshFrame ==
    ASSUME NEW q \in Replica, FreshAt(q),
           db' = db, phase'[q] = phase[q],
           excuse[q] => excuse'[q],
           \A x \in Worker : job'[q][x] = job[q][x],
           l1'[q] = l1[q], meta'[q] = meta[q], gauge'[q] = gauge[q],
           phase[q] = "down" => inbox'[q] = inbox[q] /\ subscribed'[q] = subscribed[q],
           Owed(q) /\ phase[q] # "down" => Owed(q)' \/ excuse'[q]
    PROVE  FreshAt(q)'
<1>1. ViewOf(db)' = ViewOf(db)
  BY DEF ViewOf
<1>2. SameVersion(q) => SameVersion(q)'
  BY DEF SameVersion
<1>3. Current(q) => Current(q)'
  BY <1>1 DEF Current
<1> QED
  BY <1>2, <1>3 DEF FreshAt, Stopped

(* A worker that is put before its SELECT makes r owed a fresh table, and    *)
(* the versions in flight are those of the others.                           *)
LEMMA FreshSpawn ==
    ASSUME TypeOK, NEW r \in Replica, NEW w \in Worker, SameVersion(r),
           job' = [job EXCEPT ![r][w] = [pc |-> "select", view |-> Blank]]
    PROVE  SameVersion(r)' /\ Owed(r)'
<1>1. /\ job'[r][w] = [pc |-> "select", view |-> Blank]
      /\ \A x \in Worker : x # w => job'[r][x] = job[r][x]
  BY DEF TypeOK
<1>2. job'[r][w].pc = "select" /\ "select" \notin InFlight
  BY <1>1, PlaceNames
<1> QED
  BY <1>1, <1>2 DEF SameVersion, Owed

(* A step of a Reload of r itself. *)
LEMMA FreshReload ==
    ASSUME TypeOK, NEW r \in Replica, FreshAt(r), NEW w \in Worker, Reload(r, w)
    PROVE  FreshAt(r)'
<1>a. job[r][w].pc # "idle"
  BY PlaceNames DEF Reload, Select, SelectFails, PipeMeta, PipeDel, PipeSAdd, PipeRename,
                    PipeBroken, SwapL1, SwapMeta, SetGauge, Pipe
<1>b. phase[r] # "down" /\ phase'[r] # "down"
  <2>1. phase[r] # "down"
    BY <1>a DEF FreshAt, Stopped
  <2>2. phase'[r] = phase[r] \/ phase'[r] = "up"
    BY DEF Reload, Select, SelectFails, PipeMeta, PipeDel, PipeSAdd, PipeRename,
           PipeBroken, SwapL1, SwapMeta, SetGauge, process, TypeOK
  <2> QED
    BY <2>1, <2>2
<1>c. /\ db' = db
      /\ ViewOf(db)' = ViewOf(db)
      /\ UNCHANGED <<inbox, pubs>>
  BY DEF Reload, Select, SelectFails, PipeMeta, PipeDel, PipeSAdd, PipeRename,
         PipeBroken, SwapL1, SwapMeta, SetGauge, store, ViewOf
<1>d. \A x \in Worker : x # w => job'[r][x] = job[r][x]
  BY ReloadKeepsOthers
<1>e. job \in [Replica -> [Worker -> [pc : Place, view : View]]]
  BY DEF TypeOK
<1> SUFFICES ASSUME ~excuse'[r]
             PROVE  SameVersion(r)' /\ (Owed(r)' \/ Current(r)')
  BY <1>b DEF FreshAt
(* A Reload past its SELECT takes away nothing that is owed. *)
<1>f. Owed(r) /\ job[r][w].pc # "select" => Owed(r)'
  BY <1>c, <1>d DEF Owed
<1>g. ASSUME ~excuse[r], job[r][w].pc \in InFlight,
             \/ job'[r][w].view = job[r][w].view
             \/ job'[r][w].pc \notin InFlight
      PROVE  SameVersion(r)' /\ (Owed(r) \/ Current(r)) /\ job[r][w].pc # "select"
  <2>1. SameVersion(r) /\ (Owed(r) \/ Current(r))
    BY <1>b, <1>g DEF FreshAt
  <2> QED
    BY <1>d, <1>g, <2>1, PlaceNames DEF SameVersion
<1>1. CASE Select(r, w)
  <2>1. /\ job'[r][w].view = ViewOf(db)
        /\ job'[r][w].pc \in {"meta", "l1"}
    BY <1>1, <1>e DEF Select
  <2>2. \A x \in Worker : job[r][x].pc \in InFlight => job[r][x].view = ViewOf(db)
    BY <1>1 DEF Select, TypeOK
  <2>3. \A x \in Worker : job'[r][x].pc \in InFlight => job'[r][x].view = ViewOf(db)
    BY <1>d, <2>1, <2>2
  <2>4. job'[r][w].pc \in BeforeL1 /\ job'[r][w].pc \in BeforeMeta /\ job'[r][w].pc \in InFlight
    BY <2>1 DEF BeforeL1, BeforeMeta, InFlight, Pipe
  <2> QED
    BY <1>c, <2>3, <2>4 DEF SameVersion, Current
<1>2. CASE SelectFails(r, w)
  BY <1>2 DEF SelectFails, TypeOK
<1>3. CASE PipeMeta(r, w) \/ PipeDel(r, w) \/ PipeSAdd(r, w) \/ PipeRename(r, w) \/ PipeBroken(r, w)
  <2>1. /\ job[r][w].pc \in Pipe
        /\ job'[r][w].pc \in Pipe \cup {"l1"}
        /\ job'[r][w].view = job[r][w].view
    BY <1>3, <1>e DEF PipeMeta, PipeDel, PipeSAdd, PipeRename, PipeBroken, Goto, Pipe
  <2>2. UNCHANGED <<caches, excuse>>
    BY <1>3 DEF PipeMeta, PipeDel, PipeSAdd, PipeRename, PipeBroken
  <2>3. SameVersion(r)' /\ (Owed(r) \/ Current(r)) /\ job[r][w].pc # "select"
    BY <1>g, <2>1, <2>2, PlaceNames
  <2>4. Current(r) => Current(r)'
    <3>1. /\ job'[r][w].pc \in BeforeL1 /\ job'[r][w].pc \in BeforeMeta
          /\ job'[r][w].pc \in InFlight /\ job[r][w].pc \in InFlight
      BY <2>1 DEF BeforeL1, BeforeMeta, InFlight
    <3> QED
      BY <1>c, <1>d, <2>1, <3>1 DEF Current
  <2> QED
    BY <1>f, <2>3, <2>4
<1>4. CASE SwapL1(r, w)
  <2>1. /\ job[r][w].pc = "l1"
        /\ job'[r][w].pc = "metaCache"
        /\ job'[r][w].view = job[r][w].view
        /\ l1'[r] = Members(job[r][w].view)
        /\ UNCHANGED <<meta, gauge, excuse>>
    BY <1>4, <1>e DEF SwapL1, Goto, TypeOK
  <2>2. job[r][w].pc \in InFlight /\ job'[r][w].pc \in BeforeMeta /\ job'[r][w].pc \in InFlight
    BY <2>1 DEF BeforeMeta, InFlight
  <2>3. SameVersion(r)' /\ (Owed(r) \/ Current(r)) /\ job[r][w].pc # "select"
    BY <1>g, <2>1, <2>2
  <2>4. Current(r) => Current(r)'
    BY <1>c, <1>d, <2>1, <2>2 DEF Current
  <2> QED
    BY <1>f, <2>3, <2>4
<1>5. CASE SwapMeta(r, w)
  <2>1. /\ job[r][w].pc = "metaCache"
        /\ job'[r][w].pc = "gauge"
        /\ job'[r][w].view = job[r][w].view
        /\ meta'[r] = job[r][w].view
        /\ UNCHANGED <<l1, gauge, excuse>>
    BY <1>5, <1>e DEF SwapMeta, Goto, TypeOK
  <2>2. job[r][w].pc \in InFlight /\ job[r][w].pc \notin BeforeL1 /\ job'[r][w].pc \in InFlight
    BY <2>1 DEF BeforeL1, InFlight, Pipe
  <2>3. SameVersion(r)' /\ (Owed(r) \/ Current(r)) /\ job[r][w].pc # "select"
    BY <1>g, <2>1, <2>2
  <2>4. Current(r) => Current(r)'
    BY <1>c, <1>d, <2>1, <2>2 DEF Current
  <2> QED
    BY <1>f, <2>3, <2>4
<1>6. CASE SetGauge(r, w)
  <2>1. /\ job[r][w].pc = "gauge"
        /\ job'[r][w].pc = "idle"
        /\ gauge'[r] = Cardinality(Members(job[r][w].view))
        /\ UNCHANGED <<l1, meta, excuse>>
    BY <1>6, <1>e DEF SetGauge, Idle, TypeOK
  <2>2. /\ job[r][w].pc \in InFlight /\ job[r][w].pc \notin BeforeMeta
        /\ job[r][w].pc \notin BeforeL1 /\ job'[r][w].pc \notin InFlight
    BY <2>1 DEF BeforeMeta, BeforeL1, InFlight, Pipe
  <2>3. SameVersion(r)' /\ (Owed(r) \/ Current(r)) /\ job[r][w].pc # "select"
    BY <1>g, <2>1, <2>2
  <2>4. Current(r) => Current(r)'
    BY <1>c, <1>d, <2>1, <2>2 DEF Current
  <2> QED
    BY <1>f, <2>3, <2>4
<1> QED
  BY <1>1, <1>2, <1>3, <1>4, <1>5, <1>6 DEF Reload

(* Before its first start a replica is stopped. *)
LEMMA InitFreshness == Init => Freshness
<1> SUFFICES ASSUME Init PROVE Freshness
  OBVIOUS
<1>1. TypeOK
  BY InitType
<1>2. \A r \in Replica : phase[r] = "down" /\ Stopped(r)
  BY DEF Init, Idle, Stopped
<1> QED
  BY <1>1, <1>2 DEF Freshness, FreshAt

(* Every step of any replica keeps replica q fresh, owed or excused. *)
LEMMA NextFreshness == Freshness /\ [Next]_vars => Freshness'
<1> SUFFICES ASSUME Freshness, [Next]_vars, NEW q \in Replica PROVE FreshAt(q)'
  BY NextType DEF Freshness
<1>a. TypeOK /\ FreshAt(q)
  BY DEF Freshness
<1>b. "main" \in Worker /\ "subscriber" \in Worker
  BY DEF Worker
<1>1. CASE Evict
  BY <1>1, <1>a, FreshFrame DEF Evict, store, caches, process, Owed
<1>2. ASSUME NEW r \in Replica, Boot(r) PROVE FreshAt(q)'
  <2>1. CASE q = r
    <3>1. SameVersion(r)
      BY <1>2, <2>1, <1>a, PlaceNames DEF Boot, FreshAt, Stopped, SameVersion
    <3>2. SameVersion(r)' /\ Owed(r)'
      BY <1>2, <1>a, <1>b, <3>1, FreshSpawn DEF Boot
    <3>3. phase'[r] # "down"
      BY <1>2, <1>a DEF Boot, TypeOK
    <3> QED
      BY <2>1, <3>2, <3>3 DEF FreshAt
  <2>2. CASE q # r
    <3>1. /\ phase'[q] = phase[q]
          /\ job'[q] = job[q]
          /\ UNCHANGED <<db, excuse, caches, inbox, pubs, subscribed>>
      BY <1>2, <2>2, <1>a DEF Boot, TypeOK, store
    <3> QED
      BY <3>1, <1>a, FreshFrame DEF caches, Owed
  <2> QED
    BY <2>1, <2>2
<1>3. ASSUME NEW r \in Replica, Subscribe(r) PROVE FreshAt(q)'
  <2>1. phase[q] = "down" => subscribed'[q] = subscribed[q]
    BY <1>3, <1>a DEF Subscribe, TypeOK
  <2> QED
    BY <1>3, <1>a, <2>1, FreshFrame DEF Subscribe, store, caches, Owed
<1>4. ASSUME NEW r \in Replica, Receive(r) PROVE FreshAt(q)'
  <2>0. UNCHANGED <<db, excuse, caches, pubs, phase, subscribed>>
    BY <1>4 DEF Receive, store, process
  <2>1. CASE q = r
    <3>1. SameVersion(r) => SameVersion(r)' /\ Owed(r)'
      BY <1>4, <1>a, <1>b, FreshSpawn DEF Receive
    <3>2. phase[r] # "down"
      BY <1>4, <2>1, <1>a DEF Receive, FreshAt, Stopped, TypeOK
    <3> QED
      BY <2>0, <2>1, <3>1, <3>2, <1>a DEF FreshAt
  <2>2. CASE q # r
    <3>1. job'[q] = job[q] /\ inbox'[q] = inbox[q]
      BY <1>4, <2>2, <1>a DEF Receive, TypeOK
    <3> QED
      BY <2>0, <3>1, <1>a, FreshFrame DEF caches, Owed
  <2> QED
    BY <2>1, <2>2
<1>5. ASSUME NEW r \in Replica, Publish(r) PROVE FreshAt(q)'
  <2>0. UNCHANGED <<db, caches, phase, subscribed, job>>
    BY <1>5 DEF Publish, store, process
  <2>1. PICK reached \in SUBSET {p \in Replica : rdb[r] /\ subscribed[p]} :
           /\ inbox' = [p \in Replica |-> inbox[p] + (IF p \in reached THEN 1 ELSE 0)]
           /\ excuse' = [p \in Replica |->
                  excuse[p] \/ (p # r /\ p \notin reached /\ phase[p] # "down")]
    BY <1>5 DEF Publish
  <2>2. inbox[q] \in Nat
    BY <1>a DEF TypeOK
  <2>3. phase[q] = "down" => inbox'[q] = inbox[q]
    BY <2>1, <2>2, <1>a DEF FreshAt, Stopped
  <2>4. excuse[q] => excuse'[q]
    BY <2>1
  <2>5. ASSUME Owed(q), phase[q] # "down", ~excuse'[q] PROVE Owed(q)'
    <3>1. CASE inbox[q] > 0
      <4>1. inbox'[q] > 0
        BY <2>1, <2>2, <3>1
      <4> QED
        BY <4>1 DEF Owed
    <3>2. CASE \E w \in Worker : job[q][w].pc = "select"
      BY <2>0, <3>2 DEF Owed
    <3>3. CASE q # r
      <4>1. q \in reached
        BY <2>1, <2>5, <3>3
      <4>2. inbox'[q] > 0
        BY <2>1, <2>2, <4>1
      <4> QED
        BY <4>2 DEF Owed
    <3>4. CASE q = r /\ \E p \in Replica : p # q /\ pubs[p] > 0
      <4>1. PICK p \in Replica : p # q /\ pubs[p] > 0
        BY <3>4
      <4>2. pubs'[p] = pubs[p]
        BY <1>5, <1>a, <3>4, <4>1 DEF Publish, TypeOK
      <4> QED
        BY <4>1, <4>2 DEF Owed
    <3> QED
      BY <2>5, <3>1, <3>2, <3>3, <3>4 DEF Owed
  <2> QED
    BY <2>0, <2>3, <2>4, <2>5, <1>a, FreshFrame DEF caches
<1>6. ASSUME NEW r \in Replica, Crash(r) PROVE FreshAt(q)'
  <2>1. CASE q = r
    <3>1. phase'[r] = "down" /\ Stopped(r)'
      BY <1>6, <1>a DEF Crash, Stopped, Idle, TypeOK
    <3> QED
      BY <2>1, <3>1 DEF FreshAt
  <2>2. CASE q # r
    <3>1. /\ db' = db
          /\ phase'[q] = phase[q] /\ subscribed'[q] = subscribed[q]
          /\ job'[q] = job[q] /\ inbox'[q] = inbox[q]
          /\ l1'[q] = l1[q] /\ meta'[q] = meta[q] /\ gauge'[q] = gauge[q]
      BY <1>6, <2>2, <1>a DEF Crash, TypeOK, store
    <3>2. /\ excuse'[q] = (excuse[q] \/ (pubs[r] > 0 /\ phase[q] # "down"))
          /\ \A p \in Replica : p # r => pubs'[p] = pubs[p]
      BY <1>6, <2>2, <1>a DEF Crash, TypeOK
    <3>3. Owed(q) /\ phase[q] # "down" => Owed(q)' \/ excuse'[q]
      BY <3>1, <3>2 DEF Owed
    <3> QED
      BY <3>1, <3>2, <3>3, <1>a, FreshFrame
  <2> QED
    BY <2>1, <2>2
<1>7. ASSUME NEW r \in Replica, NEW s \in GoSlot, Admin(r, s) PROVE FreshAt(q)'
  <2>1. PICK table \in [Domain -> Row] : Commit(r, s, table) /\ (Announced(r) \/ Silent(r))
    BY <1>7, <1>a, AdminCommits
  <2>0. UNCHANGED <<caches, phase, subscribed, inbox>>
    BY <2>1 DEF Commit, process
  <2>2. CASE q = r
    <3>1. phase[r] = "up"
      BY <2>1 DEF Commit
    <3>2. excuse'[r] = excuse[r]
      BY <2>1, <1>a DEF Announced, Silent, TypeOK
    <3>3. SameVersion(r) => SameVersion(r)' /\ Owed(r)'
      <4>1. s \in Worker
        BY DEF Worker
      <4> QED
        BY <2>1, <4>1, <1>a, FreshSpawn DEF Commit
    <3> QED
      BY <2>0, <2>2, <3>1, <3>2, <3>3, <1>a DEF FreshAt
  <2>3. CASE q # r
    <3>1. job'[q] = job[q]
      BY <2>1, <2>3, <1>a DEF Commit, TypeOK
    <3>2. phase[q] # "down" => Owed(q)' \/ excuse'[q]
      <4>1. CASE Announced(r)
        <5>1. pubs'[r] > 0
          BY <4>1, <1>a DEF Announced, TypeOK
        <5> QED
          BY <2>3, <5>1 DEF Owed
      <4>2. CASE Silent(r)
        BY <2>3, <4>2 DEF Silent
      <4> QED
        BY <2>1, <4>1, <4>2
    <3>3. excuse[q] => excuse'[q]
      BY <2>1, <1>a DEF Announced, Silent, TypeOK
    <3>4. SameVersion(q) => SameVersion(q)'
      BY <3>1 DEF SameVersion
    <3> QED
      BY <2>0, <3>1, <3>2, <3>3, <3>4, <1>a DEF FreshAt, Stopped
  <2> QED
    BY <2>2, <2>3
<1>8. ASSUME NEW r \in Replica, NEW w \in Worker, Reload(r, w) PROVE FreshAt(q)'
  <2>1. CASE q = r
    BY <1>8, <2>1, <1>a, FreshReload
  <2>2. CASE q # r
    <3>1. \A x \in Worker : job'[q][x] = job[q][x]
      BY <1>8, <2>2, <1>a, ReloadKeepsOthers
    <3>2. /\ UNCHANGED <<db, inbox, pubs, subscribed>>
          /\ phase'[q] = phase[q] /\ excuse'[q] = excuse[q]
          /\ l1'[q] = l1[q] /\ meta'[q] = meta[q] /\ gauge'[q] = gauge[q]
      BY <1>8, <2>2, <1>a DEF Reload, Select, SelectFails, PipeMeta, PipeDel, PipeSAdd,
         PipeRename, PipeBroken, SwapL1, SwapMeta, SetGauge, store, caches, process, TypeOK
    <3>3. Owed(q) => Owed(q)'
      BY <3>1, <3>2 DEF Owed
    <3> QED
      BY <3>1, <3>2, <3>3, <1>a, FreshFrame
  <2> QED
    BY <2>1, <2>2
<1>9. CASE UNCHANGED vars
  BY <1>9, <1>a, FreshFrame DEF vars, store, caches, process, Owed
<1> QED
  BY <1>1, <1>2, <1>3, <1>4, <1>5, <1>6, <1>7, <1>8, <1>9 DEF Next

(* A replica without an excuse that has settled is up to date: the list of   *)
(* conditions behind excuse is all there is.                                 *)
THEOREM FreshCorrect == Spec => []FreshWhenSettled
<1>1. Freshness => FreshWhenSettled
  <2> SUFFICES ASSUME Freshness, NEW r \in Replica, Settled(r), ~excuse[r]
               PROVE  /\ l1[r] = Members(ViewOf(db))
                      /\ meta[r] = ViewOf(db)
                      /\ gauge[r] = Cardinality(l1[r])
    BY DEF FreshWhenSettled
  <2>1. ~Owed(r)
    BY DEF Settled, Owed
  <2>2. Current(r)
    BY <2>1 DEF Freshness, FreshAt, Settled
  <2>3. \A w \in Worker : job[r][w].pc \notin InFlight \cup BeforeL1 \cup BeforeMeta
    BY PlaceNames DEF Settled, BeforeL1, BeforeMeta, Pipe
  <2> QED
    BY <2>2, <2>3 DEF Current
<1>2. Spec => []Freshness
  BY InitFreshness, NextFreshness, PTL DEF Spec
<1> QED
  BY <1>1, <1>2, PTL
==============================================================================
