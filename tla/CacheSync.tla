------------------------------ MODULE CacheSync ------------------------------
(* The blocklist cache of src/dns/internal/cache/cache.go and the admin      *)
(* operations of src/dns/internal/api/api.go that change the blocklist.      *)
(*                                                                           *)
(* Every replica is one process of the DNS server.  The replicas share the   *)
(* table blocked_domains (SQLite, "L3") and a Redis server holding the set   *)
(* tp:blocked ("L2"), the keys tp:meta:<domain> and the channel tp:reload.   *)
(* Each replica keeps in memory the hot set l1, the map metaCache and the    *)
(* gauge of blocked domains ("L1").  A mutation commits to the table, then   *)
(* starts two goroutines: one rebuilds the caches of this replica (Reload),  *)
(* the other publishes "domains" on the channel; the subscriber of every     *)
(* replica, the publisher's own included, runs Reload for each message.      *)
(* Nothing orders two Reloads, so each of them is a worker with a program    *)
(* counter, and a step is one statement, Redis command or critical section.  *)
EXTENDS Naturals, FiniteSets

CONSTANTS
    Replica,    \* the server processes
    Domain,     \* the domain names, in lower case
    Category,   \* what Reload carries along with a domain (reason and category)
    GoSlot,     \* the "go cache.Reload" goroutines a replica may have at a time
    Absent,     \* a domain with no row, a missing Redis key or map entry
    Inactive,   \* a row with active = false (its category is abstracted)
    Budget      \* how many events of each kind of Fault a behaviour may contain

(* The bounds of the model.  A mutation is an admin request; the other kinds *)
(* are the failures the code meets: a failed SELECT, a broken pipeline, a    *)
(* key evicted or expired, a message not delivered, a process that stops,    *)
(* a Redis that does not answer the ping at start-up.                        *)
Fault == {"mutation", "select", "pipeline", "evict", "message", "crash", "ping"}

ASSUME CacheSyncAssumption ==
    /\ Absent \notin Category
    /\ Inactive \notin Category
    /\ Absent # Inactive
    /\ IsFiniteSet(Domain)
    /\ Budget \in [Fault -> Nat]

(* One subscriber goroutine and the main goroutine (warm-up) per replica. *)
Worker == GoSlot \cup {"main", "subscriber"}

Row == Category \cup {Absent, Inactive}

(* What one SELECT ... WHERE active = true returns: the active domains, each *)
(* with its category; Absent stands for a domain that is not returned.       *)
View == [Domain -> Category \cup {Absent}]

Blank == [d \in Domain |-> Absent]

Members(v) == {d \in Domain : v[d] # Absent}

VARIABLES
    db,         \* the table blocked_domains: domain -> row
    rset,       \* Redis set tp:blocked; {} is the missing key
    rtmp,       \* Redis set tp:blocked:tmp, the key every Reload writes to
    rmeta,      \* Redis keys tp:meta:<domain>
    phase,      \* replica -> "down", "warming" (inside db.Init) or "up"
    rdb,        \* replica -> whether it has a Redis client
    subscribed, \* replica -> whether its subscription is established
    inbox,      \* replica -> messages in the channel of its subscription
    pubs,       \* replica -> "go cache.PublishReload" goroutines not yet run
    job,        \* replica -> worker -> its Reload: program counter and rows read
    l1,         \* replica -> hot set
    meta,       \* replica -> metaCache
    gauge,      \* replica -> metrics gauge of blocked domains
    left,       \* what is left of Budget
    committed,  \* history: every view the table has had
    excuse      \* history: replica -> whether it met one of the conditions
                \* under which the code lets it fall behind (see Select,
                \* Publish, Silent, SelectFails and Crash)

store   == <<db, committed>>
redis   == <<rset, rtmp, rmeta>>
caches  == <<l1, meta, gauge>>
process == <<phase, rdb, subscribed>>
vars    == <<store, redis, caches, process, inbox, pubs, job, left, excuse>>

ViewOf(table) ==
    [d \in Domain |-> IF table[d] \in Category THEN table[d] ELSE Absent]

Idle == [pc |-> "idle", view |-> Blank]

(* The places of Reload: reading the table, the four kinds of Redis command  *)
(* of the pipeline, and the three assignments that follow.                   *)
Pipe == {"meta", "del", "sadd", "rename"}
InFlight == Pipe \cup {"l1", "metaCache", "gauge"}
Place == InFlight \cup {"idle", "select"}

Spend(kind) ==
    /\ left[kind] > 0
    /\ left' = [left EXCEPT ![kind] = @ - 1]

Init ==
    /\ db \in [Domain -> Row]
    /\ committed = {ViewOf(db)}
    /\ rset = {}
    /\ rtmp = {}
    /\ rmeta = Blank
    /\ phase = [r \in Replica |-> "down"]
    /\ rdb = [r \in Replica |-> FALSE]
    /\ subscribed = [r \in Replica |-> FALSE]
    /\ inbox = [r \in Replica |-> 0]
    /\ pubs = [r \in Replica |-> 0]
    /\ job = [r \in Replica |-> [w \in Worker |-> Idle]]
    /\ l1 = [r \in Replica |-> {}]
    /\ meta = [r \in Replica |-> Blank]
    /\ gauge = [r \in Replica |-> 0]
    /\ left = Budget
    /\ excuse = [r \in Replica |-> FALSE]

------------------------------------------------------------------------------
(* Start-up and subscription.                                                *)

(* cache.Init: without an answer to the ping the replica never uses Redis;   *)
(* with one it starts the subscriber goroutine and warms up in the caller.   *)
Boot(r) ==
    /\ phase[r] = "down"
    /\ phase' = [phase EXCEPT ![r] = "warming"]
    /\ \/ /\ rdb' = [rdb EXCEPT ![r] = TRUE]
          /\ UNCHANGED left
       \/ /\ Spend("ping")
          /\ rdb' = [rdb EXCEPT ![r] = FALSE]
    /\ job' = [job EXCEPT ![r]["main"] = [pc |-> "select", view |-> Blank]]
    /\ UNCHANGED <<store, redis, caches, subscribed, inbox, pubs, excuse>>

(* The SUBSCRIBE of the subscriber goroutine reaches Redis, at some moment   *)
(* during or after the warm-up.                                              *)
Subscribe(r) ==
    /\ phase[r] # "down"
    /\ rdb[r]
    /\ ~subscribed[r]
    /\ subscribed' = [subscribed EXCEPT ![r] = TRUE]
    /\ UNCHANGED <<store, redis, caches, phase, rdb, inbox, pubs, job, left, excuse>>

(* Slips the properties would catch: the subscriber runs without a message,  *)
(* or takes the message and does not know its payload.                       *)
ReceiveUnasked(r) ==
    /\ job[r]["subscriber"].pc = "idle"
    /\ inbox' = [inbox EXCEPT ![r] = @ - 1]
    /\ job' = [job EXCEPT ![r]["subscriber"] = [pc |-> "select", view |-> Blank]]
    /\ UNCHANGED <<store, redis, caches, process, pubs, left, excuse>>

ReceiveUnknown(r) ==
    /\ inbox[r] > 0
    /\ job[r]["subscriber"].pc = "idle"
    /\ inbox' = [inbox EXCEPT ![r] = @ - 1]
    /\ UNCHANGED <<store, redis, caches, process, pubs, job, left, excuse>>

(* The subscriber takes the next message and runs Reload itself: messages    *)
(* of one replica are handled one after the other.                           *)
Receive(r) ==
    /\ inbox[r] > 0
    /\ job[r]["subscriber"].pc = "idle"
    /\ inbox' = [inbox EXCEPT ![r] = @ - 1]
    /\ job' = [job EXCEPT ![r]["subscriber"] = [pc |-> "select", view |-> Blank]]
    /\ UNCHANGED <<store, redis, caches, process, pubs, left, excuse>>

(* PublishReload: Redis hands the message to the replicas subscribed at that *)
(* moment.  Delivery is at most once: a subscription being re-established or *)
(* a full channel loses it.  A replica that runs, did not get the message    *)
(* and is not the publisher may stay behind.                                 *)
Publish(r) ==
    /\ pubs[r] > 0
    /\ pubs' = [pubs EXCEPT ![r] = @ - 1]
    /\ \E lost \in SUBSET {q \in Replica : rdb[r] /\ subscribed[q]} :
          LET reached == {q \in Replica : rdb[r] /\ subscribed[q]} \ lost
          IN  /\ IF lost = {} THEN UNCHANGED left ELSE Spend("message")
              /\ inbox' = [q \in Replica |->
                              inbox[q] + (IF q \in reached THEN 1 ELSE 0)]
              /\ excuse' = [q \in Replica |->
                              excuse[q] \/ (q # r /\ q \notin reached /\ phase[q] # "down")]
    /\ UNCHANGED <<store, redis, caches, process, job>>

------------------------------------------------------------------------------
(* Admin requests that change blocked_domains.                               *)

(* What every handler does around its statement: commit, then start Reload   *)
(* in a goroutine of its own.                                                *)
Commit(r, s, table) ==
    /\ phase[r] = "up"
    /\ Spend("mutation")
    /\ job[r][s].pc = "idle"
    /\ db' = table
    /\ committed' = committed \cup {ViewOf(table)}
    /\ job' = [job EXCEPT ![r][s] = [pc |-> "select", view |-> Blank]]
    /\ UNCHANGED <<redis, caches, process, inbox>>

(* A slip: a handler that forgets PublishReload. *)
AnnouncedToNobody(r) == UNCHANGED <<pubs, excuse>>

(* ... and start PublishReload("domains") in another, *)
Announced(r) ==
    /\ pubs' = [pubs EXCEPT ![r] = @ + 1]
    /\ UNCHANGED excuse

(* ... except for the importer, which tells nobody. *)
Silent(r) ==
    /\ excuse' = [q \in Replica |-> excuse[q] \/ (q # r /\ phase[q] # "down")]
    /\ UNCHANGED pubs

(* Create: the unique index refuses a name that has a row, active or not;    *)
(* the column default makes every new row active.                            *)
AddDomain(r, s, d, c) ==
    /\ db[d] = Absent
    /\ Commit(r, s, [db EXCEPT ![d] = c])
    /\ Announced(r)

(* Save of a row that was found: it may rename the domain (the unique index  *)
(* refuses a name in use), recategorise, deactivate or reactivate it.        *)
UpdateDomain(r, s, d, e, row) ==
    /\ db[d] # Absent
    /\ e = d \/ db[e] = Absent
    /\ Commit(r, s, [db EXCEPT ![d] = Absent, ![e] = row])
    /\ Announced(r)

(* One DELETE statement; an id without a row is accepted too.  (The route of *)
(* the bulk deletion is registered after the one that takes an id, which     *)
(* therefore answers it, with an error: bulkDeleteDomains is never reached.) *)
DeleteDomain(r, s, d) ==
    /\ Commit(r, s, [db EXCEPT ![d] = Absent])
    /\ Announced(r)

(* updateCategory moves the domains of a renamed category in one UPDATE.     *)
RenameCategory(r, s, old, new) ==
    /\ Commit(r, s, [d \in Domain |-> IF db[d] = old THEN new ELSE db[d]])
    /\ Announced(r)

(* FromURL inserts the names it parsed and leaves existing rows alone, the   *)
(* inactive ones included.                                                   *)
ImportDomains(r, s, D, c) ==
    /\ Commit(r, s, [d \in Domain |-> IF d \in D /\ db[d] = Absent THEN c ELSE db[d]])
    /\ Silent(r)

Admin(r, s) ==
    \/ \E d \in Domain, c \in Category : AddDomain(r, s, d, c)
    \/ \E d, e \in Domain, row \in Category \cup {Inactive} : UpdateDomain(r, s, d, e, row)
    \/ \E d \in Domain : DeleteDomain(r, s, d)
    \/ \E old, new \in Category : RenameCategory(r, s, old, new)
    \/ \E D \in (SUBSET Domain) \ {{}}, c \in Category : ImportDomains(r, s, D, c)

------------------------------------------------------------------------------
(* Reload, one step per statement that another goroutine can come between.   *)

Goto(r, w, place) ==
    job' = [job EXCEPT ![r][w] = [pc |-> place, view |-> job[r][w].view]]

(* The SELECT.  The Redis part is skipped without a client, and also when    *)
(* there is no active domain.  A replica whose Reloads in flight have read   *)
(* different versions is excused: they may assign in either order.           *)
Select(r, w) ==
    /\ job[r][w].pc = "select"
    /\ LET v == ViewOf(db)
       IN  /\ job' = [job EXCEPT ![r][w] =
                        [pc   |-> IF rdb[r] /\ Members(v) # {} THEN "meta" ELSE "l1",
                         view |-> v]]
           /\ excuse' = [excuse EXCEPT ![r] =
                            @ \/ \E x \in Worker : /\ job[r][x].pc \in InFlight
                                                   /\ job[r][x].view # v]
    /\ UNCHANGED <<store, redis, caches, process, inbox, pubs, left>>

(* The error of the SELECT is not looked at: no rows were scanned. *)
SelectFails(r, w) ==
    /\ job[r][w].pc = "select"
    /\ Spend("select")
    /\ job' = [job EXCEPT ![r][w] = [pc |-> "l1", view |-> Blank]]
    /\ excuse' = [excuse EXCEPT ![r] = TRUE]
    /\ UNCHANGED <<store, redis, caches, process, inbox, pubs>>

(* The SETs of tp:meta:<domain>.  They are one command per domain; every     *)
(* property below speaks of each key alone.                                  *)
PipeMeta(r, w) ==
    /\ job[r][w].pc = "meta"
    /\ rmeta' = [d \in Domain |-> IF d \in Members(job[r][w].view)
                                  THEN job[r][w].view[d] ELSE rmeta[d]]
    /\ Goto(r, w, "del")
    /\ UNCHANGED <<store, rset, rtmp, caches, process, inbox, pubs, left, excuse>>

(* The rebuild before the BUG-5 fix: delete the shared set and fill it again.*)
PipeDelShared(r, w) ==
    /\ job[r][w].pc = "del"
    /\ rtmp' = {}
    /\ rset' = {}
    /\ Goto(r, w, "sadd")
    /\ UNCHANGED <<store, rmeta, caches, process, inbox, pubs, left, excuse>>

PipeDel(r, w) ==
    /\ job[r][w].pc = "del"
    /\ rtmp' = {}
    /\ Goto(r, w, "sadd")
    /\ UNCHANGED <<store, rset, rmeta, caches, process, inbox, pubs, left, excuse>>

(* A slip: a long list is added in parts, and a part is renamed. *)
PipeSAddPart(r, w) ==
    /\ job[r][w].pc = "sadd"
    /\ \E part \in (SUBSET Members(job[r][w].view)) \ {{}} : rtmp' = rtmp \cup part
    /\ Goto(r, w, "rename")
    /\ UNCHANGED <<store, rset, rmeta, caches, process, inbox, pubs, left, excuse>>

(* SADD, and the EXPIRE that only dates the key: Evict may drop it anyway. *)
PipeSAdd(r, w) ==
    /\ job[r][w].pc = "sadd"
    /\ rtmp' = rtmp \cup Members(job[r][w].view)
    /\ Goto(r, w, "rename")
    /\ UNCHANGED <<store, rset, rmeta, caches, process, inbox, pubs, left, excuse>>

(* RENAME fails when there is no such key, and the error is only logged. *)
PipeRename(r, w) ==
    /\ job[r][w].pc = "rename"
    /\ rset' = IF rtmp = {} THEN rset ELSE rtmp
    /\ rtmp' = {}
    /\ Goto(r, w, "l1")
    /\ UNCHANGED <<store, rmeta, caches, process, inbox, pubs, left, excuse>>

(* The connection breaks with part of the pipeline done: the client sends    *)
(* the whole pipeline again, or gives up and the error is only logged.       *)
PipeBroken(r, w) ==
    /\ job[r][w].pc \in Pipe
    /\ Spend("pipeline")
    /\ \/ Goto(r, w, "meta")
       \/ Goto(r, w, "l1")
    /\ UNCHANGED <<store, redis, caches, process, inbox, pubs, excuse>>

(* A slip: the rows are added to the map in use instead of to a new one. *)
SwapL1Merging(r, w) ==
    /\ job[r][w].pc = "l1"
    /\ l1' = [l1 EXCEPT ![r] = @ \cup Members(job[r][w].view)]
    /\ Goto(r, w, "metaCache")
    /\ UNCHANGED <<store, redis, meta, gauge, process, inbox, pubs, left, excuse>>

SwapL1(r, w) ==
    /\ job[r][w].pc = "l1"
    /\ l1' = [l1 EXCEPT ![r] = Members(job[r][w].view)]
    /\ Goto(r, w, "metaCache")
    /\ UNCHANGED <<store, redis, meta, gauge, process, inbox, pubs, left, excuse>>

SwapMeta(r, w) ==
    /\ job[r][w].pc = "metaCache"
    /\ meta' = [meta EXCEPT ![r] = job[r][w].view]
    /\ Goto(r, w, "gauge")
    /\ UNCHANGED <<store, redis, l1, gauge, process, inbox, pubs, left, excuse>>

(* Reload returns; after the warm-up the servers are started. *)
SetGauge(r, w) ==
    /\ job[r][w].pc = "gauge"
    /\ gauge' = [gauge EXCEPT ![r] = Cardinality(Members(job[r][w].view))]
    /\ job' = [job EXCEPT ![r][w] = Idle]
    /\ phase' = [phase EXCEPT ![r] = IF w = "main" THEN "up" ELSE @]
    /\ UNCHANGED <<store, redis, l1, meta, rdb, subscribed, inbox, pubs, left, excuse>>

Reload(r, w) ==
    \/ Select(r, w) \/ SelectFails(r, w)
    \/ PipeMeta(r, w) \/ PipeDel(r, w) \/ PipeSAdd(r, w) \/ PipeRename(r, w)
    \/ PipeBroken(r, w)
    \/ SwapL1(r, w) \/ SwapMeta(r, w) \/ SetGauge(r, w)

------------------------------------------------------------------------------
(* The surroundings.                                                         *)

(* A replica stops: what it kept in memory is gone, what it did to Redis and *)
(* to the table stays, publications not yet sent are never sent.             *)
Crash(r) ==
    /\ phase[r] # "down"
    /\ Spend("crash")
    /\ phase' = [phase EXCEPT ![r] = "down"]
    /\ rdb' = [rdb EXCEPT ![r] = FALSE]
    /\ subscribed' = [subscribed EXCEPT ![r] = FALSE]
    /\ inbox' = [inbox EXCEPT ![r] = 0]
    /\ pubs' = [pubs EXCEPT ![r] = 0]
    /\ job' = [job EXCEPT ![r] = [w \in Worker |-> Idle]]
    /\ l1' = [l1 EXCEPT ![r] = {}]
    /\ meta' = [meta EXCEPT ![r] = Blank]
    /\ gauge' = [gauge EXCEPT ![r] = 0]
    /\ excuse' = [q \in Replica |-> /\ q # r
                                    /\ \/ excuse[q]
                                       \/ pubs[r] > 0 /\ phase[q] # "down"]
    /\ UNCHANGED <<store, redis>>

(* Redis drops a key: a time to live of 24 hours that nothing renews, or     *)
(* allkeys-lru at maxmemory.                                                 *)
Evict ==
    /\ Spend("evict")
    /\ \/ /\ rset # {}
          /\ rset' = {}
          /\ UNCHANGED <<rtmp, rmeta>>
       \/ /\ rtmp # {}
          /\ rtmp' = {}
          /\ UNCHANGED <<rset, rmeta>>
       \/ \E d \in Domain :
             /\ rmeta[d] # Absent
             /\ rmeta' = [rmeta EXCEPT ![d] = Absent]
             /\ UNCHANGED <<rset, rtmp>>
    /\ UNCHANGED <<store, caches, process, inbox, pubs, job, excuse>>

Next ==
    \/ Evict
    \/ \E r \in Replica :
          \/ Boot(r) \/ Subscribe(r) \/ Receive(r) \/ Publish(r) \/ Crash(r)
          \/ \E s \in GoSlot : Admin(r, s)
          \/ \E w \in Worker : Reload(r, w)

Spec == Init /\ [][Next]_vars

(* Go schedules every runnable goroutine, SQLite and Redis answer or time    *)
(* out, and a message in a channel is received.  Nothing makes an            *)
(* administrator act, a replica start or anything fail.                      *)
Fairness ==
    \A r \in Replica :
        /\ WF_vars(Receive(r))
        /\ WF_vars(Publish(r))
        /\ \A w \in Worker : WF_vars(Reload(r, w))

FairSpec == Spec /\ Fairness

------------------------------------------------------------------------------
(* Properties.                                                               *)

(* Every variable has its type. *)
TypeOK ==
    /\ db \in [Domain -> Row]
    /\ committed \in SUBSET View
    /\ rset \in SUBSET Domain
    /\ rtmp \in SUBSET Domain
    /\ rmeta \in View
    /\ phase \in [Replica -> {"down", "warming", "up"}]
    /\ rdb \in [Replica -> BOOLEAN]
    /\ subscribed \in [Replica -> BOOLEAN]
    /\ inbox \in [Replica -> Nat]
    /\ pubs \in [Replica -> Nat]
    /\ job \in [Replica -> [Worker -> [pc : Place, view : View]]]
    /\ l1 \in [Replica -> SUBSET Domain]
    /\ meta \in [Replica -> View]
    /\ gauge \in [Replica -> Nat]
    /\ left \in [Fault -> Nat]
    /\ excuse \in [Replica -> BOOLEAN]

(* A replica that answers queries has as hot set, and as metaCache, exactly  *)
(* a version of the table that was committed, never a mixture of two: Reload *)
(* builds new maps from one SELECT and assigns them whole.  The one exception*)
(* the code allows is the empty map after a SELECT that failed.              *)
ServedIsCommitted ==
    \A r \in Replica : phase[r] = "up" =>
        \/ /\ \E v \in committed : l1[r] = Members(v)
           /\ meta[r] \in committed
        \/ left["select"] < Budget["select"]

(* S is put together from whole committed versions. *)
Assembled(S) == \A d \in S : \E v \in committed : d \in Members(v) /\ Members(v) \subseteq S

(* Reloads of all replicas write to one temporary key, and their pipelines   *)
(* interleave.  Whatever they do to each other, the shared set never holds a *)
(* part of a version without the rest of it, nor a domain that was never     *)
(* active; and tp:meta:<domain> is always a category the domain really had.  *)
SharedIsAssembled ==
    /\ Assembled(rset)
    /\ \A d \in Domain : rmeta[d] # Absent => \E v \in committed : v[d] = rmeta[d]

(* The BUG-5 fix of Reload: no step but an eviction empties the shared set,  *)
(* and a domain that is in every version the table ever had does not leave   *)
(* the shared set once it is there.                                          *)
SwapIsAtomic ==
    [][ \/ left'["evict"] < left["evict"]
        \/ /\ rset # {} => rset' # {}
           /\ \A d \in rset \ rset' : \E v \in committed : d \notin Members(v) ]_vars

(* Nothing is under way that could still change the caches of r. *)
Settled(r) ==
    /\ phase[r] = "up"
    /\ \A w \in Worker : job[r][w].pc = "idle"
    /\ inbox[r] = 0
    /\ \A q \in Replica : pubs[q] = 0

(* The list of conditions behind excuse is complete: a replica none of whose *)
(* Reloads in flight had read different versions, that missed no message and *)
(* no unannounced import, and whose SELECTs succeeded, has hot set,          *)
(* metaCache and gauge of the current table as soon as nothing is under way. *)
FreshWhenSettled ==
    \A r \in Replica : Settled(r) /\ ~excuse[r] =>
        /\ l1[r] = Members(ViewOf(db))
        /\ meta[r] = ViewOf(db)
        /\ gauge[r] = Cardinality(l1[r])

(* Once the administrators stop, every running replica without an excuse     *)
(* comes to serve the current table and keeps serving it: no Reload, message *)
(* or publication is left over that would take it back.                      *)
EventuallyFresh ==
    <>[](\A r \in Replica : phase[r] = "up" /\ ~excuse[r] =>
             l1[r] = Members(ViewOf(db)) /\ meta[r] = ViewOf(db))

(* The refinement mapping to BlocklistView: the cache shows and describes    *)
(* committed versions, and shares unions of committed versions.              *)
Promised == INSTANCE BlocklistView WITH
             history   <- committed,
             shown     <- l1,
             described <- meta,
             shared    <- rset,
             labels    <- rmeta

(* Every behaviour of the replicas is one of BlocklistView: a mutation is    *)
(* its Commit, SwapL1 and SwapMeta its Show and Describe (or Forget),        *)
(* PipeRename its Share and PipeMeta its Label.                              *)
ImplementsView == Promised!Spec

(* cache.go:28, "Redis key: SET of all active blocked domains.": with every  *)
(* cache of the replicas settled and up to date, and no eviction, the Redis  *)
(* set is the set of active domains.                                         *)
RedisHoldsActiveDomains ==
    (\A r \in Replica : Settled(r) /\ ~excuse[r]) => rset = Members(ViewOf(db))

(* cache.go:41, "L1 in-process hot set - rebuilt from Redis on startup and   *)
(* on every mutation.": when every Reload has returned, the hot set has the  *)
(* last mutation.                                                            *)
L1HasLastMutation ==
    \A r \in Replica : Settled(r) => l1[r] = Members(ViewOf(db))
==============================================================================
