---------------------------- MODULE BlocklistView ----------------------------
(* What the two-layer blocklist cache promises, without goroutines, Redis    *)
(* commands or messages: the administrators commit versions of the           *)
(* blocklist, a replica answers from versions that were committed, its hot   *)
(* set and its metadata each from one version but not always from the same,  *)
(* and what is shared through Redis is put together from committed versions. *)
(* Nothing is promised about which version: that is the business of the      *)
(* freshness properties of CacheSync.  Resolver takes these actions as its   *)
(* environment.                                                              *)
CONSTANTS
    Replica,    \* the server processes
    Domain,     \* the domain names
    Category,   \* what is told about a blocked domain
    Absent      \* a domain that is not in a version, a map or in Redis

VARIABLES
    history,    \* the versions of the blocklist the database has held
    shown,      \* replica -> the set of domains its L1 blocks
    described,  \* replica -> its map from domains to categories
    shared,     \* the Redis set of blocked domains, {} when the key is missing
    labels      \* the Redis keys that hold the category of a domain

viewVars == <<history, shown, described, shared, labels>>

(* A version: the active domains, each with its category. *)
View == [Domain -> Category \cup {Absent}]

Blank == [d \in Domain |-> Absent]

Members(v) == {d \in Domain : v[d] # Absent}

Init ==
    /\ history \in {{v} : v \in View}
    /\ shown = [r \in Replica |-> {}]
    /\ described = [r \in Replica |-> Blank]
    /\ shared = {}
    /\ labels = Blank

(* An administrator commits a new version of the table. *)
Commit ==
    /\ \E v \in View : history' = history \cup {v}
    /\ UNCHANGED <<shown, described, shared, labels>>

(* A replica replaces its hot set by a committed version in one step, *)
Show(r) ==
    /\ \E v \in history : shown' = [shown EXCEPT ![r] = Members(v)]
    /\ UNCHANGED <<history, described, shared, labels>>

(* ... and its map, at another moment. *)
Describe(r) ==
    /\ \E v \in history : described' = [described EXCEPT ![r] = v]
    /\ UNCHANGED <<history, shown, shared, labels>>

(* A replica loses one or both: it stopped, or it could not read the table. *)
Forget(r) ==
    /\ shown' \in {shown, [shown EXCEPT ![r] = {}]}
    /\ described' \in {described, [described EXCEPT ![r] = Blank]}
    /\ UNCHANGED <<history, shared, labels>>

(* The shared set is replaced, in one step, by a union of committed versions *)
(* and never by nothing.                                                     *)
Share ==
    /\ shared' \in (SUBSET Domain) \ {{}}
    /\ \A d \in shared' : \E v \in history : d \in Members(v) /\ Members(v) \subseteq shared'
    /\ UNCHANGED <<history, shown, described, labels>>

(* The keys of the domains of a version are set; no other key is touched. *)
Label ==
    /\ \E v \in history :
          labels' = [d \in Domain |-> IF d \in Members(v) THEN v[d] ELSE labels[d]]
    /\ UNCHANGED <<history, shown, described, shared>>

(* Redis drops a key: its time to live ran out, or it was evicted. *)
Expire ==
    /\ \/ shared' = {} /\ UNCHANGED labels
       \/ \E d \in Domain : labels' = [labels EXCEPT ![d] = Absent] /\ UNCHANGED shared
    /\ UNCHANGED <<history, shown, described>>

Next ==
    \/ Commit
    \/ Share
    \/ Label
    \/ Expire
    \/ \E r \in Replica : Show(r) \/ Describe(r) \/ Forget(r)

Spec == Init /\ [][Next]_viewVars
==============================================================================
