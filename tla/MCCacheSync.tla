---------------------------- MODULE MCCacheSync ------------------------------
(* Instances of CacheSync for TLC. *)
EXTENDS CacheSync, TLC

NoFault == [k \in Fault |-> 0]

(* One replica: quick successive edits, every way a Reload can go wrong. *)
OneReplicaBudget ==
    [NoFault EXCEPT !["mutation"] = 2, !["select"] = 1, !["pipeline"] = 1, !["evict"] = 1]

(* Two replicas that tell each other and may lose a message; one of them may *)
(* stop, start again, or start without Redis.                                *)
TwoReplicaBudget ==
    [NoFault EXCEPT !["mutation"] = 1, !["message"] = 1, !["crash"] = 1, !["ping"] = 1]

(* Two edits and nothing goes wrong. *)
CalmBudget == [NoFault EXCEPT !["mutation"] = 2]

(* Every replica has been started and has warmed up before the first edit:   *)
(* a state Init leads to, where the runs of two replicas begin.              *)
WarmInit ==
    \E v \in View :
        /\ db = v
        /\ committed = {v}
        /\ rset = Members(v)
        /\ rtmp = {}
        /\ rmeta = v
        /\ phase = [r \in Replica |-> "up"]
        /\ rdb = [r \in Replica |-> TRUE]
        /\ subscribed = [r \in Replica |-> TRUE]
        /\ inbox = [r \in Replica |-> 0]
        /\ pubs = [r \in Replica |-> 0]
        /\ job = [r \in Replica |-> [w \in Worker |-> Idle]]
        /\ l1 = [r \in Replica |-> Members(v)]
        /\ meta = [r \in Replica |-> v]
        /\ gauge = [r \in Replica |-> Cardinality(Members(v))]
        /\ left = Budget
        /\ excuse = [r \in Replica |-> FALSE]

WarmSpec == WarmInit /\ [][Next]_vars
WarmFairSpec == WarmSpec /\ Fairness

Symmetry == Permutations(Replica) \cup Permutations(GoSlot) \cup Permutations(Domain)
==============================================================================
