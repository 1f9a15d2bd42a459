---------------------------- MODULE MCResolver -------------------------------
(* Instances of Resolver for TLC: a name and its parent. *)
EXTENDS Resolver

CONSTANTS r1, ads, x, ads_category, client

Parent == <<ads>>
Child  == <<x, ads>>
Names  == {Parent, Child}
AskedNames == {Child}
PipedNames == {Child}

MCRecordSets == {{}, {<<Child, "A">>}}
MCWhitelists == {{}, {Child}}
MCPolicies ==
    {[c \in Client |-> e] : e \in {NoEntry} \cup
        {[action |-> "allow", categories |-> {}]} \cup
        [action : {"block"}, categories : {{}, {ads_category}}]}

QuietRecords == {{}}
QuietWhitelists == {{}}
QuietPolicies == {[c \in Client |-> NoEntry]}

MCBudget == [commit |-> 1, other |-> 1]
OneCommit == [commit |-> 1, other |-> 0]

(* At first nothing is blocked, or the parent is; the commit adds the other  *)
(* versions.  There are no rules, which one change may bring, or, where the  *)
(* parent is blocked, rules that refuse or protect.                          *)
Nothing    == [n \in Names |-> Absent]
ParentOnly == [Nothing EXCEPT ![Parent] = ads_category]

MCInit ==
    /\ Init
    /\ records = {} /\ acl[client].action # "allow"
    /\ \/ history = {Nothing} /\ whitelist = {} /\ aclDefault /\ acl[client] = NoEntry
       \/ history = {ParentOnly} /\ rdb /\ (aclDefault <=> whitelist = {})
    /\ whitelist # {} => acl[client] = NoEntry
    /\ ~rdb => shared = {}

MCSpec == MCInit /\ [][Next]_vars
MCFairSpec == MCSpec /\ WF_vars(Step)
==============================================================================
