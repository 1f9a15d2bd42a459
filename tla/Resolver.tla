------------------------------ MODULE Resolver -------------------------------
(* How a replica answers one query: Resolve of src/dns/internal/dns/server.go *)
(* with the look-ups of src/dns/internal/cache/cache.go it calls, and the     *)
(* look-up of the intercept server (src/dns/internal/intercept/server.go).    *)
(*                                                                            *)
(* A query takes the caches' locks one after the other, and IsBlocked and     *)
(* Lookup take one for each parent of the name and each layer, so the caches  *)
(* change between any two of its steps.  The blocklist caches change as       *)
(* BlocklistView allows, which CacheSync implements; the records, whitelist,  *)
(* ACL and default policy are each replaced whole.  Queries only read, so one *)
(* query stands for all, and a behaviour ends when it has its verdict.  What  *)
(* the forwarder does with a query is no part of the verdict.                 *)
EXTENDS Naturals, Sequences

CONSTANTS
    Replica, Domain, Category, Absent,  \* those of BlocklistView
    Server,         \* the replica that is asked
    DnsLabel,       \* a domain is the sequence of its labels, in lower case
    Asked,          \* the domains that are asked about
    Client,         \* client addresses
    QType,          \* query types, and
    Checked,        \* ... those the blocklist applies to, A and AAAA
    Uncategorised,  \* the empty category, of a row or of a failed look-up
    Piped,          \* the domains whose reason contains the separator "|"
    Mangled,        \* what is read back as their category from Redis
    RecordSets,     \* the contents of the record table that are considered,
    Whitelists,     \* ... of the whitelist table,
    Policies,       \* ... of the ACL table
    Budget          \* how many changes of each kind a behaviour may contain

(* The bounds of the model: versions of the blocklist that are committed,    *)
(* and other changes and failures, that is: keys and maps lost, rules        *)
(* reloaded, Redis commands failed.                                          *)
Change == {"commit", "other"}

(* What GetClientACL returns: no entry, or an entry with an action and the   *)
(* categories it blocks (ReloadACL drops empty ones; none means all).        *)
Entry == [action : {"none", "allow", "block"}, categories : SUBSET (Category \ {Uncategorised})]

NoEntry == [action |-> "none", categories |-> {}]

ASSUME ResolverAssumption ==
    /\ Server \in Replica
    /\ Domain \subseteq Seq(DnsLabel)
    /\ \A n \in Domain : Len(n) > 0 /\ \A i \in 1..Len(n) : SubSeq(n, i, Len(n)) \in Domain
    /\ Checked \subseteq QType
    /\ Asked \subseteq Domain
    /\ {Absent, Mangled} \cap (Category \cup {Uncategorised}) = {}
    /\ Piped \subseteq Domain
    /\ RecordSets \subseteq SUBSET (Domain \X QType)
    /\ Whitelists \subseteq SUBSET Domain
    /\ Policies \subseteq [Client -> Entry]
    /\ Budget \in [Change -> Nat]

VARIABLES
    history, shown, described, shared, labels,  \* those of BlocklistView
    rdb,            \* whether the server has a Redis client
    records,        \* recCache: the names and types with custom records
    whitelist,      \* wlCache
    acl,            \* aclCache
    aclDefault,     \* whether clients without an entry are served
    query,          \* the query being answered
    since,          \* history: what has held ever since it was asked
    left            \* what is left of Budget

Cache == INSTANCE BlocklistView

cached == <<history, shown, described, shared, labels>>
rules  == <<records, whitelist, acl, aclDefault>>
vars   == <<cached, rdb, rules, query, since, left>>

Place == {"idle", "records", "whitelist", "acl", "default",
          "blockL1", "blockL2", "metaL1", "metaL2", "done"}
Verdict == {"none", "custom", "forwarded", "acl_blocked", "blocked", "page"}

(* The name's i-th suffix: what nextParent leaves of it after i - 1 calls. *)
Suffix(n, i) == SubSeq(n, i, Len(n))
Suffixes(n) == {Suffix(n, i) : i \in 1..Len(n)}

Spend(kind) ==
    /\ left[kind] > 0
    /\ left' = [left EXCEPT ![kind] = @ - 1]

(* The caches as a replica has them some time after start-up. *)
Init ==
    /\ \E v \in Cache!View :
          /\ history = {v}
          /\ shown = [r \in Replica |-> Cache!Members(v)]
          /\ described = [r \in Replica |-> v]
          /\ \/ shared = Cache!Members(v) /\ labels = v
             \/ shared = {} /\ labels = Cache!Blank
    /\ rdb \in BOOLEAN
    /\ records \in RecordSets
    /\ whitelist \in Whitelists
    /\ acl \in Policies
    /\ aclDefault \in BOOLEAN
    /\ query = [pc |-> "idle"]
    /\ since = [steady |-> {}, covered |-> FALSE, listed |-> FALSE,
                ruled |-> FALSE, calm |-> FALSE]
    /\ left = Budget

------------------------------------------------------------------------------
(* The query.                                                                *)

(* What has held so far, at the moment a query for n is asked: the suffixes  *)
(* the hot set has, whether it has one, whether n is whitelisted, whether no *)
(* rule has changed, and whether nothing at all has.                         *)
Since(n) ==
    [steady  |-> Suffixes(n) \cap shown[Server],
     covered |-> Suffixes(n) \cap shown[Server] # {},
     listed  |-> n \in whitelist,
     ruled   |-> TRUE,
     calm    |-> TRUE]

(* A DNS query, by UDP, TCP or HTTPS. *)
Ask(n, t, c) ==
    /\ query.pc = "idle"
    /\ query' = [pc |-> "records", name |-> n, qtype |-> t, client |-> c, i |-> 1,
                 entry |-> NoEntry, cat |-> Uncategorised, verdict |-> "none"]
    /\ since' = Since(n)
    /\ UNCHANGED <<cached, rdb, rules, left>>

(* The intercept server's handler looks up the name of the Host header to    *)
(* tell the browser why it was sent there.                                   *)
Intercept(n) ==
    /\ query.pc = "idle"
    /\ query' = [pc |-> "metaL1", name |-> n, i |-> 1, cat |-> Uncategorised,
                 verdict |-> "none"]
    /\ since' = Since(n)
    /\ UNCHANGED <<cached, rdb, rules, left>>

At(place) == query.pc = place

(* A question of a DNS client, and not of the intercept server. *)
IsDNS == "qtype" \in DOMAIN query

(* What a step of the query does to it. *)
Goto(place) == query' = [query EXCEPT !.pc = place]

Walk(place) == query' = [query EXCEPT !.pc = place, !.i = 1]

Finish(verdict) == query' = [query EXCEPT !.pc = "done", !.verdict = verdict]

(* It changes nothing else, and nothing it relies on. *)
OnlyQuery == UNCHANGED <<cached, rdb, rules, since, left>>

(* A slip: the access list is asked before the whitelist. *)
LookupRecordsThenACL ==
    /\ At("records")
    /\ OnlyQuery
    /\ IF <<query.name, query.qtype>> \in records THEN Finish("custom")
       ELSE IF query.qtype \in Checked THEN Goto("acl") ELSE Finish("forwarded")

(* Custom records come first; then only A and AAAA queries are checked. *)
LookupRecords ==
    /\ At("records")
    /\ OnlyQuery
    /\ IF <<query.name, query.qtype>> \in records THEN Finish("custom")
       ELSE IF query.qtype \in Checked THEN Goto("whitelist") ELSE Finish("forwarded")

(* The whitelist holds for the exact name. *)
IsWhitelisted ==
    /\ At("whitelist")
    /\ OnlyQuery
    /\ IF query.name \in whitelist THEN Finish("forwarded") ELSE Goto("acl")

(* The entry that is found is used by the steps that follow. *)
GetClientACL ==
    /\ At("acl")
    /\ OnlyQuery
    /\ LET entry == acl[query.client]
       IN  CASE entry.action = "none" -> Goto("default")
             [] entry.action = "allow" -> Finish("forwarded")
             [] entry.action = "block" /\ entry.categories = {} -> Finish("acl_blocked")
             [] entry.action = "block" /\ entry.categories # {} ->
                   query' = [query EXCEPT !.pc = "blockL1", !.i = 1, !.entry = entry]

GetACLDefault ==
    /\ At("default")
    /\ OnlyQuery
    /\ IF aclDefault THEN Walk("blockL1") ELSE Finish("acl_blocked")

(* nextParent: on to the next suffix, or out of the walk with a miss.  The   *)
(* slips: the end is missed by one, the name never gets shorter, only the    *)
(* name itself is tried.                                                     *)
NextParentPast(place, miss) ==
    IF query.i <= Len(query.name)
    THEN query' = [query EXCEPT !.pc = place, !.i = @ + 1] ELSE miss

NextParentSame(place, miss) ==
    IF query.i < Len(query.name) THEN Goto(place) ELSE miss

NextParentNone(place, miss) == miss

NextParent(place, miss) ==
    IF query.i < Len(query.name)
    THEN query' = [query EXCEPT !.pc = place, !.i = @ + 1] ELSE miss

(* IsBlocked has found a suffix: without an entry that is the verdict, with  *)
(* one the category is looked up, from the whole name again (and not, which  *)
(* would be a slip, from the suffix that was found).                         *)
HitKeepsPlace ==
    IF query.entry.action = "none" THEN Finish("blocked") ELSE Goto("metaL1")

Hit ==
    IF query.entry.action = "none" THEN Finish("blocked") ELSE Walk("metaL1")

IsBlockedMiss == NextParent("blockL1", Finish("forwarded"))

IsBlockedL1 ==
    /\ At("blockL1")
    /\ OnlyQuery
    /\ IF Suffix(query.name, query.i) \in shown[Server] THEN Hit
       ELSE IF rdb THEN Goto("blockL2") ELSE IsBlockedMiss

IsBlockedL2 ==
    /\ At("blockL2")
    /\ OnlyQuery
    /\ IF Suffix(query.name, query.i) \in shared THEN Hit ELSE IsBlockedMiss

(* What Lookup returns: the intercept server shows it, Resolve matches it    *)
(* with the entry's categories, where the empty category matches nothing     *)
(* (and not, which would be a slip, everything).                             *)
FoundOrUnknown(cat) ==
    query' = [query EXCEPT !.pc = "done", !.cat = cat,
                 !.verdict = IF ~IsDNS THEN "page"
                             ELSE IF cat \in query.entry.categories \cup {Uncategorised} THEN "blocked"
                             ELSE "forwarded"]

Found(cat) ==
    query' = [query EXCEPT !.pc = "done", !.cat = cat,
                 !.verdict = IF ~IsDNS THEN "page"
                             ELSE IF cat \in query.entry.categories THEN "blocked"
                             ELSE "forwarded"]

LookupMiss == NextParent("metaL1", Found(Uncategorised))

LookupL1 ==
    /\ At("metaL1")
    /\ OnlyQuery
    /\ LET m == described[Server][Suffix(query.name, query.i)]
       IN  IF m # Absent THEN Found(m)
           ELSE IF rdb THEN Goto("metaL2") ELSE LookupMiss

(* The value in Redis is the reason, the separator and the category; it is   *)
(* split at the first separator, which may be one of the reason's.           *)
Decode(d) == IF d \in Piped THEN Mangled ELSE labels[d]

LookupL2 ==
    /\ At("metaL2")
    /\ OnlyQuery
    /\ LET d == Suffix(query.name, query.i)
       IN  IF labels[d] # Absent THEN Found(Decode(d)) ELSE LookupMiss

(* A Redis command that fails counts as a miss. *)
ReadFails ==
    /\ Spend("other")
    /\ \/ At("blockL2") /\ IsBlockedMiss
       \/ At("metaL2") /\ LookupMiss
    /\ since' = [since EXCEPT !.calm = FALSE]
    /\ UNCHANGED <<cached, rdb, rules>>

Step ==
    \/ LookupRecords \/ IsWhitelisted \/ GetClientACL \/ GetACLDefault
    \/ IsBlockedL1 \/ IsBlockedL2 \/ LookupL1 \/ LookupL2 \/ ReadFails

------------------------------------------------------------------------------
(* What changes meanwhile.                                                   *)

(* A step of the blocklist caches, of this replica or through the others. *)
CacheStep ==
    /\ ~At("done")
    /\ \/ Cache!Commit /\ Spend("commit")
       \/ (Cache!Expire \/ \E r \in Replica : Cache!Forget(r)) /\ Spend("other")
       \/ (Cache!Share \/ Cache!Label \/ \E r \in Replica : Cache!Show(r) \/ Cache!Describe(r))
          /\ UNCHANGED left
    /\ since' = [since EXCEPT !.steady  = @ \cap shown'[Server],
                              !.covered = /\ @
                                          /\ ~At("idle")
                                          /\ Suffixes(query.name) \cap shown'[Server] # {},
                              !.calm    = FALSE]
    /\ UNCHANGED <<rdb, rules, query>>

(* One of the other caches is replaced: ReloadRecords, ReloadWhitelist,      *)
(* ReloadACL, SetACLDefault.                                                 *)
RuleStep ==
    /\ ~At("done")
    /\ Spend("other")
    /\ \/ records' \in RecordSets /\ UNCHANGED <<whitelist, acl, aclDefault>>
       \/ whitelist' \in Whitelists /\ UNCHANGED <<records, acl, aclDefault>>
       \/ acl' \in Policies /\ UNCHANGED <<records, whitelist, aclDefault>>
       \/ aclDefault' \in BOOLEAN /\ UNCHANGED <<records, whitelist, acl>>
    /\ since' = [since EXCEPT !.listed = @ /\ ~At("idle") /\ query.name \in whitelist',
                              !.ruled  = FALSE,
                              !.calm   = FALSE]
    /\ UNCHANGED <<cached, rdb, query>>

Next ==
    \/ \E n \in Asked, t \in QType, c \in Client : Ask(n, t, c)
    \/ \E n \in Asked : Intercept(n)
    \/ Step
    \/ CacheStep
    \/ RuleStep

Spec == Init /\ [][Next]_vars

(* Locks are held for a map look-up only, and a Redis command is answered or *)
(* times out.  Nothing makes anybody ask or change anything.                 *)
FairSpec == Spec /\ WF_vars(Step)

------------------------------------------------------------------------------
(* Properties.                                                               *)

Told == Category \cup {Uncategorised, Mangled}

Question ==
    [pc : Place \ {"idle"}, name : Domain, qtype : QType, client : Client, i : Nat,
     entry : Entry, cat : Told, verdict : Verdict]
    \cup
    [pc : {"metaL1", "metaL2", "done"}, name : Domain, i : Nat, cat : Told, verdict : Verdict]

(* Every variable has its type, and a walk never leaves the name. *)
TypeOK ==
    /\ history \in SUBSET Cache!View
    /\ shown \in [Replica -> SUBSET Domain]
    /\ described \in [Replica -> Cache!View]
    /\ shared \in SUBSET Domain
    /\ labels \in Cache!View
    /\ rdb \in BOOLEAN
    /\ records \in SUBSET (Domain \X QType)
    /\ whitelist \in SUBSET Domain
    /\ acl \in [Client -> Entry]
    /\ aclDefault \in BOOLEAN
    /\ \/ query = [pc |-> "idle"]
       \/ query \in Question /\ query.i \in 1..Len(query.name)
    /\ since \in [steady : SUBSET Domain, covered : BOOLEAN, listed : BOOLEAN,
                  ruled : BOOLEAN, calm : BOOLEAN]
    /\ left \in [Change -> Nat]

(* cache.go:58, "Whitelist cache: domains that must never be blocked": a     *)
(* name that is whitelisted from the question to the answer is not blocked,  *)
(* whatever the access list, the default policy and the blocklist become.    *)
WhitelistedIsNeverBlocked ==
    At("done") /\ since.listed => query.verdict \notin {"blocked", "acl_blocked"}

(* The query is one that only the blocklist decides on. *)
LeftToBlocklist ==
    /\ IsDNS
    /\ query.qtype \in Checked
    /\ since.ruled
    /\ <<query.name, query.qtype>> \notin records
    /\ query.name \notin whitelist
    /\ acl[query.client].action = "none"

(* Reloads replace the hot set while IsBlocked walks through it, and Redis   *)
(* may fail; a name with a suffix that stays in the hot set all the while is *)
(* blocked nevertheless.                                                     *)
SteadilyBlockedIsBlocked ==
    At("done") /\ LeftToBlocklist /\ since.steady # {} =>
        query.verdict \in {"blocked", "acl_blocked"}

(* A name is blocked, and the block page explains it, only by what the       *)
(* administrators once committed for the name or a parent; and for a client  *)
(* with categories, by a category of its list.  What Redis returns for a     *)
(* reason with a separator in it is the one exception, and blocks nothing.   *)
Holds(cat) == \E v \in history, d \in Suffixes(query.name) : v[d] = cat

BlockedForAReason ==
    At("done") =>
        /\ query.verdict = "blocked" =>
              \/ query.entry.action = "none" /\ \E c \in Category : Holds(c)
              \/ \E c \in query.entry.categories : Holds(c)
        /\ query.verdict = "page" =>
              query.cat \in {Uncategorised, Mangled} \/ Holds(query.cat)

(* What the caches say of a name when they are looked at all at once. *)
BlockedNow(n) == \E d \in Suffixes(n) : d \in shown[Server] \/ (rdb /\ d \in shared)

CategoryNow(n) ==
    LET known == {i \in 1..Len(n) : \/ described[Server][Suffix(n, i)] # Absent
                                    \/ /\ rdb
                                       /\ labels[Suffix(n, i)] # Absent}
        longest == Suffix(n, CHOOSE i \in known : \A j \in known : i <= j)
    IN  IF known = {} THEN Uncategorised
        ELSE IF described[Server][longest] # Absent THEN described[Server][longest]
        ELSE Decode(longest)

Refused(n, t, c) ==
    /\ <<n, t>> \notin records
    /\ t \in Checked
    /\ n \notin whitelist
    /\ CASE acl[c].action = "allow" -> FALSE
         [] acl[c].action = "none"  -> ~aclDefault \/ BlockedNow(n)
         [] acl[c].action = "block" -> \/ acl[c].categories = {}
                                       \/ BlockedNow(n) /\ CategoryNow(n) \in acl[c].categories

(* The stepwise look-up is the one a user would describe: when nothing       *)
(* changes and no command fails between question and answer, the verdict is  *)
(* the caches' as a whole: the longest known suffix tells the category, the  *)
(* memory before Redis.                                                      *)
CalmVerdict ==
    At("done") /\ since.calm =>
        IF ~IsDNS THEN query.cat = CategoryNow(query.name)
        ELSE /\ query.verdict \in {"blocked", "acl_blocked"}
                   <=> Refused(query.name, query.qtype, query.client)
             /\ query.verdict = "custom" <=> <<query.name, query.qtype>> \in records

(* Every query is answered, however often the caches change under the walk. *)
EveryQueryIsAnswered == ~At("idle") ~> At("done")

(* cache.go:244, "IsBlocked returns true if the domain (or any parent        *)
(* suffix) is in the blocklist": it is enough that at every moment some      *)
(* suffix is in the hot set.                                                 *)
CoveredIsBlocked ==
    At("done") /\ LeftToBlocklist /\ since.covered =>
        query.verdict \in {"blocked", "acl_blocked"}
==============================================================================
