---------------------------- MODULE ResolverProofs ---------------------------
(* Proofs about Resolver for any names, categories, clients and contents of  *)
(* the tables.                                                               *)
EXTENDS Resolver, TLAPS

------------------------------------------------------------------------------
(* Questions.                                                                *)

(* q is about the same as the question that is being answered. *)
Same(q) ==
    /\ q \in Question
    /\ q.name = query.name
    /\ "qtype" \in DOMAIN q <=> IsDNS
    /\ IsDNS => q.qtype = query.qtype /\ q.client = query.client

(* What the steps of a query do to it leaves a question about the same name, *)
(* with the fields changed that the step names and no other.                 *)
LEMMA GotoMoves ==
    ASSUME query \in Question, NEW p \in Place \ {"idle"},
           IsDNS \/ p \in {"metaL1", "metaL2", "done"},
           query' = [query EXCEPT !.pc = p]
    PROVE  /\ Same(query') /\ query'.pc = p /\ query'.i = query.i /\ query'.verdict = query.verdict
           /\ query'.cat = query.cat
           /\ IsDNS => query'.entry = query.entry
<1>1. CASE query \in [pc : Place \ {"idle"}, name : Domain, qtype : QType, client : Client,
                      i : Nat, entry : Entry, cat : Told, verdict : Verdict]
  BY <1>1 DEF Question, Same, IsDNS
<1>2. CASE query \in [pc : {"metaL1", "metaL2", "done"}, name : Domain, i : Nat,
                      cat : Told, verdict : Verdict]
  <2>1. ~IsDNS
    BY <1>2 DEF IsDNS
  <2> QED
    BY <1>2, <2>1 DEF Question, Same, IsDNS
<1> QED
  BY <1>1, <1>2 DEF Question

(* The same for a step of a walk, *)
LEMMA WalkMoves ==
    ASSUME query \in Question, NEW p \in Place \ {"idle"}, NEW j \in Nat,
           IsDNS \/ p \in {"metaL1", "metaL2", "done"},
           query' = [query EXCEPT !.pc = p, !.i = j]
    PROVE  /\ Same(query') /\ query'.pc = p /\ query'.i = j /\ query'.verdict = query.verdict
           /\ query'.cat = query.cat
           /\ IsDNS => query'.entry = query.entry
<1>1. CASE query \in [pc : Place \ {"idle"}, name : Domain, qtype : QType, client : Client,
                      i : Nat, entry : Entry, cat : Told, verdict : Verdict]
  BY <1>1 DEF Question, Same, IsDNS
<1>2. CASE query \in [pc : {"metaL1", "metaL2", "done"}, name : Domain, i : Nat,
                      cat : Told, verdict : Verdict]
  <2>1. ~IsDNS
    BY <1>2 DEF IsDNS
  <2> QED
    BY <1>2, <2>1 DEF Question, Same, IsDNS
<1> QED
  BY <1>1, <1>2 DEF Question

(* ... for a verdict, *)
LEMMA FinishMoves ==
    ASSUME query \in Question, NEW p \in Place \ {"idle"}, NEW v \in Verdict,
           IsDNS \/ p \in {"metaL1", "metaL2", "done"},
           query' = [query EXCEPT !.pc = p, !.verdict = v]
    PROVE  /\ Same(query') /\ query'.pc = p /\ query'.i = query.i /\ query'.verdict = v
           /\ query'.cat = query.cat
           /\ IsDNS => query'.entry = query.entry
<1>1. CASE query \in [pc : Place \ {"idle"}, name : Domain, qtype : QType, client : Client,
                      i : Nat, entry : Entry, cat : Told, verdict : Verdict]
  BY <1>1 DEF Question, Same, IsDNS
<1>2. CASE query \in [pc : {"metaL1", "metaL2", "done"}, name : Domain, i : Nat,
                      cat : Told, verdict : Verdict]
  <2>1. ~IsDNS
    BY <1>2 DEF IsDNS
  <2> QED
    BY <1>2, <2>1 DEF Question, Same, IsDNS
<1> QED
  BY <1>1, <1>2 DEF Question

(* ... for what Lookup returns, *)
LEMMA FoundMoves ==
    ASSUME query \in Question, NEW p \in Place \ {"idle"}, NEW c \in Told, NEW v \in Verdict,
           IsDNS \/ p \in {"metaL1", "metaL2", "done"},
           query' = [query EXCEPT !.pc = p, !.cat = c, !.verdict = v]
    PROVE  /\ Same(query') /\ query'.pc = p /\ query'.i = query.i /\ query'.verdict = v
           /\ query'.cat = c
           /\ IsDNS => query'.entry = query.entry
<1>1. CASE query \in [pc : Place \ {"idle"}, name : Domain, qtype : QType, client : Client,
                      i : Nat, entry : Entry, cat : Told, verdict : Verdict]
  BY <1>1 DEF Question, Same, IsDNS
<1>2. CASE query \in [pc : {"metaL1", "metaL2", "done"}, name : Domain, i : Nat,
                      cat : Told, verdict : Verdict]
  <2>1. ~IsDNS
    BY <1>2 DEF IsDNS
  <2> QED
    BY <1>2, <2>1 DEF Question, Same, IsDNS
<1> QED
  BY <1>1, <1>2 DEF Question

(* ... and for the entry of the access list. *)
LEMMA EntryMoves ==
    ASSUME query \in Question, NEW p \in Place \ {"idle"}, NEW j \in Nat, NEW e \in Entry,
           IsDNS,
           query' = [query EXCEPT !.pc = p, !.i = j, !.entry = e]
    PROVE  /\ Same(query') /\ query'.pc = p /\ query'.i = j /\ query'.verdict = query.verdict
           /\ query'.cat = query.cat
           /\ IsDNS => query'.entry = e
<1>1. CASE query \in [pc : Place \ {"idle"}, name : Domain, qtype : QType, client : Client,
                      i : Nat, entry : Entry, cat : Told, verdict : Verdict]
  BY <1>1 DEF Question, Same, IsDNS
<1>2. CASE query \in [pc : {"metaL1", "metaL2", "done"}, name : Domain, i : Nat,
                      cat : Told, verdict : Verdict]
  <2>1. ~IsDNS
    BY <1>2 DEF IsDNS
  <2> QED
    BY <1>2, <2>1 DEF Question, Same, IsDNS
<1> QED
  BY <1>1, <1>2 DEF Question

(* The intercept server only looks up categories. *)
LEMMA DNSPlaces ==
    ASSUME query \in Question, query.pc \notin {"metaL1", "metaL2", "done"}
    PROVE  IsDNS
BY DEF Question, IsDNS

(* Fields of a question. *)
LEMMA QuestionFields ==
    ASSUME query \in Question
    PROVE  /\ query.pc \in Place \ {"idle"}
           /\ query.name \in Domain
           /\ query.i \in Nat
           /\ query.cat \in Told
           /\ query.verdict \in Verdict
           /\ IsDNS => query.qtype \in QType /\ query.client \in Client /\ query.entry \in Entry
           /\ ~IsDNS => query.pc \in {"metaL1", "metaL2", "done"}
BY DEF Question, IsDNS, Place

(* The suffixes of a name are domains. *)
LEMMA SuffixType ==
    ASSUME NEW n \in Domain
    PROVE  /\ Len(n) \in Nat \ {0}
           /\ \A i \in 1..Len(n) : Suffix(n, i) \in Domain
           /\ Suffixes(n) \subseteq Domain
<1>1. n \in Seq(DnsLabel)
  BY ResolverAssumption
<1>2. Len(n) \in Nat /\ Len(n) > 0
  BY <1>1, ResolverAssumption
<1>3. \A i \in 1..Len(n) : Suffix(n, i) \in Domain
  BY ResolverAssumption DEF Suffix
<1>4. Suffixes(n) \subseteq Domain
  BY <1>3 DEF Suffixes
<1> QED
  BY <1>2, <1>3, <1>4

(* Spending keeps the type of what is left. *)
LEMMA SpendType ==
    ASSUME left \in [Change -> Nat], NEW kind \in Change, Spend(kind)
    PROVE  left' \in [Change -> Nat]
BY DEF Spend

------------------------------------------------------------------------------
(* Type correctness.                                                         *)

Walking == query \in Question /\ query.i \in 1..Len(query.name)

(* IsBlocked goes on to the parent, or ends without a hit.                   *)
LEMMA IsBlockedMissMoves ==
    ASSUME Walking, IsDNS, IsBlockedMiss
    PROVE  /\ Same(query')
           /\ query'.cat = query.cat
           /\ query'.entry = query.entry
           /\ \/ /\ query.i < Len(query.name)
                 /\ query'.i = query.i + 1
                 /\ query'.pc = "blockL1"
                 /\ query'.verdict = query.verdict
              \/ /\ query.i = Len(query.name)
                 /\ query'.i = query.i
                 /\ query'.pc = "done"
                 /\ query'.verdict = "forwarded"
<1>1. query.name \in Domain /\ query.i \in Nat
  BY QuestionFields DEF Walking
<1>2. Len(query.name) \in Nat
  BY <1>1, SuffixType
<1>3. CASE query.i < Len(query.name)
  <2>1. query' = [query EXCEPT !.pc = "blockL1", !.i = query.i + 1]
    BY <1>3 DEF IsBlockedMiss, NextParent
  <2>2. query.i + 1 \in Nat /\ "blockL1" \in Place \ {"idle"}
    BY <1>1 DEF Place
  <2> QED
    BY <1>3, <2>1, <2>2, WalkMoves DEF Walking
<1>4. CASE ~(query.i < Len(query.name))
  <2>1. query' = [query EXCEPT !.pc = "done", !.verdict = "forwarded"]
    BY <1>4 DEF IsBlockedMiss, NextParent, Finish
  <2>2. "done" \in Place \ {"idle"} /\ "forwarded" \in Verdict
    BY DEF Place, Verdict
  <2>3. query.i = Len(query.name)
    BY <1>1, <1>2, <1>4 DEF Walking
  <2> QED
    BY <2>1, <2>2, <2>3, FinishMoves DEF Walking
<1> QED
  BY <1>3, <1>4

(* What Lookup returns ends the query. *)
LEMMA FoundEnds ==
    ASSUME query \in Question, NEW c \in Told, Found(c)
    PROVE  /\ Same(query')
           /\ query'.cat = c
           /\ query'.i = query.i
           /\ query'.pc = "done"
           /\ IsDNS => query'.entry = query.entry
           /\ query'.verdict = IF ~IsDNS THEN "page"
                               ELSE IF c \in query.entry.categories THEN "blocked"
                               ELSE "forwarded"
<1> DEFINE v == IF ~IsDNS THEN "page"
                ELSE IF c \in query.entry.categories THEN "blocked"
                ELSE "forwarded"
<1>1. query' = [query EXCEPT !.pc = "done", !.cat = c, !.verdict = v]
  BY DEF Found
<1>2. v \in Verdict /\ "done" \in Place \ {"idle"}
  BY DEF Verdict, Place
<1> HIDE DEF v
<1>3. /\ Same(query') /\ query'.pc = "done" /\ query'.i = query.i
      /\ query'.verdict = v /\ query'.cat = c
      /\ IsDNS => query'.entry = query.entry
  BY <1>1, <1>2, FoundMoves
<1> QED
  BY <1>3 DEF v

(* Lookup goes on to the parent, or ends without a category.                 *)
LEMMA LookupMissMoves ==
    ASSUME Walking, LookupMiss
    PROVE  /\ Same(query')
           /\ IsDNS => query'.entry = query.entry
           /\ \/ /\ query.i < Len(query.name)
                 /\ query'.i = query.i + 1
                 /\ query'.pc = "metaL1"
                 /\ query'.cat = query.cat
                 /\ query'.verdict = query.verdict
              \/ /\ query.i = Len(query.name)
                 /\ query'.i = query.i
                 /\ query'.pc = "done"
                 /\ Found(Uncategorised)
<1>1. query.name \in Domain /\ query.i \in Nat
  BY QuestionFields DEF Walking
<1>2. Len(query.name) \in Nat
  BY <1>1, SuffixType
<1>3. CASE query.i < Len(query.name)
  <2>1. query' = [query EXCEPT !.pc = "metaL1", !.i = query.i + 1]
    BY <1>3 DEF LookupMiss, NextParent
  <2>2. query.i + 1 \in Nat /\ "metaL1" \in Place \ {"idle"}
    BY <1>1 DEF Place
  <2> QED
    BY <1>3, <2>1, <2>2, WalkMoves DEF Walking
<1>4. CASE ~(query.i < Len(query.name))
  <2>1. Found(Uncategorised)
    BY <1>4 DEF LookupMiss, NextParent
  <2>2. query.i = Len(query.name)
    BY <1>1, <1>2, <1>4 DEF Walking
  <2> QED
    BY <2>1, <2>2, FoundEnds DEF Walking, Told
<1> QED
  BY <1>3, <1>4

(* What a step of a query leaves alone; the lemmas that follow say what each *)
(* does to the query, as fields of the query after it.                       *)
Stays == UNCHANGED <<cached, rdb, rules, since, left>>

(* A custom answer, a type that is not checked, or on to the whitelist. *)
LEMMA LookupRecordsMoves ==
    ASSUME Walking, LookupRecords
    PROVE  /\ IsDNS /\ Stays /\ Same(query') /\ query'.i = query.i
           /\ query'.entry = query.entry
           /\ \/ query'.pc = "done" /\ query'.verdict = "custom"
                 /\ <<query.name, query.qtype>> \in records
              \/ query'.pc = "done" /\ query'.verdict = "forwarded"
                 /\ <<query.name, query.qtype>> \notin records /\ query.qtype \notin Checked
              \/ query'.pc = "whitelist"
                 /\ <<query.name, query.qtype>> \notin records /\ query.qtype \in Checked
<1>1. IsDNS /\ Stays /\ query \in Question
  BY DNSPlaces DEF LookupRecords, At, OnlyQuery, Stays, Walking
<1>2. {"done", "whitelist"} \subseteq Place \ {"idle"} /\ {"custom", "forwarded"} \subseteq Verdict
  BY DEF Place, Verdict
<1>3. CASE <<query.name, query.qtype>> \in records
  <2>1. query' = [query EXCEPT !.pc = "done", !.verdict = "custom"]
    BY <1>3 DEF LookupRecords, Finish
  <2> QED
    BY <1>1, <1>2, <1>3, <2>1, FinishMoves
<1>4. CASE <<query.name, query.qtype>> \notin records /\ query.qtype \notin Checked
  <2>1. query' = [query EXCEPT !.pc = "done", !.verdict = "forwarded"]
    BY <1>4 DEF LookupRecords, Finish
  <2> QED
    BY <1>1, <1>2, <1>4, <2>1, FinishMoves
<1>5. CASE <<query.name, query.qtype>> \notin records /\ query.qtype \in Checked
  <2>1. query' = [query EXCEPT !.pc = "whitelist"]
    BY <1>5 DEF LookupRecords, Goto
  <2> QED
    BY <1>1, <1>2, <1>5, <2>1, GotoMoves
<1> QED
  BY <1>3, <1>4, <1>5

(* The whitelist forwards, or leaves the query to the access list. *)
LEMMA IsWhitelistedMoves ==
    ASSUME Walking, IsWhitelisted
    PROVE  /\ IsDNS /\ Stays /\ Same(query') /\ query'.i = query.i
           /\ query'.entry = query.entry
           /\ \/ query'.pc = "done" /\ query'.verdict = "forwarded"
                 /\ query.name \in whitelist
              \/ query'.pc = "acl" /\ query.name \notin whitelist
<1>1. IsDNS /\ Stays /\ query \in Question
  BY DNSPlaces DEF IsWhitelisted, At, OnlyQuery, Stays, Walking
<1>2. {"done", "acl"} \subseteq Place \ {"idle"} /\ "forwarded" \in Verdict
  BY DEF Place, Verdict
<1>3. CASE query.name \in whitelist
  <2>1. query' = [query EXCEPT !.pc = "done", !.verdict = "forwarded"]
    BY <1>3 DEF IsWhitelisted, Finish
  <2> QED
    BY <1>1, <1>2, <1>3, <2>1, FinishMoves
<1>4. CASE query.name \notin whitelist
  <2>1. query' = [query EXCEPT !.pc = "acl"]
    BY <1>4 DEF IsWhitelisted, Goto
  <2> QED
    BY <1>1, <1>2, <1>4, <2>1, GotoMoves
<1> QED
  BY <1>3, <1>4

(* The access list decides, or hands its entry to the walk. *)
LEMMA GetClientACLMoves ==
    ASSUME Walking, acl \in [Client -> Entry], GetClientACL
    PROVE  /\ IsDNS /\ Stays /\ Same(query')
           /\ query'.i \in {1, query.i}
           /\ \/ query'.pc = "default" /\ query'.entry = query.entry
                 /\ acl[query.client].action = "none"
              \/ query'.pc = "done" /\ query'.entry = query.entry
                 /\ query'.verdict = "forwarded" /\ acl[query.client].action = "allow"
              \/ query'.pc = "done" /\ query'.entry = query.entry
                 /\ query'.verdict = "acl_blocked" /\ acl[query.client].action = "block"
                 /\ acl[query.client].categories = {}
              \/ query'.pc = "blockL1" /\ query'.entry = acl[query.client]
                 /\ query'.i = 1 /\ acl[query.client].action = "block"
                 /\ acl[query.client].categories # {}
<1>1. IsDNS /\ Stays /\ query \in Question
  BY DNSPlaces DEF GetClientACL, At, OnlyQuery, Stays, Walking
<1>2. /\ {"default", "done", "blockL1"} \subseteq Place \ {"idle"}
      /\ {"forwarded", "acl_blocked"} \subseteq Verdict
  BY DEF Place, Verdict
<1> DEFINE entry == acl[query.client]
<1>3. entry \in Entry
  BY <1>1, QuestionFields
<1>4. entry.action \in {"none", "allow", "block"}
  BY <1>3 DEF Entry
<1>5. CASE entry.action = "none"
  <2>1. query' = [query EXCEPT !.pc = "default"]
    BY <1>5 DEF GetClientACL, Goto
  <2> QED
    BY <1>1, <1>2, <1>5, <2>1, GotoMoves
<1>6. CASE entry.action = "allow"
  <2>1. query' = [query EXCEPT !.pc = "done", !.verdict = "forwarded"]
    BY <1>6 DEF GetClientACL, Finish
  <2> QED
    BY <1>1, <1>2, <1>6, <2>1, FinishMoves
<1>7. CASE entry.action = "block" /\ entry.categories = {}
  <2>1. query' = [query EXCEPT !.pc = "done", !.verdict = "acl_blocked"]
    BY <1>7 DEF GetClientACL, Finish
  <2> QED
    BY <1>1, <1>2, <1>7, <2>1, FinishMoves
<1>8. CASE entry.action = "block" /\ entry.categories # {}
  <2>1. query' = [query EXCEPT !.pc = "blockL1", !.i = 1, !.entry = entry]
    BY <1>8 DEF GetClientACL
  <2>2. 1 \in Nat
    OBVIOUS
  <2> HIDE DEF entry
  <2>3. /\ Same(query') /\ query'.pc = "blockL1" /\ query'.i = 1
        /\ query'.entry = entry
    BY <1>1, <1>2, <1>3, <2>1, <2>2, EntryMoves
  <2> QED
    BY <1>1, <1>8, <2>3 DEF entry
<1> QED
  BY <1>4, <1>5, <1>6, <1>7, <1>8

(* The default policy refuses, or starts the walk. *)
LEMMA GetACLDefaultMoves ==
    ASSUME Walking, GetACLDefault
    PROVE  /\ IsDNS /\ Stays /\ Same(query') /\ query'.i \in {1, query.i}
           /\ query'.entry = query.entry
           /\ \/ query'.pc = "done" /\ query'.verdict = "acl_blocked" /\ ~aclDefault
              \/ query'.pc = "blockL1" /\ query'.i = 1 /\ aclDefault
<1>1. IsDNS /\ Stays /\ query \in Question
  BY DNSPlaces DEF GetACLDefault, At, OnlyQuery, Stays, Walking
<1>2. {"done", "blockL1"} \subseteq Place \ {"idle"} /\ "acl_blocked" \in Verdict /\ 1 \in Nat
  BY DEF Place, Verdict
<1>3. CASE aclDefault
  <2>1. query' = [query EXCEPT !.pc = "blockL1", !.i = 1]
    BY <1>3 DEF GetACLDefault, Walk
  <2> QED
    BY <1>1, <1>2, <1>3, <2>1, WalkMoves
<1>4. CASE ~aclDefault
  <2>1. query' = [query EXCEPT !.pc = "done", !.verdict = "acl_blocked"]
    BY <1>4 DEF GetACLDefault, Finish
  <2> QED
    BY <1>1, <1>2, <1>4, <2>1, FinishMoves
<1> QED
  BY <1>3, <1>4

(* IsBlocked has found a suffix, or has not found this one.                  *)
HitOutcome ==
    \/ query'.pc = "done" /\ query'.i = query.i /\ query'.verdict = "blocked"
       /\ query.entry.action = "none"
    \/ query'.pc = "metaL1" /\ query'.i = 1 /\ query.entry.action # "none"

(* A miss goes on to the parent, or forwards at the last suffix. *)
MissOutcome ==
    \/ query.i < Len(query.name) /\ query'.i = query.i + 1 /\ query'.pc = "blockL1"
    \/ query.i = Len(query.name) /\ query'.i = query.i /\ query'.pc = "done"
       /\ query'.verdict = "forwarded"

(* A hit is the verdict, or leads to the look-up of the category. *)
LEMMA HitMoves ==
    ASSUME query \in Question, IsDNS, Hit
    PROVE  /\ Same(query') /\ query'.i \in {1, query.i} /\ query'.entry = query.entry
           /\ HitOutcome
<1>1. {"done", "metaL1"} \subseteq Place \ {"idle"} /\ "blocked" \in Verdict /\ 1 \in Nat
  BY DEF Place, Verdict
<1>2. CASE query.entry.action = "none"
  <2>1. query' = [query EXCEPT !.pc = "done", !.verdict = "blocked"]
    BY <1>2 DEF Hit, Finish
  <2> QED
    BY <1>1, <1>2, <2>1, FinishMoves DEF HitOutcome
<1>3. CASE query.entry.action # "none"
  <2>1. query' = [query EXCEPT !.pc = "metaL1", !.i = 1]
    BY <1>3 DEF Hit, Walk
  <2> QED
    BY <1>1, <1>3, <2>1, WalkMoves DEF HitOutcome
<1> QED
  BY <1>2, <1>3

(* In memory: a hit, on to Redis with the same suffix, or a miss. *)
LEMMA IsBlockedL1Moves ==
    ASSUME Walking, IsBlockedL1
    PROVE  /\ IsDNS /\ Stays /\ Same(query') /\ query'.entry = query.entry
           /\ query'.i \in {1, query.i, query.i + 1}
           /\ \/ Suffix(query.name, query.i) \in shown[Server] /\ HitOutcome
              \/ Suffix(query.name, query.i) \notin shown[Server] /\ ~rdb /\ MissOutcome
              \/ Suffix(query.name, query.i) \notin shown[Server] /\ rdb
                 /\ query'.i = query.i /\ query'.pc = "blockL2"
<1>1. IsDNS /\ Stays /\ query \in Question
  BY DNSPlaces DEF IsBlockedL1, At, OnlyQuery, Stays, Walking
<1>2. CASE Suffix(query.name, query.i) \in shown[Server]
  <2>1. Hit
    BY <1>2 DEF IsBlockedL1
  <2> QED
    BY <1>1, <1>2, <2>1, HitMoves
<1>3. CASE Suffix(query.name, query.i) \notin shown[Server] /\ rdb
  <2>1. query' = [query EXCEPT !.pc = "blockL2"]
    BY <1>3 DEF IsBlockedL1, Goto
  <2>2. "blockL2" \in Place \ {"idle"}
    BY DEF Place
  <2> QED
    BY <1>1, <1>3, <2>1, <2>2, GotoMoves
<1>4. CASE Suffix(query.name, query.i) \notin shown[Server] /\ ~rdb
  <2>1. IsBlockedMiss
    BY <1>4 DEF IsBlockedL1
  <2> QED
    BY <1>1, <1>4, <2>1, IsBlockedMissMoves DEF MissOutcome
<1> QED
  BY <1>2, <1>3, <1>4

(* In Redis: a hit or a miss. *)
LEMMA IsBlockedL2Moves ==
    ASSUME Walking, IsBlockedL2
    PROVE  /\ IsDNS /\ Stays /\ Same(query') /\ query'.entry = query.entry
           /\ query'.i \in {1, query.i, query.i + 1}
           /\ \/ Suffix(query.name, query.i) \in shared /\ HitOutcome
              \/ Suffix(query.name, query.i) \notin shared /\ MissOutcome
<1>1. IsDNS /\ Stays /\ query \in Question
  BY DNSPlaces DEF IsBlockedL2, At, OnlyQuery, Stays, Walking
<1>2. CASE Suffix(query.name, query.i) \in shared
  <2>1. Hit
    BY <1>2 DEF IsBlockedL2
  <2> QED
    BY <1>1, <1>2, <2>1, HitMoves
<1>3. CASE Suffix(query.name, query.i) \notin shared
  <2>1. IsBlockedMiss
    BY <1>3 DEF IsBlockedL2
  <2> QED
    BY <1>1, <1>3, <2>1, IsBlockedMissMoves DEF MissOutcome
<1> QED
  BY <1>2, <1>3

(* Lookup has ended with the category c, or goes on.                         *)
Ended(c) ==
    /\ c \in Told
    /\ query'.pc = "done"
    /\ query'.cat = c
    /\ query'.verdict = IF ~IsDNS THEN "page"
                        ELSE IF c \in query.entry.categories THEN "blocked"
                        ELSE "forwarded"

(* What a step of Lookup comes to: it goes on, or ends with what a map holds. *)
LookupOutcome ==
    /\ Same(query')
    /\ IsDNS => query'.entry = query.entry
    /\ query'.i \in 1..Len(query.name)
    /\ \/ query'.pc \in {"metaL1", "metaL2"}
       \/ Ended(Uncategorised)
       \/ Ended(Mangled)
       \/ \E d \in Suffixes(query.name) :
             \/ described[Server][d] # Absent /\ Ended(described[Server][d])
             \/ labels[d] # Absent /\ Ended(labels[d])

(* A miss of Lookup is one of these outcomes, *)
LEMMA LookupMissOutcome ==
    ASSUME Walking, LookupMiss
    PROVE  LookupOutcome
<1>1. query.name \in Domain /\ query.i \in Nat /\ Len(query.name) \in Nat
  BY QuestionFields, SuffixType DEF Walking
<1>2. CASE query.i < Len(query.name) /\ query'.i = query.i + 1 /\ query'.pc = "metaL1"
  BY <1>1, <1>2, LookupMissMoves DEF LookupOutcome, Walking
<1>3. CASE Found(Uncategorised)
  BY <1>3, FoundEnds DEF LookupOutcome, Ended, Told, Walking
<1> QED
  BY <1>2, <1>3, LookupMissMoves

(* ... a look into memory is, *)
LEMMA LookupL1Moves ==
    ASSUME Walking, described \in [Replica -> Cache!View], LookupL1
    PROVE  Stays /\ LookupOutcome
<1> DEFINE d == Suffix(query.name, query.i)
<1>1. Stays /\ query \in Question
  BY DEF LookupL1, OnlyQuery, Stays, Walking
<1>2. query.name \in Domain /\ query.i \in 1..Len(query.name)
  BY <1>1, QuestionFields DEF Walking
<1>3. d \in Suffixes(query.name) /\ d \in Domain
  BY <1>2, SuffixType DEF Suffixes
<1>4. described[Server][d] \in Category \cup {Absent}
  BY <1>3, ResolverAssumption DEF Cache!View
<1>5. CASE described[Server][d] # Absent
  <2>1. described[Server][d] \in Told /\ Found(described[Server][d])
    BY <1>4, <1>5 DEF LookupL1, Told
  <2>2. Ended(described[Server][d])
    BY <1>1, <2>1, FoundEnds DEF Ended
  <2> QED
    BY <1>1, <1>2, <1>3, <1>5, <2>1, <2>2, FoundEnds DEF LookupOutcome
<1>6. CASE described[Server][d] = Absent /\ rdb
  <2>1. query' = [query EXCEPT !.pc = "metaL2"]
    BY <1>6 DEF LookupL1, Goto
  <2>2. "metaL2" \in Place \ {"idle"}
    BY DEF Place
  <2> QED
    BY <1>1, <1>2, <2>1, <2>2, GotoMoves DEF LookupOutcome
<1>7. CASE described[Server][d] = Absent /\ ~rdb
  BY <1>1, <1>7, LookupMissOutcome DEF LookupL1
<1> QED
  BY <1>5, <1>6, <1>7

(* ... and a look into Redis is. *)
LEMMA LookupL2Moves ==
    ASSUME Walking, labels \in Cache!View, LookupL2
    PROVE  Stays /\ LookupOutcome
<1> DEFINE d == Suffix(query.name, query.i)
<1>1. Stays /\ query \in Question
  BY DEF LookupL2, OnlyQuery, Stays, Walking
<1>2. query.name \in Domain /\ query.i \in 1..Len(query.name)
  BY <1>1, QuestionFields DEF Walking
<1>3. d \in Suffixes(query.name) /\ d \in Domain
  BY <1>2, SuffixType DEF Suffixes
<1>4. labels[d] \in Category \cup {Absent}
  BY <1>3 DEF Cache!View
<1>5. CASE labels[d] # Absent
  <2>1. Decode(d) \in {Mangled, labels[d]} /\ Decode(d) \in Told /\ Found(Decode(d))
    BY <1>4, <1>5 DEF LookupL2, Decode, Told
  <2>2. Ended(Decode(d))
    BY <1>1, <2>1, FoundEnds DEF Ended
  <2> QED
    BY <1>1, <1>2, <1>3, <1>5, <2>1, <2>2, FoundEnds DEF LookupOutcome
<1>6. CASE labels[d] = Absent
  BY <1>1, <1>6, LookupMissOutcome DEF LookupL2
<1> QED
  BY <1>5, <1>6

(* A failed command is a miss of the walk it belongs to. *)
LEMMA ReadFailsMoves ==
    ASSUME Walking, left \in [Change -> Nat], ReadFails
    PROVE  /\ UNCHANGED <<cached, rdb, rules>>
           /\ since' = [since EXCEPT !.calm = FALSE]
           /\ left' \in [Change -> Nat]
           /\ \/ /\ query.pc = "blockL2" /\ IsDNS /\ MissOutcome
                 /\ Same(query') /\ query'.entry = query.entry
                 /\ query'.i \in {query.i, query.i + 1}
              \/ query.pc = "metaL2" /\ LookupOutcome
<1>1. left' \in [Change -> Nat]
  BY SpendType DEF ReadFails, Change
<1>2. CASE query.pc = "blockL2" /\ IsBlockedMiss
  BY <1>1, <1>2, DNSPlaces, IsBlockedMissMoves DEF ReadFails, MissOutcome, Walking
<1>3. CASE query.pc = "metaL2" /\ LookupMiss
  BY <1>1, <1>3, LookupMissOutcome DEF ReadFails
<1> QED
  BY <1>2, <1>3 DEF ReadFails, At

(* The types of the blocklist caches. *)
CacheTypes ==
    /\ history \in SUBSET Cache!View
    /\ shown \in [Replica -> SUBSET Domain]
    /\ described \in [Replica -> Cache!View]
    /\ shared \in SUBSET Domain
    /\ labels \in Cache!View

(* Those of the rules, *)
RuleTypes ==
    /\ records \in SUBSET (Domain \X QType)
    /\ whitelist \in SUBSET Domain
    /\ acl \in [Client -> Entry]
    /\ aclDefault \in BOOLEAN

(* ... and of the history of the query. *)
SinceType == [steady : SUBSET Domain, covered : BOOLEAN, listed : BOOLEAN,
              ruled : BOOLEAN, calm : BOOLEAN]

(* Every action of BlocklistView keeps the types of the caches. *)
LEMMA CacheKeepsTypes ==
    ASSUME CacheTypes, Cache!Next
    PROVE  CacheTypes'
<1>1. CASE Cache!Commit
  BY <1>1 DEF Cache!Commit, CacheTypes
<1>2. CASE Cache!Share
  BY <1>2 DEF Cache!Share, CacheTypes
<1>3. CASE Cache!Label
  BY <1>3 DEF Cache!Label, CacheTypes, Cache!View
<1>4. CASE Cache!Expire
  BY <1>4 DEF Cache!Expire, CacheTypes, Cache!View
<1>5. ASSUME NEW r \in Replica, Cache!Show(r) PROVE CacheTypes'
  BY <1>5 DEF Cache!Show, CacheTypes, Cache!Members
<1>6. ASSUME NEW r \in Replica, Cache!Describe(r) PROVE CacheTypes'
  BY <1>6 DEF Cache!Describe, CacheTypes
<1>7. ASSUME NEW r \in Replica, Cache!Forget(r) PROVE CacheTypes'
  <2>1. Cache!Blank \in Cache!View
    BY DEF Cache!Blank, Cache!View
  <2> QED
    BY <1>7, <2>1 DEF Cache!Forget, CacheTypes
<1> QED
  BY <1>1, <1>2, <1>3, <1>4, <1>5, <1>6, <1>7 DEF Cache!Next

(* A step of the environment is one of BlocklistView, while the query waits. *)
LEMMA CacheStepIsNext ==
    ASSUME CacheStep
    PROVE  Cache!Next
BY DEF CacheStep, Cache!Next

(* What a cache step leaves of the history. *)
LEMMA CacheStepSince ==
    ASSUME since \in SinceType, CacheStep
    PROVE  /\ since' \in SinceType
           /\ since'.steady = since.steady \cap shown'[Server]
           /\ since'.listed = since.listed
           /\ since'.ruled = since.ruled
<1>1. since' = [since EXCEPT !.steady  = since.steady \cap shown'[Server],
                             !.covered = since'.covered,
                             !.calm    = FALSE]
  BY DEF CacheStep, SinceType
<1>2. since'.covered \in BOOLEAN
  BY DEF CacheStep, SinceType
<1> QED
  BY <1>1, <1>2 DEF SinceType

(* What a rule step leaves of it. *)
LEMMA RuleStepSince ==
    ASSUME since \in SinceType, RuleStep
    PROVE  /\ since' \in SinceType
           /\ since'.steady = since.steady
           /\ since'.ruled = FALSE
           /\ since'.listed => since.listed /\ query.name \in whitelist'
<1>1. /\ since'.listed = (since.listed /\ ~At("idle") /\ query.name \in whitelist')
      /\ since'.ruled = FALSE /\ since'.calm = FALSE
      /\ since'.steady = since.steady /\ since'.covered = since.covered
      /\ DOMAIN since' = DOMAIN since
  BY DEF RuleStep, SinceType
<1>2. since' = [since EXCEPT !.listed = since'.listed, !.ruled = FALSE, !.calm = FALSE]
  BY DEF RuleStep, SinceType
<1> QED
  BY <1>1, <1>2 DEF SinceType

(* A step finds a question being walked through. *)
LEMMA StepWalks ==
    ASSUME TypeOK, Step
    PROVE  Walking /\ query.pc # "done"
<1>1. query.pc # "idle" /\ query.pc # "done"
  BY DEF Step, LookupRecords, IsWhitelisted, GetClientACL, GetACLDefault, IsBlockedL1,
         IsBlockedL2, LookupL1, LookupL2, ReadFails, At
<1> QED
  BY <1>1 DEF TypeOK, Walking

(* ... and leaves one, about the same name; nothing else changes but what is *)
(* left and, when a command fails, since.calm.                               *)
LEMMA StepKeeps ==
    ASSUME TypeOK, Step
    PROVE  /\ Same(query') /\ query'.i \in 1..Len(query.name)
           /\ UNCHANGED <<cached, rdb, rules>>
           /\ since' \in SinceType
           /\ since'.steady = since.steady /\ since'.listed = since.listed
           /\ since'.ruled = since.ruled
           /\ left' \in [Change -> Nat]
<1>1. Walking
  BY StepWalks
<1>2. query.name \in Domain /\ query.i \in 1..Len(query.name) /\ Len(query.name) \in Nat \ {0}
  BY <1>1, QuestionFields, SuffixType DEF Walking
<1>3. /\ since \in SinceType /\ left \in [Change -> Nat] /\ acl \in [Client -> Entry]
      /\ described \in [Replica -> Cache!View] /\ labels \in Cache!View
  BY DEF TypeOK, SinceType
<1>4. CASE LookupRecords
  BY <1>1, <1>2, <1>3, <1>4, LookupRecordsMoves DEF Stays
<1>5. CASE IsWhitelisted
  BY <1>1, <1>2, <1>3, <1>5, IsWhitelistedMoves DEF Stays
<1>6. CASE GetClientACL
  BY <1>1, <1>2, <1>3, <1>6, GetClientACLMoves DEF Stays
<1>7. CASE GetACLDefault
  BY <1>1, <1>2, <1>3, <1>7, GetACLDefaultMoves DEF Stays
<1>8. CASE IsBlockedL1
  BY <1>1, <1>2, <1>3, <1>8, IsBlockedL1Moves DEF Stays, HitOutcome, MissOutcome
<1>9. CASE IsBlockedL2
  BY <1>1, <1>2, <1>3, <1>9, IsBlockedL2Moves DEF Stays, HitOutcome, MissOutcome
<1>10. CASE LookupL1
  BY <1>1, <1>3, <1>10, LookupL1Moves DEF Stays, LookupOutcome
<1>11. CASE LookupL2
  BY <1>1, <1>3, <1>11, LookupL2Moves DEF Stays, LookupOutcome
<1>12. CASE ReadFails
  <2>1. /\ UNCHANGED <<cached, rdb, rules>> /\ since' = [since EXCEPT !.calm = FALSE]
        /\ left' \in [Change -> Nat]
    BY <1>1, <1>3, <1>12, ReadFailsMoves
  <2>2. Same(query') /\ query'.i \in 1..Len(query.name)
    BY <1>1, <1>2, <1>3, <1>12, ReadFailsMoves DEF LookupOutcome, MissOutcome
  <2> QED
    BY <1>3, <2>1, <2>2 DEF SinceType
<1> QED
  BY <1>4, <1>5, <1>6, <1>7, <1>8, <1>9, <1>10, <1>11, <1>12 DEF Step

(* A question that is asked is one, and starts with nothing found. *)
LEMMA AskedType ==
    ASSUME TypeOK,
           NEW n \in Asked,
           \/ \E t \in QType, c \in Client : Ask(n, t, c)
           \/ Intercept(n)
    PROVE  /\ query.pc = "idle"
           /\ query' \in Question /\ query'.i = 1 /\ query'.name = n
           /\ query'.i \in 1..Len(n)
           /\ \/ query'.pc = "records" /\ query'.entry = NoEntry
              \/ query'.pc = "metaL1" /\ "qtype" \notin DOMAIN query'
           /\ since' = Since(n) /\ since' \in SinceType
           /\ UNCHANGED <<cached, rdb, rules, left>>
<1>1. n \in Domain /\ Len(n) \in Nat \ {0} /\ Suffixes(n) \subseteq Domain
  BY ResolverAssumption, SuffixType
<1>2. Since(n) \in SinceType
  BY <1>1 DEF Since, SinceType
<1>3. /\ NoEntry \in Entry /\ Uncategorised \in Told /\ "none" \in Verdict
      /\ {"records", "metaL1"} \subseteq Place \ {"idle"}
  BY DEF NoEntry, Entry, Told, Verdict, Place
<1>4. ASSUME NEW t \in QType, NEW c \in Client, Ask(n, t, c)
      PROVE  query' \in Question
  BY <1>1, <1>3, <1>4 DEF Ask, Question
<1>5. CASE Intercept(n)
  BY <1>1, <1>2, <1>3, <1>5 DEF Intercept, Question
<1> QED
  BY <1>1, <1>2, <1>4, <1>5 DEF Ask

(* Every step keeps the types. *)
LEMMA NextType == TypeOK /\ [Next]_vars => TypeOK'
<1> SUFFICES ASSUME TypeOK, [Next]_vars PROVE TypeOK'
  OBVIOUS
<1> DEFINE Rest == /\ rdb \in BOOLEAN
                   /\ query = [pc |-> "idle"] \/ Walking
                   /\ since \in SinceType
                   /\ left \in [Change -> Nat]
<1>1. TypeOK <=> CacheTypes /\ RuleTypes /\ Rest
  BY DEF TypeOK, CacheTypes, RuleTypes, Walking, SinceType
<1>2. (CacheTypes /\ RuleTypes /\ Rest)' => TypeOK'
  BY DEF TypeOK, CacheTypes, RuleTypes, Walking, SinceType
<1>3. UNCHANGED cached => CacheTypes'
  BY <1>1 DEF CacheTypes, cached
<1>4. UNCHANGED rules => RuleTypes'
  BY <1>1 DEF RuleTypes, rules
<1>5. ASSUME NEW n \in Asked,
             (\E t \in QType, c \in Client : Ask(n, t, c)) \/ Intercept(n)
      PROVE  TypeOK'
  BY <1>1, <1>2, <1>3, <1>4, <1>5, AskedType DEF Walking
<1>6. CASE Step
  BY <1>1, <1>2, <1>3, <1>4, <1>6, StepKeeps DEF Same, Walking
<1>7. CASE CacheStep
  <2>1. CacheTypes'
    BY <1>1, <1>7, CacheStepIsNext, CacheKeepsTypes
  <2>2. RuleTypes'
    BY <1>4, <1>7 DEF CacheStep
  <2>3. since' \in SinceType
    BY <1>1, <1>7, CacheStepSince
  <2>4. left' \in [Change -> Nat]
    BY <1>1, <1>7, SpendType DEF CacheStep, Change
  <2>5. UNCHANGED <<rdb, query>>
    BY <1>7 DEF CacheStep
  <2> QED
    BY <1>1, <1>2, <2>1, <2>2, <2>3, <2>4, <2>5 DEF Walking
<1>8. CASE RuleStep
  <2>1. CacheTypes'
    BY <1>3, <1>8 DEF RuleStep
  <2>2. RuleTypes'
    BY <1>1, <1>8, ResolverAssumption DEF RuleStep, RuleTypes
  <2>3. since' \in SinceType
    BY <1>1, <1>8, RuleStepSince
  <2>4. left' \in [Change -> Nat]
    BY <1>1, <1>8, SpendType DEF RuleStep, Change
  <2>5. UNCHANGED <<rdb, query>>
    BY <1>8 DEF RuleStep
  <2> QED
    BY <1>1, <1>2, <2>1, <2>2, <2>3, <2>4, <2>5 DEF Walking
<1>9. CASE UNCHANGED vars
  BY <1>1, <1>2, <1>3, <1>4, <1>9 DEF vars, Walking
<1> QED
  BY <1>5, <1>6, <1>7, <1>8, <1>9 DEF Next

(* The initial states are typed. *)
LEMMA InitType == Init => TypeOK
<1> SUFFICES ASSUME Init PROVE TypeOK
  OBVIOUS
<1>1. PICK v \in Cache!View :
         /\ history = {v}
         /\ shown = [r \in Replica |-> Cache!Members(v)]
         /\ described = [r \in Replica |-> v]
         /\ \/ shared = Cache!Members(v) /\ labels = v
            \/ shared = {} /\ labels = Cache!Blank
  BY DEF Init
<1>2. Cache!Members(v) \subseteq Domain /\ Cache!Blank \in Cache!View
  BY DEF Cache!Members, Cache!Blank, Cache!View
<1>3. CacheTypes
  BY <1>1, <1>2 DEF CacheTypes
<1>4. RuleTypes
  BY ResolverAssumption DEF Init, RuleTypes
<1>5. since \in SinceType /\ left \in [Change -> Nat]
  BY ResolverAssumption DEF Init, SinceType
<1> QED
  BY <1>3, <1>4, <1>5 DEF Init, TypeOK, CacheTypes, RuleTypes, SinceType

(* Every variable has its type, and a walk never leaves the name it walks    *)
(* through: nextParent stops in time.                                        *)
THEOREM ResolverTypeCorrect == Spec => []TypeOK
BY InitType, NextType, PTL DEF Spec

------------------------------------------------------------------------------
(* The whitelist.                                                            *)

(* As long as the name stays whitelisted, a DNS query is before the access   *)
(* list or has been answered, and was not blocked.                           *)
Listed ==
    query.pc # "idle" /\ since.listed =>
        /\ query.pc # "done" => query.name \in whitelist
        /\ IsDNS => query.pc \in {"records", "whitelist", "done"}
        /\ query.pc = "done" => query.verdict \notin {"blocked", "acl_blocked"}

(* A step of the query keeps it. *)
LEMMA StepListed ==
    ASSUME TypeOK, Listed, Step
    PROVE  Listed'
<1> SUFFICES ASSUME since'.listed
             PROVE  /\ query'.pc # "done" => query'.name \in whitelist'
                    /\ IsDNS' => query'.pc \in {"records", "whitelist", "done"}
                    /\ query'.pc = "done" => query'.verdict \notin {"blocked", "acl_blocked"}
  BY DEF Listed
<1>1. Walking /\ query.pc # "done"
  BY StepWalks
<1>2. /\ Same(query') /\ UNCHANGED rules /\ since.listed
  BY StepKeeps
<1>3. query.pc # "idle"
  BY <1>1, QuestionFields DEF Walking
<1>4. /\ query'.name \in whitelist'
      /\ IsDNS => query.pc \in {"records", "whitelist"}
      /\ IsDNS' <=> IsDNS
  BY <1>1, <1>2, <1>3 DEF Listed, Same, rules, IsDNS
<1>5. CASE LookupRecords
  BY <1>1, <1>4, <1>5, LookupRecordsMoves
<1>6. CASE IsWhitelisted
  BY <1>1, <1>2, <1>3, <1>4, <1>6, IsWhitelistedMoves DEF Listed
<1>7. CASE GetClientACL \/ GetACLDefault \/ IsBlockedL1 \/ IsBlockedL2
  <2>1. query.pc \in {"acl", "default", "blockL1", "blockL2"}
    BY <1>7 DEF GetClientACL, GetACLDefault, IsBlockedL1, IsBlockedL2, At
  <2>2. IsDNS
    BY <1>1, <2>1, DNSPlaces DEF Walking
  <2> QED
    BY <1>4, <2>1, <2>2
<1>8. ASSUME query.pc \in {"metaL1", "metaL2"}, LookupOutcome
      PROVE  /\ IsDNS' => query'.pc \in {"records", "whitelist", "done"}
             /\ query'.pc = "done" => query'.verdict \notin {"blocked", "acl_blocked"}
  BY <1>4, <1>8 DEF LookupOutcome, Ended
<1>9. CASE LookupL1
  <2>1. LookupOutcome /\ query.pc = "metaL1"
    BY <1>1, <1>9, LookupL1Moves DEF TypeOK, LookupL1, At
  <2> QED
    BY <1>4, <1>8, <2>1
<1>10. CASE LookupL2
  <2>1. LookupOutcome /\ query.pc = "metaL2"
    BY <1>1, <1>10, LookupL2Moves DEF TypeOK, LookupL2, At
  <2> QED
    BY <1>4, <1>8, <2>1
<1>11. CASE ReadFails
  <2>1. \/ query.pc = "blockL2" /\ IsDNS
        \/ query.pc = "metaL2" /\ LookupOutcome
    BY <1>1, <1>11, ReadFailsMoves DEF TypeOK
  <2> QED
    BY <1>4, <1>8, <2>1
<1> QED
  BY <1>5, <1>6, <1>7, <1>9, <1>10, <1>11 DEF Step

(* So does every other step. *)
LEMMA NextListed == TypeOK /\ Listed /\ [Next]_vars => Listed'
<1> SUFFICES ASSUME TypeOK, Listed, [Next]_vars PROVE Listed'
  OBVIOUS
<1>1. ASSUME NEW n \in Asked,
             (\E t \in QType, c \in Client : Ask(n, t, c)) \/ Intercept(n)
      PROVE  Listed'
  <2>1. /\ query'.pc \in {"records", "metaL1"} /\ query'.name = n
        /\ query'.pc = "metaL1" => "qtype" \notin DOMAIN query'
        /\ since' = Since(n) /\ whitelist' = whitelist
    BY <1>1, AskedType DEF rules
  <2>2. since'.listed = (n \in whitelist)
    BY <2>1 DEF Since
  <2> QED
    BY <2>1, <2>2 DEF Listed, IsDNS
<1>2. CASE Step
  BY <1>2, StepListed
<1>3. CASE CacheStep
  <2>1. since'.listed = since.listed
    BY <1>3, CacheStepSince DEF TypeOK, SinceType
  <2>2. UNCHANGED <<query, whitelist>>
    BY <1>3 DEF CacheStep, rules
  <2> QED
    BY <2>1, <2>2 DEF Listed, IsDNS
<1>4. CASE RuleStep
  <2>1. since'.listed => since.listed /\ query.name \in whitelist'
    BY <1>4, RuleStepSince DEF TypeOK, SinceType
  <2>2. UNCHANGED query /\ query.pc # "done"
    BY <1>4 DEF RuleStep, At
  <2> QED
    BY <2>1, <2>2 DEF Listed, IsDNS
<1>5. CASE UNCHANGED vars
  BY <1>5 DEF vars, rules, Listed, IsDNS
<1> QED
  BY <1>1, <1>2, <1>3, <1>4, <1>5 DEF Next

(* A name that is whitelisted from question to answer is never blocked.      *)
THEOREM WhitelistCorrect == Spec => []WhitelistedIsNeverBlocked
<1>1. Init => Listed
  BY DEF Init, Listed
<1>2. Listed => WhitelistedIsNeverBlocked
  BY DEF Listed, WhitelistedIsNeverBlocked, At
<1> QED
  BY <1>1, <1>2, NextListed, ResolverTypeCorrect, PTL DEF Spec

------------------------------------------------------------------------------
(* The walk of IsBlocked.                                                    *)

(* A suffix that stays in the hot set is still ahead of the walk; and as     *)
(* long as no rule changes, the entry the query carries is the client's.     *)
Ahead ==
    query.pc # "idle" =>
        /\ query.pc # "done" => since.steady \subseteq shown[Server] \cap Suffixes(query.name)
        /\ query.pc \in {"records", "whitelist", "acl", "default"} =>
              query.entry.action = "none"
        /\ /\ IsDNS /\ since.ruled /\ acl[query.client].action = "none"
           /\ query.pc # "done"
           => query.entry.action = "none" /\ query.pc \notin {"metaL1", "metaL2"}
        /\ query.pc = "blockL1" =>
              \A j \in 1..Len(query.name) : j < query.i => Suffix(query.name, j) \notin since.steady
        /\ query.pc = "blockL2" =>
              \A j \in 1..Len(query.name) : j <= query.i => Suffix(query.name, j) \notin since.steady
        /\ SteadilyBlockedIsBlocked

(* What a step must still show, when the places it leads to are known.       *)
LEMMA StepAhead ==
    ASSUME TypeOK, Ahead, Step
    PROVE  Ahead'
<1>1. Walking /\ query.pc # "done" /\ query.pc # "idle"
  BY StepWalks, QuestionFields DEF Walking
<1>2. /\ Same(query') /\ UNCHANGED <<cached, rules>>
      /\ since'.steady = since.steady /\ since'.ruled = since.ruled
  BY StepKeeps
<1>3. /\ query'.name = query.name
      /\ IsDNS' <=> IsDNS
      /\ IsDNS => query'.qtype = query.qtype /\ query'.client = query.client
      /\ UNCHANGED <<shown, records, whitelist, acl>>
  BY <1>2 DEF Same, IsDNS, cached, rules
<1>4. query.name \in Domain /\ query.i \in 1..Len(query.name) /\ Len(query.name) \in Nat
  BY <1>1, QuestionFields, SuffixType DEF Walking
<1>5. since'.steady \subseteq shown'[Server] \cap Suffixes(query'.name)
  <2>1. since.steady \subseteq shown[Server] \cap Suffixes(query.name)
    BY <1>1 DEF Ahead
  <2>2. since'.steady = since.steady /\ shown' = shown /\ query'.name = query.name
    BY <1>2, <1>3
  <2> QED
    BY <2>1, <2>2 DEF Suffixes, Suffix
<1>6. LeftToBlocklist' => LeftToBlocklist
  <2> SUFFICES ASSUME LeftToBlocklist' PROVE LeftToBlocklist
    OBVIOUS
  <2>1. IsDNS /\ since.ruled
    BY <1>2, <1>3 DEF LeftToBlocklist
  <2>2. query'.qtype = query.qtype /\ query'.client = query.client
    BY <1>3, <2>1
  <2> QED
    BY <1>3, <2>1, <2>2 DEF LeftToBlocklist
<1>7. LeftToBlocklist => query.entry.action = "none" /\ query.pc \notin {"metaL1", "metaL2"}
  BY <1>1 DEF Ahead, LeftToBlocklist
<1>8. ASSUME MissOutcome, query'.entry = query.entry, IsDNS,
             \A j \in 1..Len(query.name) : j <= query.i => Suffix(query.name, j) \notin since.steady
      PROVE  Ahead'
  <2>1. CASE query.i < Len(query.name)
    <3>1. query'.i = query.i + 1 /\ query'.pc = "blockL1"
      BY <1>4, <1>8, <2>1 DEF MissOutcome
    <3>2. \A j \in 1..Len(query.name) : j < query.i + 1 => Suffix(query.name, j) \notin since.steady
      BY <1>4, <1>8
    <3> QED
      BY <1>1, <1>2, <1>3, <1>5, <1>8, <3>1, <3>2
         DEF Ahead, SteadilyBlockedIsBlocked, At, Suffix
  <2>2. CASE query.i = Len(query.name)
    <3>1. query'.pc = "done"
      BY <1>4, <1>8, <2>2 DEF MissOutcome
    <3>2. since.steady = {}
      BY <1>1, <1>4, <1>8, <2>2 DEF Ahead, Suffixes
    <3> QED
      BY <1>2, <3>1, <3>2 DEF Ahead, SteadilyBlockedIsBlocked
  <2> QED
    BY <1>8, <2>1, <2>2 DEF MissOutcome
<1>9. ASSUME HitOutcome, query'.entry = query.entry, IsDNS
      PROVE  Ahead'
  BY <1>1, <1>2, <1>3, <1>5, <1>9
     DEF Ahead, HitOutcome, SteadilyBlockedIsBlocked, At
<1>10. ASSUME LookupOutcome, query.pc \in {"metaL1", "metaL2"}
       PROVE  Ahead'
  <2>1. ~LeftToBlocklist'
    BY <1>6, <1>7, <1>10
  <2>2. query'.pc \in {"metaL1", "metaL2", "done"}
    BY <1>10 DEF LookupOutcome, Ended
  <2>3. ~(IsDNS /\ since.ruled /\ acl[query.client].action = "none")
    BY <1>1, <1>10 DEF Ahead
  <2>4. ~(IsDNS' /\ since'.ruled /\ acl'[query'.client].action = "none")
    BY <1>2, <1>3, <2>3
  <2> QED
    BY <1>5, <2>1, <2>2, <2>4 DEF Ahead, SteadilyBlockedIsBlocked
<1>11. CASE LookupRecords
  <2>1. query.pc = "records"
    BY <1>11 DEF LookupRecords, At
  <2> QED
    BY <1>1, <1>2, <1>3, <1>5, <1>11, <2>1, LookupRecordsMoves
       DEF Ahead, SteadilyBlockedIsBlocked, LeftToBlocklist, At
<1>12. CASE IsWhitelisted
  <2>1. query.pc = "whitelist"
    BY <1>12 DEF IsWhitelisted, At
  <2> QED
    BY <1>1, <1>2, <1>3, <1>5, <1>12, <2>1, IsWhitelistedMoves
       DEF Ahead, SteadilyBlockedIsBlocked, LeftToBlocklist, At
<1>13. CASE GetClientACL
  <2>1. query.pc = "acl" /\ acl \in [Client -> Entry]
    BY <1>13 DEF GetClientACL, At, TypeOK
  <2> QED
    BY <1>1, <1>2, <1>3, <1>4, <1>5, <1>13, <2>1, GetClientACLMoves
       DEF Ahead, SteadilyBlockedIsBlocked, LeftToBlocklist, At
<1>14. CASE GetACLDefault
  <2>1. query.pc = "default"
    BY <1>14 DEF GetACLDefault, At
  <2> QED
    BY <1>1, <1>2, <1>3, <1>4, <1>5, <1>14, <2>1, GetACLDefaultMoves
       DEF Ahead, SteadilyBlockedIsBlocked, At
<1>15. CASE IsBlockedL1
  <2>1. query.pc = "blockL1"
    BY <1>15 DEF IsBlockedL1, At
  <2>2. CASE HitOutcome
    BY <1>1, <1>9, <1>15, <2>2, IsBlockedL1Moves
  <2>3. ASSUME Suffix(query.name, query.i) \notin shown[Server]
        PROVE  \A j \in 1..Len(query.name) :
                  j <= query.i => Suffix(query.name, j) \notin since.steady
    <3>1. Suffix(query.name, query.i) \notin since.steady
      BY <1>1, <2>3 DEF Ahead
    <3>2. \A j \in 1..Len(query.name) :
             j < query.i => Suffix(query.name, j) \notin since.steady
      BY <1>1, <2>1 DEF Ahead
    <3> QED
      BY <1>4, <3>1, <3>2
  <2>4. CASE Suffix(query.name, query.i) \notin shown[Server] /\ MissOutcome
    BY <1>1, <1>8, <1>15, <2>3, <2>4, IsBlockedL1Moves
  <2>5. CASE Suffix(query.name, query.i) \notin shown[Server]
             /\ query'.i = query.i /\ query'.pc = "blockL2"
    BY <1>1, <1>2, <1>3, <1>5, <1>15, <2>1, <2>3, <2>5, IsBlockedL1Moves
       DEF Ahead, SteadilyBlockedIsBlocked, At, Suffix
  <2> QED
    BY <1>1, <1>15, <2>2, <2>4, <2>5, IsBlockedL1Moves
<1>16. CASE IsBlockedL2
  <2>1. query.pc = "blockL2"
    BY <1>16 DEF IsBlockedL2, At
  <2>2. \A j \in 1..Len(query.name) : j <= query.i => Suffix(query.name, j) \notin since.steady
    BY <1>1, <2>1 DEF Ahead
  <2> QED
    BY <1>1, <1>8, <1>9, <1>16, <2>2, IsBlockedL2Moves
<1>17. CASE LookupL1
  BY <1>1, <1>10, <1>17, LookupL1Moves DEF LookupL1, At, TypeOK
<1>18. CASE LookupL2
  BY <1>1, <1>10, <1>18, LookupL2Moves DEF LookupL2, At, TypeOK
<1>19. CASE ReadFails
  <2>1. \/ query.pc = "blockL2" /\ IsDNS /\ MissOutcome /\ query'.entry = query.entry
        \/ query.pc = "metaL2" /\ LookupOutcome
    BY <1>1, <1>19, ReadFailsMoves DEF TypeOK
  <2>2. query.pc = "blockL2" =>
           \A j \in 1..Len(query.name) : j <= query.i => Suffix(query.name, j) \notin since.steady
    BY <1>1 DEF Ahead
  <2> QED
    BY <1>8, <1>10, <2>1, <2>2
<1> QED
  BY <1>11, <1>12, <1>13, <1>14, <1>15, <1>16, <1>17, <1>18, <1>19 DEF Step

(* The environment only takes suffixes out of since.steady. *)
LEMMA NextAhead == TypeOK /\ Ahead /\ [Next]_vars => Ahead'
<1> SUFFICES ASSUME TypeOK, Ahead, [Next]_vars PROVE Ahead'
  OBVIOUS
<1>1. ASSUME NEW n \in Asked,
             (\E t \in QType, c \in Client : Ask(n, t, c)) \/ Intercept(n)
      PROVE  Ahead'
  <2>1. /\ query'.name = n /\ since' = Since(n) /\ UNCHANGED shown
        /\ \/ query'.pc = "records" /\ query'.entry = NoEntry
           \/ query'.pc = "metaL1" /\ "qtype" \notin DOMAIN query'
    BY <1>1, AskedType DEF cached
  <2>2. since'.steady \subseteq shown'[Server] \cap Suffixes(query'.name)
    BY <2>1 DEF Since
  <2> QED
    BY <2>1, <2>2 DEF Ahead, NoEntry, IsDNS, SteadilyBlockedIsBlocked, At
<1>2. CASE Step
  BY <1>2, StepAhead
<1>3. CASE CacheStep
  <2>1. since'.steady = since.steady \cap shown'[Server] /\ since'.ruled = since.ruled
    BY <1>3, CacheStepSince DEF TypeOK, SinceType
  <2>2. UNCHANGED <<query, acl>> /\ query.pc # "done"
    BY <1>3 DEF CacheStep, rules, At
  <2> QED
    BY <2>1, <2>2 DEF Ahead, IsDNS, SteadilyBlockedIsBlocked, At
<1>4. CASE RuleStep
  <2>1. since'.steady = since.steady /\ since'.ruled = FALSE
    BY <1>4, RuleStepSince DEF TypeOK, SinceType
  <2>2. UNCHANGED <<query, shown>> /\ query.pc # "done"
    BY <1>4 DEF RuleStep, cached, At
  <2> QED
    BY <2>1, <2>2 DEF Ahead, IsDNS, SteadilyBlockedIsBlocked, At
<1>5. CASE UNCHANGED vars
  BY <1>5 DEF vars, rules, cached, Ahead, IsDNS, SteadilyBlockedIsBlocked, At, LeftToBlocklist
<1> QED
  BY <1>1, <1>2, <1>3, <1>4, <1>5 DEF Next

(* A name with a suffix that stays in the hot set is blocked, however often  *)
(* the hot set is replaced under the walk.                                   *)
THEOREM SteadyCorrect == Spec => []SteadilyBlockedIsBlocked
<1>1. Init => Ahead
  BY DEF Init, Ahead
<1>2. Ahead => SteadilyBlockedIsBlocked
  BY DEF Ahead, SteadilyBlockedIsBlocked, At
<1> QED
  BY <1>1, <1>2, NextAhead, ResolverTypeCorrect, PTL DEF Spec

------------------------------------------------------------------------------
(* What blocks was committed.                                                *)

(* A domain was active in some version; it had the category c in one. *)
WasActive(d) == \E v \in history : v[d] # Absent
WasOf(d, c) == \E v \in history : v[d] = c

(* Whatever the caches hold, in memory and in Redis, was committed once. *)
Stems ==
    /\ \A r \in Replica : \A d \in shown[r] : WasActive(d)
    /\ \A r \in Replica : \A d \in Domain :
          described[r][d] # Absent => WasOf(d, described[r][d])
    /\ \A d \in shared : WasActive(d)
    /\ \A d \in Domain : labels[d] # Absent => WasOf(d, labels[d])

(* This is so of every behaviour of BlocklistView. *)
LEMMA CacheStems ==
    ASSUME CacheTypes, Stems, Cache!Next
    PROVE  Stems'
<1>1. CASE Cache!Commit
  <2>1. history \subseteq history' /\ UNCHANGED <<shown, described, shared, labels>>
    BY <1>1 DEF Cache!Commit
  <2>2. \A d : WasActive(d) => WasActive(d)'
    BY <2>1 DEF WasActive
  <2>3. \A d, c : WasOf(d, c) => \E v \in history' : v[d] = c
    BY <2>1 DEF WasOf
  <2> QED
    BY <2>1, <2>2, <2>3 DEF Stems, WasOf, WasActive
<1>2. CASE Cache!Share
  BY <1>2 DEF Cache!Share, Cache!Members, Stems, WasActive, WasOf
<1>3. CASE Cache!Label
  BY <1>3 DEF Cache!Label, Cache!Members, Stems, WasActive, WasOf
<1>4. CASE Cache!Expire
  BY <1>4 DEF Cache!Expire, Stems, WasActive, WasOf, CacheTypes, Cache!View
<1>5. ASSUME NEW r \in Replica, Cache!Show(r) PROVE Stems'
  BY <1>5 DEF Cache!Show, Cache!Members, Stems, WasActive, WasOf, CacheTypes
<1>6. ASSUME NEW r \in Replica, Cache!Describe(r) PROVE Stems'
  BY <1>6 DEF Cache!Describe, Stems, WasActive, WasOf, CacheTypes
<1>7. ASSUME NEW r \in Replica, Cache!Forget(r) PROVE Stems'
  <2>1. /\ \A q \in Replica : shown'[q] \subseteq shown[q]
        /\ \A q \in Replica : described'[q] \in {described[q], Cache!Blank}
        /\ UNCHANGED <<history, shared, labels>>
    BY <1>7 DEF Cache!Forget, CacheTypes
  <2> QED
    BY <2>1 DEF Cache!Blank, Stems, WasActive, WasOf
<1> QED
  BY <1>1, <1>2, <1>3, <1>4, <1>5, <1>6, <1>7 DEF Cache!Next

(* An active domain has a category, and a name whose suffix was active is    *)
(* one of which a category holds.                                            *)
LEMMA ActiveHolds ==
    ASSUME CacheTypes, NEW n \in Domain, NEW d \in Suffixes(n), WasActive(d), query.name = n
    PROVE  \E c \in Category : Holds(c)
<1>1. d \in Domain
  BY SuffixType
<1>2. PICK v \in history : v[d] # Absent
  BY DEF WasActive
<1>3. v[d] \in Category
  BY <1>1, <1>2 DEF CacheTypes, Cache!View
<1> QED
  BY <1>2, <1>3 DEF Holds

(* With what the caches stem from, the property is inductive. *)
Explained == Stems /\ BlockedForAReason

(* A query that ends blocked, or explained, ends on what a cache holds.      *)
LEMMA StepExplained ==
    ASSUME TypeOK, Explained, Step
    PROVE  Explained'
<1>1. Walking /\ query.pc # "done" /\ query.pc # "idle"
  BY StepWalks, QuestionFields DEF Walking
<1>2. Same(query') /\ UNCHANGED cached
  BY StepKeeps
<1>3. /\ query'.name = query.name
      /\ UNCHANGED <<history, shown, described, shared, labels>>
  BY <1>2 DEF Same, cached
<1>4. query.name \in Domain /\ query.i \in 1..Len(query.name)
  BY <1>1, QuestionFields DEF Walking
<1>5. Stems'
  BY <1>3 DEF Explained, Stems, WasActive, WasOf
<1>6. \A c : Holds(c) => \E v \in history', d \in Suffixes(query'.name) : v[d] = c
  BY <1>3 DEF Holds, Suffixes, Suffix
<1>7. CacheTypes
  BY DEF TypeOK, CacheTypes
<1>8. Suffix(query.name, query.i) \in Suffixes(query.name)
  BY <1>4 DEF Suffixes
<1>9. ASSUME query'.pc = "done" => query'.verdict \notin {"blocked", "page"}
      PROVE  Explained'
  BY <1>5, <1>9 DEF Explained, BlockedForAReason, At
<1>10. ASSUME HitOutcome, query'.entry = query.entry, WasActive(Suffix(query.name, query.i))
       PROVE  Explained'
  <2>1. \E c \in Category : Holds(c)
    BY <1>4, <1>7, <1>8, <1>10, ActiveHolds
  <2>2. PICK c \in Category : \E v \in history', d \in Suffixes(query'.name) : v[d] = c
    BY <1>6, <2>1
  <2>3. query'.pc = "done" => query'.verdict = "blocked" /\ query'.entry.action = "none"
    BY <1>10 DEF HitOutcome
  <2> QED
    BY <1>5, <2>2, <2>3 DEF Explained, BlockedForAReason, Holds, At
<1>11. ASSUME NEW c \in Told, Ended(c), IsDNS => query'.entry = query.entry,
              c \in {Uncategorised, Mangled} \/ Holds(c)
       PROVE  Explained'
  <2>1. CASE ~IsDNS
    <3>1. query'.verdict = "page" /\ query'.cat = c
      BY <1>11, <2>1 DEF Ended
    <3>2. c \in {Uncategorised, Mangled} \/ \E v \in history', d \in Suffixes(query'.name) : v[d] = c
      BY <1>6, <1>11
    <3> QED
      BY <1>5, <3>1, <3>2 DEF Explained, BlockedForAReason, Holds, At
  <2>2. CASE IsDNS /\ c \in query.entry.categories
    <3>1. query.entry.categories \subseteq Category \ {Uncategorised}
      BY <1>1, <2>2, QuestionFields DEF Walking, Entry
    <3>2. c \notin {Uncategorised, Mangled}
      BY <2>2, <3>1, ResolverAssumption
    <3>3. \E v \in history', d \in Suffixes(query'.name) : v[d] = c
      BY <1>6, <1>11, <3>2
    <3>4. query'.verdict = "blocked" /\ c \in query'.entry.categories
      BY <1>11, <2>2 DEF Ended
    <3> QED
      BY <1>5, <3>3, <3>4 DEF Explained, BlockedForAReason, Holds, At
  <2>3. CASE IsDNS /\ c \notin query.entry.categories
    BY <1>9, <1>11, <2>3 DEF Ended
  <2> QED
    BY <2>1, <2>2, <2>3
<1>12. ASSUME LookupOutcome PROVE Explained'
  <2>1. CASE query'.pc \in {"metaL1", "metaL2"}
    BY <1>9, <2>1
  <2>2. CASE Ended(Uncategorised) \/ Ended(Mangled)
    BY <1>11, <1>12, <2>2 DEF LookupOutcome, Ended
  <2>3. ASSUME NEW d \in Suffixes(query.name),
               \/ described[Server][d] # Absent /\ Ended(described[Server][d])
               \/ labels[d] # Absent /\ Ended(labels[d])
        PROVE  Explained'
    <3>1. d \in Domain /\ Server \in Replica
      BY <1>4, SuffixType, ResolverAssumption
    <3>2. CASE described[Server][d] # Absent /\ Ended(described[Server][d])
      <4>1. Holds(described[Server][d])
        BY <3>1, <3>2 DEF Explained, Stems, WasOf, Holds
      <4> QED
        BY <1>11, <1>12, <3>2, <4>1 DEF Ended, LookupOutcome
    <3>3. CASE labels[d] # Absent /\ Ended(labels[d])
      <4>1. Holds(labels[d])
        BY <3>1, <3>3 DEF Explained, Stems, WasOf, Holds
      <4> QED
        BY <1>11, <1>12, <3>3, <4>1 DEF Ended, LookupOutcome
    <3> QED
      BY <2>3, <3>2, <3>3
  <2> QED
    BY <1>12, <2>1, <2>2, <2>3 DEF LookupOutcome
<1>13. CASE LookupRecords
  BY <1>1, <1>9, <1>13, LookupRecordsMoves
<1>14. CASE IsWhitelisted
  BY <1>1, <1>9, <1>14, IsWhitelistedMoves
<1>15. CASE GetClientACL
  BY <1>1, <1>9, <1>15, GetClientACLMoves DEF TypeOK
<1>16. CASE GetACLDefault
  BY <1>1, <1>9, <1>16, GetACLDefaultMoves
<1>17. CASE IsBlockedL1
  <2>1. Suffix(query.name, query.i) \in shown[Server] => WasActive(Suffix(query.name, query.i))
    BY ResolverAssumption DEF Explained, Stems
  <2> QED
    BY <1>1, <1>9, <1>10, <1>17, <2>1, IsBlockedL1Moves DEF MissOutcome
<1>18. CASE IsBlockedL2
  <2>1. Suffix(query.name, query.i) \in shared => WasActive(Suffix(query.name, query.i))
    BY DEF Explained, Stems
  <2> QED
    BY <1>1, <1>9, <1>10, <1>18, <2>1, IsBlockedL2Moves DEF MissOutcome
<1>19. CASE LookupL1
  BY <1>1, <1>12, <1>19, LookupL1Moves DEF TypeOK
<1>20. CASE LookupL2
  BY <1>1, <1>12, <1>20, LookupL2Moves DEF TypeOK
<1>21. CASE ReadFails
  BY <1>1, <1>9, <1>12, <1>21, ReadFailsMoves DEF TypeOK, MissOutcome
<1> QED
  BY <1>13, <1>14, <1>15, <1>16, <1>17, <1>18, <1>19, <1>20, <1>21 DEF Step

(* Nothing else ends a query. *)
LEMMA NextExplained == TypeOK /\ Explained /\ [Next]_vars => Explained'
<1> SUFFICES ASSUME TypeOK, Explained, [Next]_vars PROVE Explained'
  OBVIOUS
<1>1. ASSUME UNCHANGED cached, query'.pc # "done" PROVE Explained'
  BY <1>1 DEF cached, Explained, Stems, WasActive, WasOf, BlockedForAReason, At
<1>2. ASSUME NEW n \in Asked,
             (\E t \in QType, c \in Client : Ask(n, t, c)) \/ Intercept(n)
      PROVE  Explained'
  BY <1>1, <1>2, AskedType
<1>3. CASE Step
  BY <1>3, StepExplained
<1>4. CASE CacheStep
  <2>1. Stems'
    BY <1>4, CacheStepIsNext, CacheStems DEF Explained, TypeOK, CacheTypes
  <2>2. query'.pc # "done"
    BY <1>4 DEF CacheStep, At
  <2> QED
    BY <2>1, <2>2 DEF Explained, BlockedForAReason, At
<1>5. CASE RuleStep
  BY <1>1, <1>5 DEF RuleStep, At
<1>6. CASE UNCHANGED vars
  BY <1>6 DEF vars, cached, Explained, Stems, WasActive, WasOf, BlockedForAReason, Holds, At
<1> QED
  BY <1>2, <1>3, <1>4, <1>5, <1>6 DEF Next

(* Only what was committed for a name or a parent blocks it or is shown as   *)
(* the reason.                                                               *)
THEOREM ReasonCorrect == Spec => []BlockedForAReason
<1>1. Init => Explained
  <2> SUFFICES ASSUME Init PROVE Explained
    OBVIOUS
  <2>1. Stems
    BY DEF Init, Stems, WasActive, WasOf, Cache!Members, Cache!Blank
  <2> QED
    BY <2>1 DEF Init, Explained, BlockedForAReason, At
<1>2. Explained => BlockedForAReason
  BY DEF Explained
<1> QED
  BY <1>1, <1>2, NextExplained, ResolverTypeCorrect, PTL DEF Spec

------------------------------------------------------------------------------
(* A query during which nothing changes.                                     *)

(* What one look into both layers would say of a domain. *)
InBlocklist(d) == d \in shown[Server] \/ (rdb /\ d \in shared)
Known(d) == described[Server][d] # Absent \/ (rdb /\ labels[d] # Absent)

(* The rules the query has passed on its way. *)
Passed ==
    /\ query.pc \in {"records", "whitelist", "acl", "default"} => query.entry.action = "none"
    /\ IsDNS /\ query.pc # "records" =>
          <<query.name, query.qtype>> \notin records /\ query.qtype \in Checked
    /\ IsDNS /\ query.pc \notin {"records", "whitelist"} => query.name \notin whitelist
    /\ query.pc = "default" => acl[query.client].action = "none"
    /\ query.pc \in {"blockL1", "blockL2"} =>
          \/ query.entry.action = "none" /\ acl[query.client].action = "none" /\ aclDefault
          \/ query.entry.action = "block" /\ query.entry = acl[query.client]
             /\ query.entry.categories # {}
    /\ IsDNS /\ query.pc \in {"metaL1", "metaL2"} =>
          /\ query.entry.action = "block" /\ query.entry = acl[query.client]
          /\ query.entry.categories # {}
          /\ BlockedNow(query.name)

(* The suffixes behind the walk are in no layer. *)
Behind ==
    /\ query.pc \in {"blockL1", "blockL2"} =>
          \A j \in 1..Len(query.name) : j < query.i => ~InBlocklist(Suffix(query.name, j))
    /\ query.pc = "blockL2" => rdb /\ Suffix(query.name, query.i) \notin shown[Server]
    /\ query.pc \in {"metaL1", "metaL2"} =>
          \A j \in 1..Len(query.name) : j < query.i => ~Known(Suffix(query.name, j))
    /\ query.pc = "metaL2" => rdb /\ described[Server][Suffix(query.name, query.i)] = Absent

(* CategoryNow, with its parts named. *)
Least(S) == CHOOSE i \in S : \A j \in S : i <= j
KnownParts(n) == {i \in 1..Len(n) : \/ described[Server][Suffix(n, i)] # Absent
                                    \/ /\ rdb
                                       /\ labels[Suffix(n, i)] # Absent}
OfFirst(n, parts) ==
    LET longest == Suffix(n, Least(parts))
    IN  IF parts = {} THEN Uncategorised
        ELSE IF described[Server][longest] # Absent THEN described[Server][longest]
        ELSE Decode(longest)

(* As long as nothing has changed. *)
Calm ==
    /\ query.pc \notin {"idle", "done"} /\ since.calm => Passed /\ Behind
    /\ CalmVerdict

(* The category of a name is that of the first suffix that is known, *)
LEMMA FirstKnown ==
    ASSUME NEW n \in Domain, NEW i \in 1..Len(n), Len(n) \in Nat, Known(Suffix(n, i)),
           \A j \in 1..Len(n) : j < i => ~Known(Suffix(n, j))
    PROVE  CategoryNow(n) = IF described[Server][Suffix(n, i)] # Absent
                            THEN described[Server][Suffix(n, i)] ELSE Decode(Suffix(n, i))
<1> DEFINE known == {k \in 1..Len(n) : \/ described[Server][Suffix(n, k)] # Absent
                                       \/ /\ rdb
                                          /\ labels[Suffix(n, k)] # Absent}
           first == CHOOSE k \in known : \A j \in known : k <= j
<1>1. \A k : k \in known <=> k \in 1..Len(n) /\ Known(Suffix(n, k))
  BY DEF Known
<1>2. CategoryNow(n) = IF known = {} THEN Uncategorised
                       ELSE IF described[Server][Suffix(n, first)] # Absent
                       THEN described[Server][Suffix(n, first)] ELSE Decode(Suffix(n, first))
  BY Zenon DEF CategoryNow
<1> HIDE DEF known
<1>3. i \in known /\ \A j \in known : i <= j
  BY <1>1
<1>4. first \in known /\ \A j \in known : first <= j
  BY <1>3, Zenon
<1> HIDE DEF first
<1>5. first = i
  BY <1>1, <1>3, <1>4
<1> QED
  BY <1>2, <1>3, <1>5

(* ... or there is none. *)
LEMMA NoneKnown ==
    ASSUME NEW n \in Domain, \A j \in 1..Len(n) : ~Known(Suffix(n, j))
    PROVE  CategoryNow(n) = Uncategorised
<1> DEFINE known == {k \in 1..Len(n) : \/ described[Server][Suffix(n, k)] # Absent
                                       \/ /\ rdb
                                          /\ labels[Suffix(n, k)] # Absent}
<1>1. known = {}
  BY DEF Known
<1>2. known = {} => CategoryNow(n) = Uncategorised
  BY Zenon DEF CategoryNow
<1> QED
  BY <1>1, <1>2

(* A name is blocked as soon as one suffix is in the blocklist. *)
LEMMA FirstBlocked ==
    ASSUME NEW n \in Domain
    PROVE  /\ \A i \in 1..Len(n) : InBlocklist(Suffix(n, i)) => BlockedNow(n)
           /\ (\A i \in 1..Len(n) : ~InBlocklist(Suffix(n, i))) => ~BlockedNow(n)
BY DEF BlockedNow, InBlocklist, Suffixes

(* While nothing else changes, the caches as a whole say the same of it. *)
LEMMA SameNow ==
    ASSUME UNCHANGED <<cached, rdb, rules>>, query'.name = query.name
    PROVE  /\ CategoryNow(query.name)' = CategoryNow(query.name)
           /\ BlockedNow(query.name)' = BlockedNow(query.name)
           /\ query'.qtype = query.qtype /\ query'.client = query.client =>
                Refused(query.name, query.qtype, query.client)' =
                    Refused(query.name, query.qtype, query.client)
<1>1. UNCHANGED <<shown, described, shared, labels, rdb, records, whitelist, acl, aclDefault>>
  BY DEF cached, rules
<1>2. CategoryNow(query.name)' = CategoryNow(query.name)
  <2>1. KnownParts(query.name)' = KnownParts(query.name)
    BY <1>1 DEF KnownParts, Suffix
  <2>2. CategoryNow(query.name) = OfFirst(query.name, KnownParts(query.name))
    BY Zenon DEF CategoryNow, OfFirst, KnownParts, Least
  <2>3. CategoryNow(query.name)' = OfFirst(query.name, KnownParts(query.name))'
    BY Zenon DEF CategoryNow, OfFirst, KnownParts, Least
  <2>4. OfFirst(query.name, KnownParts(query.name))' = OfFirst(query.name, KnownParts(query.name))
    BY <1>1, <2>1, Zenon DEF OfFirst, Decode, Suffix
  <2> QED
    BY <2>2, <2>3, <2>4, Zenon
<1>3. BlockedNow(query.name)' = BlockedNow(query.name)
  <2>1. Suffixes(query'.name) = Suffixes(query.name)
    OBVIOUS
  <2> QED
    BY <1>1, <2>1 DEF BlockedNow
<1>4. ASSUME query'.qtype = query.qtype, query'.client = query.client
      PROVE  Refused(query.name, query.qtype, query.client)' = Refused(query.name, query.qtype, query.client)
  BY <1>1, <1>2, <1>3, <1>4, Zenon DEF Refused
<1> QED
  BY <1>2, <1>3, <1>4

(* The verdict the caches as a whole call for ends the query. *)
LEMMA EndsCalm ==
    ASSUME query \in Question, Same(query'), UNCHANGED <<cached, rdb, rules>>,
           query'.pc = "done",
           ~IsDNS => query'.cat = CategoryNow(query.name),
           IsDNS => /\ query'.verdict \in {"blocked", "acl_blocked"}
                           <=> Refused(query.name, query.qtype, query.client)
                    /\ query'.verdict = "custom" <=> <<query.name, query.qtype>> \in records
    PROVE  Calm'
<1>1. IsDNS' <=> IsDNS
  BY DEF Same, IsDNS
<1>2. CASE ~IsDNS
  BY <1>1, <1>2, SameNow DEF Calm, CalmVerdict, Same
<1>3. CASE IsDNS
  <2>1. query'.name = query.name /\ query'.qtype = query.qtype /\ query'.client = query.client
    BY <1>3 DEF Same
  <2>2. records' = records
    BY DEF rules
  <2> QED
    BY <1>1, <1>3, <2>1, <2>2, SameNow DEF Calm, CalmVerdict
<1> QED
  BY <1>2, <1>3

(* Lookup ends with the category that the caches as a whole would give. *)
LEMMA FoundCalm ==
    ASSUME Walking, UNCHANGED <<cached, rdb, rules>>, acl \in [Client -> Entry],
           query.pc \in {"metaL1", "metaL2"}, Passed,
           Found(CategoryNow(query.name)), CategoryNow(query.name) \in Told
    PROVE  Calm'
<1>1. query \in Question
  BY DEF Walking
<1>2. /\ Same(query') /\ query'.pc = "done" /\ query'.cat = CategoryNow(query.name)
      /\ query'.verdict = IF ~IsDNS THEN "page"
                          ELSE IF CategoryNow(query.name) \in query.entry.categories THEN "blocked"
                          ELSE "forwarded"
  BY <1>1, FoundEnds
<1>3. ASSUME IsDNS
      PROVE  Refused(query.name, query.qtype, query.client)
                <=> CategoryNow(query.name) \in query.entry.categories
  BY <1>3 DEF Passed, Refused
<1>4. ASSUME IsDNS
      PROVE  <<query.name, query.qtype>> \notin records
  BY <1>4 DEF Passed
<1> QED
  BY <1>1, <1>2, <1>3, <1>4, EndsCalm

(* A suffix without a category: on to its parent, or there is none. *)
LEMMA LookupMissCalm ==
    ASSUME TypeOK, Walking, UNCHANGED <<cached, rdb, rules>>,
           query.pc \in {"metaL1", "metaL2"}, Passed, Behind,
           ~Known(Suffix(query.name, query.i)), LookupMiss
    PROVE  Calm'
<1>1. query.name \in Domain /\ query.i \in 1..Len(query.name) /\ Len(query.name) \in Nat
  BY QuestionFields, SuffixType DEF Walking
<1>2. \A j \in 1..Len(query.name) : j < query.i + 1 => ~Known(Suffix(query.name, j))
  <2>1. \A j \in 1..Len(query.name) : j < query.i => ~Known(Suffix(query.name, j))
    BY DEF Behind
  <2> QED
    BY <1>1, <2>1
<1>3. CASE query.i < Len(query.name) /\ query'.i = query.i + 1 /\ query'.pc = "metaL1"
  <2>1. Same(query') /\ (IsDNS => query'.entry = query.entry)
    BY LookupMissMoves
  <2>2. Passed'
    <3>1. query'.name = query.name /\ (IsDNS' <=> IsDNS)
      BY <2>1 DEF Same, IsDNS
    <3>2. CASE ~IsDNS
      BY <1>3, <3>1, <3>2 DEF Passed
    <3>3. CASE IsDNS
      <4>1. query'.qtype = query.qtype /\ query'.client = query.client
        BY <2>1, <3>3 DEF Same
      <4> QED
        BY <1>3, <2>1, <3>1, <3>3, <4>1, SameNow DEF Passed, rules
    <3> QED
      BY <3>2, <3>3
  <2>3. Behind'
    <3>1. query'.name = query.name
      BY <2>1 DEF Same
    <3>2. \A j \in 1..Len(query.name) :
             j < query.i + 1 => ~Known(Suffix(query.name, j))'
      BY <1>2, <3>1 DEF Known, Suffix, cached
    <3> QED
      BY <1>3, <3>1, <3>2 DEF Behind
  <2> QED
    BY <1>3, <2>2, <2>3 DEF Calm, CalmVerdict, At
<1>4. CASE query.i = Len(query.name) /\ Found(Uncategorised)
  <2>1. \A j \in 1..Len(query.name) : ~Known(Suffix(query.name, j))
    BY <1>1, <1>2, <1>4
  <2>2. CategoryNow(query.name) = Uncategorised
    BY <1>1, <2>1, NoneKnown
  <2> QED
    BY <1>4, <2>2, FoundCalm DEF Told, TypeOK
<1> QED
  BY <1>3, <1>4, LookupMissMoves

(* A suffix that is not in the blocklist: on to its parent, or forwarded. *)
LEMMA BlockedMissCalm ==
    ASSUME TypeOK, Walking, IsDNS, UNCHANGED <<cached, rdb, rules>>,
           query.pc \in {"blockL1", "blockL2"}, Passed, Behind, Same(query'),
           query'.entry = query.entry,
           ~InBlocklist(Suffix(query.name, query.i)), MissOutcome
    PROVE  Calm'
<1>1. query.name \in Domain /\ query.i \in 1..Len(query.name) /\ Len(query.name) \in Nat
  BY QuestionFields, SuffixType DEF Walking
<1>2. \A j \in 1..Len(query.name) : j < query.i + 1 => ~InBlocklist(Suffix(query.name, j))
  <2>1. \A j \in 1..Len(query.name) : j < query.i => ~InBlocklist(Suffix(query.name, j))
    BY DEF Behind
  <2> QED
    BY <1>1, <2>1
<1>3. CASE query.i < Len(query.name) /\ query'.i = query.i + 1 /\ query'.pc = "blockL1"
  <2>1. Passed'
    BY <1>3, SameNow DEF Passed, Same, IsDNS, rules
  <2>2. Behind'
    BY <1>2, <1>3 DEF Behind, Same, InBlocklist, Suffix, cached
  <2> QED
    BY <1>3, <2>1, <2>2 DEF Calm, CalmVerdict, At
<1>4. CASE query.i = Len(query.name) /\ query'.pc = "done" /\ query'.verdict = "forwarded"
  <2>1. ~BlockedNow(query.name)
    BY <1>1, <1>2, <1>4, FirstBlocked
  <2>2. ~Refused(query.name, query.qtype, query.client)
    BY <2>1 DEF Refused, Passed
  <2>3. <<query.name, query.qtype>> \notin records
    BY DEF Passed
  <2> QED
    BY <1>4, <2>2, <2>3, EndsCalm DEF Walking
<1> QED
  BY <1>3, <1>4 DEF MissOutcome

(* A suffix that is: blocked, or on to the category. *)
LEMMA HitCalm ==
    ASSUME TypeOK, Walking, IsDNS, UNCHANGED <<cached, rdb, rules>>,
           query.pc \in {"blockL1", "blockL2"}, Passed, Same(query'),
           query'.entry = query.entry,
           InBlocklist(Suffix(query.name, query.i)), HitOutcome
    PROVE  Calm'
<1>1. query.name \in Domain /\ query.i \in 1..Len(query.name)
  BY QuestionFields DEF Walking
<1>2. BlockedNow(query.name)
  BY <1>1, FirstBlocked
<1>3. CASE query'.pc = "done" /\ query'.verdict = "blocked" /\ query.entry.action = "none"
  <2>1. Refused(query.name, query.qtype, query.client)
    BY <1>2, <1>3 DEF Refused, Passed
  <2>2. <<query.name, query.qtype>> \notin records
    BY DEF Passed
  <2> QED
    BY <1>3, <2>1, <2>2, EndsCalm DEF Walking
<1>4. CASE query'.pc = "metaL1" /\ query'.i = 1 /\ query.entry.action # "none"
  <2>1. Passed'
    BY <1>2, <1>4, SameNow DEF Passed, Same, IsDNS, rules
  <2>2. Behind'
    BY <1>4 DEF Behind
  <2> QED
    BY <1>4, <2>1, <2>2 DEF Calm, CalmVerdict, At
<1> QED
  BY <1>3, <1>4 DEF HitOutcome

(* A look into memory, *)
LEMMA LookupL1Calm ==
    ASSUME TypeOK, Walking, UNCHANGED <<cached, rdb, rules>>, Passed, Behind, LookupL1
    PROVE  Calm'
<1> DEFINE d == Suffix(query.name, query.i)
<1>1. /\ query.pc = "metaL1" /\ query \in Question
      /\ query.name \in Domain /\ query.i \in 1..Len(query.name) /\ Len(query.name) \in Nat
  BY QuestionFields, SuffixType DEF LookupL1, At, Walking
<1>2. d \in Domain
  BY <1>1, SuffixType
<1>3. \A j \in 1..Len(query.name) : j < query.i => ~Known(Suffix(query.name, j))
  BY <1>1 DEF Behind
<1>4. CASE described[Server][d] # Absent
  <2>1. CategoryNow(query.name) = described[Server][d]
    BY <1>1, <1>3, <1>4, FirstKnown DEF Known
  <2>2. described[Server][d] \in Category \cup {Absent}
    BY <1>2, ResolverAssumption DEF TypeOK, Cache!View
  <2>3. Found(CategoryNow(query.name)) /\ CategoryNow(query.name) \in Told
    BY <1>4, <2>1, <2>2 DEF LookupL1, Told
  <2> QED
    BY <1>1, <2>3, FoundCalm DEF TypeOK
<1>5. CASE described[Server][d] = Absent /\ rdb
  <2>1. query' = [query EXCEPT !.pc = "metaL2"]
    BY <1>5 DEF LookupL1, Goto
  <2>2. "metaL2" \in Place \ {"idle"}
    BY DEF Place
  <2>3. /\ Same(query') /\ query'.pc = "metaL2" /\ query'.i = query.i
        /\ (IsDNS => query'.entry = query.entry)
    BY <1>1, <2>1, <2>2, GotoMoves
  <2>4. query'.name = query.name /\ (IsDNS' <=> IsDNS)
    BY <2>3 DEF Same, IsDNS
  <2>5. Passed'
    <3>1. CASE ~IsDNS
      BY <2>3, <2>4, <3>1 DEF Passed
    <3>2. CASE IsDNS
      <4>1. query'.qtype = query.qtype /\ query'.client = query.client
        BY <2>3, <3>2 DEF Same
      <4> QED
        BY <1>1, <2>3, <2>4, <3>2, <4>1, SameNow DEF Passed, rules
    <3> QED
      BY <3>1, <3>2
  <2>6. Behind'
    BY <1>3, <1>5, <2>3, <2>4 DEF Behind, Known, cached
  <2> QED
    BY <2>3, <2>5, <2>6 DEF Calm, CalmVerdict, At
<1>6. CASE described[Server][d] = Absent /\ ~rdb
  <2>1. LookupMiss
    BY <1>6 DEF LookupL1
  <2> QED
    BY <1>1, <1>6, <2>1, LookupMissCalm DEF Known
<1> QED
  BY <1>4, <1>5, <1>6

(* ... and one into Redis. *)
LEMMA LookupL2Calm ==
    ASSUME TypeOK, Walking, UNCHANGED <<cached, rdb, rules>>, Passed, Behind, LookupL2
    PROVE  Calm'
<1> DEFINE d == Suffix(query.name, query.i)
<1>1. /\ query.pc = "metaL2" /\ query \in Question
      /\ query.name \in Domain /\ query.i \in 1..Len(query.name) /\ Len(query.name) \in Nat
  BY QuestionFields, SuffixType DEF LookupL2, At, Walking
<1>2. d \in Domain
  BY <1>1, SuffixType
<1>3. /\ \A j \in 1..Len(query.name) : j < query.i => ~Known(Suffix(query.name, j))
      /\ rdb /\ described[Server][d] = Absent
  BY <1>1 DEF Behind
<1>4. CASE labels[d] # Absent
  <2>1. CategoryNow(query.name) = Decode(d)
    BY <1>1, <1>3, <1>4, FirstKnown DEF Known
  <2>2. labels[d] \in Category
    BY <1>2, <1>4 DEF TypeOK, Cache!View
  <2>3. Found(CategoryNow(query.name)) /\ CategoryNow(query.name) \in Told
    BY <1>4, <2>1, <2>2 DEF LookupL2, Told, Decode
  <2> QED
    BY <1>1, <2>3, FoundCalm DEF TypeOK
<1>5. CASE labels[d] = Absent
  <2>1. LookupMiss
    BY <1>5 DEF LookupL2
  <2> QED
    BY <1>1, <1>3, <1>5, <2>1, LookupMissCalm DEF Known
<1> QED
  BY <1>4, <1>5

(* A step of the query that leaves it calm keeps the invariant. *)
LEMMA StepCalm ==
    ASSUME TypeOK, Calm, Step
    PROVE  Calm'
<1>1. Walking /\ query.pc # "done" /\ query.pc # "idle"
  BY StepWalks, QuestionFields DEF Walking
<1>2. /\ Same(query') /\ UNCHANGED <<cached, rdb, rules>>
  BY StepKeeps
<1>3. /\ query \in Question /\ query.name \in Domain /\ query.i \in 1..Len(query.name)
      /\ Len(query.name) \in Nat
  BY <1>1, QuestionFields, SuffixType DEF Walking
<1>4. acl \in [Client -> Entry] /\ described \in [Replica -> Cache!View] /\ labels \in Cache!View
  BY DEF TypeOK
<1>5. CASE ~since'.calm
  BY <1>5 DEF Calm, CalmVerdict
<1>6. CASE since'.calm
  <2>1. ~ReadFails
    <3>1. ReadFails => since'.calm = FALSE
      BY DEF ReadFails, TypeOK
    <3> QED
      BY <1>6, <3>1
  <2>2. since' = since
    BY <2>1 DEF Step, OnlyQuery, LookupRecords, IsWhitelisted, GetClientACL, GetACLDefault,
                IsBlockedL1, IsBlockedL2, LookupL1, LookupL2
  <2>3. Passed /\ Behind
    BY <1>1, <1>6, <2>2 DEF Calm
  <2>4. ASSUME IsDNS
        PROVE  /\ IsDNS' /\ query'.name = query.name
               /\ query'.qtype = query.qtype /\ query'.client = query.client
    BY <1>2, <2>4 DEF Same, IsDNS
  <2>5. ASSUME query'.pc # "done", Passed', Behind'
        PROVE  Calm'
    BY <2>5 DEF Calm, CalmVerdict, At
  <2>6. CASE LookupRecords
    <3>1. IsDNS /\ query.pc = "records"
      BY <1>1, <2>6, LookupRecordsMoves DEF LookupRecords, At
    <3>2. CASE query'.pc = "done" /\ query'.verdict = "custom"
               /\ <<query.name, query.qtype>> \in records
      BY <1>2, <1>3, <3>1, <3>2, EndsCalm DEF Refused
    <3>3. CASE query'.pc = "done" /\ query'.verdict = "forwarded"
               /\ <<query.name, query.qtype>> \notin records /\ query.qtype \notin Checked
      BY <1>2, <1>3, <3>1, <3>3, EndsCalm DEF Refused
    <3>4. CASE query'.pc = "whitelist" /\ <<query.name, query.qtype>> \notin records
               /\ query.qtype \in Checked
      <4>1. query'.entry = query.entry
        BY <1>1, <2>6, LookupRecordsMoves
      <4> QED
        BY <1>2, <2>3, <2>4, <2>5, <3>1, <3>4, <4>1 DEF Passed, Behind, rules
    <3> QED
      BY <1>1, <2>6, <3>2, <3>3, <3>4, LookupRecordsMoves
  <2>7. CASE IsWhitelisted
    <3>1. IsDNS /\ query.pc = "whitelist" /\ query'.entry = query.entry
      BY <1>1, <2>7, IsWhitelistedMoves DEF IsWhitelisted, At
    <3>2. CASE query'.pc = "done" /\ query'.verdict = "forwarded" /\ query.name \in whitelist
      <4>1. <<query.name, query.qtype>> \notin records
        BY <2>3, <3>1 DEF Passed
      <4> QED
        BY <1>2, <1>3, <3>1, <3>2, <4>1, EndsCalm DEF Refused
    <3>3. CASE query'.pc = "acl" /\ query.name \notin whitelist
      BY <1>2, <2>3, <2>4, <2>5, <3>1, <3>3 DEF Passed, Behind, rules
    <3> QED
      BY <1>1, <2>7, <3>2, <3>3, IsWhitelistedMoves
  <2>8. CASE GetClientACL
    <3>1. IsDNS /\ query.pc = "acl"
      BY <1>1, <1>4, <2>8, GetClientACLMoves DEF GetClientACL, At
    <3>2. /\ <<query.name, query.qtype>> \notin records /\ query.qtype \in Checked
          /\ query.name \notin whitelist /\ query.entry.action = "none"
      BY <2>3, <3>1 DEF Passed
    <3>3. CASE query'.pc = "default" /\ query'.entry = query.entry
               /\ acl[query.client].action = "none"
      BY <1>2, <2>4, <2>5, <3>1, <3>2, <3>3 DEF Passed, Behind, rules
    <3>4. CASE query'.pc = "done" /\ query'.verdict = "forwarded"
               /\ acl[query.client].action = "allow"
      BY <1>2, <1>3, <3>1, <3>2, <3>4, EndsCalm DEF Refused
    <3>5. CASE query'.pc = "done" /\ query'.verdict = "acl_blocked"
               /\ acl[query.client].action = "block" /\ acl[query.client].categories = {}
      BY <1>2, <1>3, <3>1, <3>2, <3>5, EndsCalm DEF Refused
    <3>6. CASE query'.pc = "blockL1" /\ query'.entry = acl[query.client] /\ query'.i = 1
               /\ acl[query.client].action = "block" /\ acl[query.client].categories # {}
      <4>1. Passed'
        BY <1>2, <2>4, <3>1, <3>2, <3>6 DEF Passed, rules
      <4>2. Behind'
        BY <3>6 DEF Behind
      <4> QED
        BY <2>5, <3>6, <4>1, <4>2
    <3> QED
      BY <1>1, <1>4, <2>8, <3>3, <3>4, <3>5, <3>6, GetClientACLMoves
  <2>9. CASE GetACLDefault
    <3>1. IsDNS /\ query.pc = "default" /\ query'.entry = query.entry
      BY <1>1, <2>9, GetACLDefaultMoves DEF GetACLDefault, At
    <3>2. /\ <<query.name, query.qtype>> \notin records /\ query.qtype \in Checked
          /\ query.name \notin whitelist /\ query.entry.action = "none"
          /\ acl[query.client].action = "none"
      BY <2>3, <3>1 DEF Passed
    <3>3. CASE query'.pc = "done" /\ query'.verdict = "acl_blocked" /\ ~aclDefault
      BY <1>2, <1>3, <3>1, <3>2, <3>3, EndsCalm DEF Refused
    <3>4. CASE query'.pc = "blockL1" /\ query'.i = 1 /\ aclDefault
      <4>1. Passed'
        BY <1>2, <2>4, <3>1, <3>2, <3>4 DEF Passed, rules
      <4>2. Behind'
        BY <3>4 DEF Behind
      <4> QED
        BY <2>5, <3>4, <4>1, <4>2
    <3> QED
      BY <1>1, <2>9, <3>3, <3>4, GetACLDefaultMoves
  <2>10. CASE IsBlockedL1
    <3>1. IsDNS /\ query.pc = "blockL1" /\ query'.entry = query.entry
      BY <1>1, <2>10, IsBlockedL1Moves DEF IsBlockedL1, At
    <3>2. CASE Suffix(query.name, query.i) \in shown[Server] /\ HitOutcome
      BY <1>1, <1>2, <2>3, <3>1, <3>2, HitCalm DEF InBlocklist
    <3>3. CASE Suffix(query.name, query.i) \notin shown[Server] /\ ~rdb /\ MissOutcome
      BY <1>1, <1>2, <2>3, <3>1, <3>3, BlockedMissCalm DEF InBlocklist
    <3>4. CASE Suffix(query.name, query.i) \notin shown[Server] /\ rdb
               /\ query'.i = query.i /\ query'.pc = "blockL2"
      <4>1. Passed'
        BY <1>2, <2>3, <2>4, <3>1, <3>4 DEF Passed, rules
      <4>2. Behind'
        BY <1>2, <2>3, <2>4, <3>1, <3>4 DEF Behind, InBlocklist, cached
      <4> QED
        BY <2>5, <3>4, <4>1, <4>2
    <3> QED
      BY <1>1, <2>10, <3>2, <3>3, <3>4, IsBlockedL1Moves
  <2>11. CASE IsBlockedL2
    <3>1. IsDNS /\ query.pc = "blockL2" /\ query'.entry = query.entry
      BY <1>1, <2>11, IsBlockedL2Moves DEF IsBlockedL2, At
    <3>2. rdb /\ Suffix(query.name, query.i) \notin shown[Server]
      BY <2>3, <3>1 DEF Behind
    <3>3. CASE Suffix(query.name, query.i) \in shared /\ HitOutcome
      BY <1>1, <1>2, <2>3, <3>1, <3>2, <3>3, HitCalm DEF InBlocklist
    <3>4. CASE Suffix(query.name, query.i) \notin shared /\ MissOutcome
      BY <1>1, <1>2, <2>3, <3>1, <3>2, <3>4, BlockedMissCalm DEF InBlocklist
    <3> QED
      BY <1>1, <2>11, <3>3, <3>4, IsBlockedL2Moves
  <2>12. CASE LookupL1
    <3>1. query.pc = "metaL1"
      BY <2>12 DEF LookupL1, At
    <3> QED
      BY <1>1, <1>2, <1>3, <1>4, <2>3, <2>12, <3>1, LookupL1Calm
  <2>13. CASE LookupL2
    BY <1>1, <1>2, <1>3, <1>4, <2>3, <2>13, LookupL2Calm
  <2> QED
    BY <2>1, <2>6, <2>7, <2>8, <2>9, <2>10, <2>11, <2>12, <2>13 DEF Step
<1> QED
  BY <1>5, <1>6

(* Asking begins a walk with nothing behind it; whatever changes a cache or  *)
(* a rule ends the calm.                                                     *)
LEMMA NextCalm == TypeOK /\ Calm /\ [Next]_vars => Calm'
<1> SUFFICES ASSUME TypeOK, Calm, [Next]_vars PROVE Calm'
  OBVIOUS
<1>1. ASSUME NEW n \in Asked,
             (\E t \in QType, c \in Client : Ask(n, t, c)) \/ Intercept(n)
      PROVE  Calm'
  <2>1. /\ query'.i = 1
        /\ \/ query'.pc = "records" /\ query'.entry = NoEntry
           \/ query'.pc = "metaL1" /\ "qtype" \notin DOMAIN query'
    BY <1>1, AskedType
  <2>2. Passed' /\ Behind'
    BY <2>1 DEF Passed, Behind, NoEntry, IsDNS
  <2> QED
    BY <2>1, <2>2 DEF Calm, CalmVerdict, At
<1>2. CASE Step
  BY <1>2, StepCalm
<1>3. CASE CacheStep \/ RuleStep
  <2>1. since' \in SinceType /\ ~since'.calm
    BY <1>3 DEF CacheStep, RuleStep, TypeOK, SinceType
  <2> QED
    BY <2>1 DEF Calm, CalmVerdict
<1>4. CASE UNCHANGED vars
  <2>1. UNCHANGED <<cached, rdb, rules, query, since>>
    BY <1>4 DEF vars
  <2>2. Passed' = Passed /\ Behind' = Behind /\ CalmVerdict' = CalmVerdict
    BY <2>1, SameNow DEF Passed, Behind, Known, InBlocklist, CalmVerdict, At, IsDNS, cached, rules
  <2> QED
    BY <2>1, <2>2 DEF Calm
<1> QED
  BY <1>1, <1>2, <1>3, <1>4 DEF Next

(* When nothing changes and no command fails between question and answer,    *)
(* the look-up suffix by suffix and layer by layer gives the verdict of the  *)
(* caches as a whole.                                                        *)
THEOREM CalmCorrect == Spec => []CalmVerdict
<1>1. Init => Calm
  BY DEF Init, Calm, CalmVerdict, At
<1>2. Calm => CalmVerdict
  BY DEF Calm
<1> QED
  BY <1>1, <1>2, NextCalm, ResolverTypeCorrect, PTL DEF Spec

------------------------------------------------------------------------------
(* The length of a query.                                                    *)

(* The most steps there are still to do: one for each cache that is to be    *)
(* asked, and two walks over the suffixes that are left, each suffix in      *)
(* memory and in Redis.                                                      *)
StepsFrom(place, labelsOf, i) ==
    LET tail == 2 * (labelsOf - i)
        walk == 2 * labelsOf
    IN  CASE place = "records"   -> 2 * walk + 4
          [] place = "whitelist" -> 2 * walk + 3
          [] place = "acl"       -> 2 * walk + 2
          [] place = "default"   -> 2 * walk + 1
          [] place = "blockL1"   -> walk + tail + 2
          [] place = "blockL2"   -> walk + tail + 1
          [] place = "metaL1"    -> tail + 2
          [] place = "metaL2"    -> tail + 1
          [] place = "done"      -> 0

StepsLeft == StepsFrom(query.pc, Len(query.name), query.i)

(* The steps that are left at each place.                                    *)
FromEachPlace(n, i) ==
    /\ StepsFrom("records", n, i) = 4 * n + 4
    /\ StepsFrom("whitelist", n, i) = 4 * n + 3
    /\ StepsFrom("acl", n, i) = 4 * n + 2
    /\ StepsFrom("default", n, i) = 4 * n + 1
    /\ StepsFrom("blockL1", n, i) = 4 * n - 2 * i + 2
    /\ StepsFrom("blockL2", n, i) = 4 * n - 2 * i + 1
    /\ StepsFrom("metaL1", n, i) = 2 * n - 2 * i + 2
    /\ StepsFrom("metaL2", n, i) = 2 * n - 2 * i + 1
    /\ StepsFrom("done", n, i) = 0

(* The count is what it is at each place.                                    *)
LEMMA StepsFromEach ==
    ASSUME NEW n \in Nat, NEW i \in 1..n
    PROVE  FromEachPlace(n, i)
BY DEF StepsFrom, FromEachPlace

(* It is a number, bounded by the name, and nothing is left when the query   *)
(* has its verdict and not before.                                           *)
LEMMA StepsLeftType ==
    ASSUME Walking
    PROVE  /\ StepsLeft \in 0 .. (4 * Len(query.name) + 4)
           /\ StepsLeft = 0 <=> query.pc = "done"
<1>1. query.pc \in Place \ {"idle"} /\ query.name \in Domain /\ query.i \in 1..Len(query.name)
  BY QuestionFields DEF Walking
<1>2. Len(query.name) \in Nat
  BY <1>1, SuffixType
<1> DEFINE n == Len(query.name)
           i == query.i
<1>3. n \in Nat /\ i \in 1..n
  BY <1>1, <1>2
<1> HIDE DEF n, i
<1>4. FromEachPlace(n, i)
  BY <1>3, StepsFromEach
<1>5. /\ StepsFrom(query.pc, n, i) \in 0 .. (4 * n + 4)
      /\ StepsFrom(query.pc, n, i) = 0 <=> query.pc = "done"
  BY <1>1, <1>3, <1>4 DEF Place, FromEachPlace
<1> QED
  BY <1>5 DEF StepsLeft, n, i

(* Where a walk goes: on to Redis, on to the parent, or to the verdict.      *)
WalksOn(first, second) ==
    \/ query'.pc = "done"
    \/ query.pc = first /\ query'.pc = second /\ query'.i = query.i
    \/ query.i < Len(query.name) /\ query'.pc = first /\ query'.i = query.i + 1

(* Lookup walks on.                                                          *)
LEMMA LookupWalksOn ==
    ASSUME Walking, TypeOK, LookupL1 \/ LookupL2 \/ (At("metaL2") /\ LookupMiss)
    PROVE  query.pc \in {"metaL1", "metaL2"} /\ WalksOn("metaL1", "metaL2")
<1> DEFINE d == Suffix(query.name, query.i)
<1>1. query \in Question /\ query.name \in Domain /\ query.i \in 1..Len(query.name)
  BY QuestionFields DEF Walking
<1>2. d \in Domain
  BY <1>1, SuffixType
<1>3. described[Server][d] \in Category \cup {Absent} /\ labels[d] \in Category \cup {Absent}
  BY <1>2, ResolverAssumption DEF TypeOK, Cache!View
<1>4. query.pc \in {"metaL1", "metaL2"}
  BY DEF LookupL1, LookupL2, At
<1>5. CASE LookupMiss
  BY <1>4, <1>5, LookupMissMoves DEF WalksOn
<1>6. ASSUME NEW c \in Told, Found(c) PROVE WalksOn("metaL1", "metaL2")
  BY <1>1, <1>6, FoundEnds DEF WalksOn
<1>7. CASE LookupL1
  <2>1. CASE described[Server][d] # Absent
    <3>1. described[Server][d] \in Told /\ Found(described[Server][d])
      BY <1>3, <1>7, <2>1 DEF LookupL1, Told
    <3> QED
      BY <1>4, <1>6, <3>1
  <2>2. CASE described[Server][d] = Absent /\ rdb
    <3>1. query' = [query EXCEPT !.pc = "metaL2"] /\ query.pc = "metaL1"
      BY <1>7, <2>2 DEF LookupL1, Goto, At
    <3>2. "metaL2" \in Place \ {"idle"}
      BY DEF Place
    <3> QED
      BY <1>1, <3>1, <3>2, GotoMoves DEF WalksOn
  <2>3. CASE described[Server][d] = Absent /\ ~rdb
    BY <1>5, <1>7, <2>3 DEF LookupL1
  <2> QED
    BY <1>4, <2>1, <2>2, <2>3
<1>8. CASE LookupL2
  <2>1. CASE labels[d] # Absent
    <3>1. Decode(d) \in Told /\ Found(Decode(d))
      BY <1>3, <1>8, <2>1 DEF LookupL2, Decode, Told
    <3> QED
      BY <1>4, <1>6, <3>1
  <2>2. CASE labels[d] = Absent
    BY <1>5, <1>8, <2>2 DEF LookupL2
  <2> QED
    BY <1>4, <2>1, <2>2
<1> QED
  BY <1>5, <1>7, <1>8

(* IsBlocked walks on, or has found a suffix whose category is looked up.    *)
LEMMA IsBlockedWalksOn ==
    ASSUME Walking, IsBlockedL1 \/ IsBlockedL2 \/ (At("blockL2") /\ IsBlockedMiss)
    PROVE  /\ query.pc \in {"blockL1", "blockL2"}
           /\ WalksOn("blockL1", "blockL2") \/ (query'.pc = "metaL1" /\ query'.i = 1)
<1>1. query.pc \in {"blockL1", "blockL2"} /\ IsDNS
  BY DNSPlaces DEF IsBlockedL1, IsBlockedL2, At, Walking
<1>2. CASE IsBlockedL1
  BY <1>1, <1>2, IsBlockedL1Moves DEF HitOutcome, MissOutcome, WalksOn, IsBlockedL1, At
<1>3. CASE IsBlockedL2
  BY <1>1, <1>3, IsBlockedL2Moves DEF HitOutcome, MissOutcome, WalksOn
<1>4. CASE IsBlockedMiss
  BY <1>1, <1>4, IsBlockedMissMoves DEF WalksOn
<1> QED
  BY <1>1, <1>2, <1>3, <1>4

(* Where a step leads from the place p and the suffix i of a name of n       *)
(* labels: to the place q and the suffix j.                                  *)
Onward(p, i, q, j, n) ==
    \/ p \in Place \ {"idle", "done"} /\ q = "done"
    \/ p = "records" /\ q = "whitelist"
    \/ p = "whitelist" /\ q = "acl"
    \/ p = "acl" /\ q = "default"
    \/ p \in {"acl", "default"} /\ q = "blockL1" /\ j = 1
    \/ p = "blockL1" /\ q = "blockL2" /\ j = i
    \/ p \in {"blockL1", "blockL2"} /\ q = "blockL1" /\ j = i + 1
    \/ p \in {"blockL1", "blockL2"} /\ q = "metaL1" /\ j = 1
    \/ p = "metaL1" /\ q = "metaL2" /\ j = i
    \/ p \in {"metaL1", "metaL2"} /\ q = "metaL1" /\ j = i + 1

(* There are fewer steps left there.                                         *)
LEMMA OnwardIsFewer ==
    ASSUME NEW n \in Nat, NEW i \in 1..n, NEW j \in 1..n, NEW p, NEW q, Onward(p, i, q, j, n)
    PROVE  StepsFrom(q, n, j) < StepsFrom(p, n, i)
<1>1. FromEachPlace(n, i) /\ FromEachPlace(n, j)
  BY StepsFromEach
<1>2. CASE p \in Place \ {"idle", "done"} /\ q = "done"
  BY <1>1, <1>2 DEF FromEachPlace, Place
<1>3. CASE p = "records" /\ q = "whitelist"
  BY <1>1, <1>3 DEF FromEachPlace
<1>4. CASE p = "whitelist" /\ q = "acl"
  BY <1>1, <1>4 DEF FromEachPlace
<1>5. CASE p = "acl" /\ q = "default"
  BY <1>1, <1>5 DEF FromEachPlace
<1>6. CASE p \in {"acl", "default"} /\ q = "blockL1" /\ j = 1
  BY <1>1, <1>6 DEF FromEachPlace
<1>7. CASE p = "blockL1" /\ q = "blockL2" /\ j = i
  BY <1>1, <1>7 DEF FromEachPlace
<1>8. CASE p \in {"blockL1", "blockL2"} /\ q = "blockL1" /\ j = i + 1
  BY <1>1, <1>8 DEF FromEachPlace
<1>9. CASE p \in {"blockL1", "blockL2"} /\ q = "metaL1" /\ j = 1
  BY <1>1, <1>9 DEF FromEachPlace
<1>10. CASE p = "metaL1" /\ q = "metaL2" /\ j = i
  BY <1>1, <1>10 DEF FromEachPlace
<1>11. CASE p \in {"metaL1", "metaL2"} /\ q = "metaL1" /\ j = i + 1
  BY <1>1, <1>11 DEF FromEachPlace
<1> QED
  BY <1>2, <1>3, <1>4, <1>5, <1>6, <1>7, <1>8, <1>9, <1>10, <1>11 DEF Onward

(* Every step of a query leads onward,                                       *)
Advances == Onward(query.pc, query.i, query'.pc, query'.i, Len(query.name))

LEMMA StepAdvances ==
    ASSUME TypeOK, Step
    PROVE  Advances
<1>1. Walking /\ acl \in [Client -> Entry]
  BY StepWalks DEF TypeOK
<1>2. CASE LookupRecords
  <2>1. query.pc = "records" /\ query'.pc \in {"done", "whitelist"}
    BY <1>1, <1>2, LookupRecordsMoves DEF LookupRecords, At
  <2> QED
    BY <2>1 DEF Advances, Onward, Place
<1>3. CASE IsWhitelisted
  <2>1. query.pc = "whitelist" /\ query'.pc \in {"done", "acl"}
    BY <1>1, <1>3, IsWhitelistedMoves DEF IsWhitelisted, At
  <2> QED
    BY <2>1 DEF Advances, Onward, Place
<1>4. CASE GetClientACL
  <2>1. /\ query.pc = "acl"
        /\ query'.pc \in {"done", "default"} \/ (query'.pc = "blockL1" /\ query'.i = 1)
    BY <1>1, <1>4, GetClientACLMoves DEF GetClientACL, At
  <2> QED
    BY <2>1 DEF Advances, Onward, Place
<1>5. CASE GetACLDefault
  <2>1. /\ query.pc = "default"
        /\ query'.pc = "done" \/ (query'.pc = "blockL1" /\ query'.i = 1)
    BY <1>1, <1>5, GetACLDefaultMoves DEF GetACLDefault, At
  <2> QED
    BY <2>1 DEF Advances, Onward, Place
<1>6. CASE IsBlockedL1 \/ IsBlockedL2 \/ (At("blockL2") /\ IsBlockedMiss)
  <2>1. /\ query.pc \in {"blockL1", "blockL2"}
        /\ WalksOn("blockL1", "blockL2") \/ (query'.pc = "metaL1" /\ query'.i = 1)
    BY <1>1, <1>6, IsBlockedWalksOn
  <2> QED
    BY <2>1 DEF Advances, Onward, Place, WalksOn
<1>7. CASE LookupL1 \/ LookupL2 \/ (At("metaL2") /\ LookupMiss)
  <2>1. query.pc \in {"metaL1", "metaL2"} /\ WalksOn("metaL1", "metaL2")
    BY <1>1, <1>7, LookupWalksOn
  <2> QED
    BY <2>1 DEF Advances, Onward, Place, WalksOn
<1> QED
  BY <1>2, <1>3, <1>4, <1>5, <1>6, <1>7 DEF Step, ReadFails

(* ... and so nearer to the verdict.                                         *)
LEMMA StepNears ==
    ASSUME TypeOK, Step
    PROVE  StepsLeft' < StepsLeft
<1>1. query'.name = query.name /\ query'.i \in 1..Len(query.name)
  BY StepKeeps DEF Same
<1>2. query.i \in 1..Len(query.name) /\ Len(query.name) \in Nat
  BY StepWalks, QuestionFields, SuffixType DEF Walking
<1>3. StepsFrom(query'.pc, Len(query.name), query'.i) < StepsFrom(query.pc, Len(query.name), query.i)
  BY <1>1, <1>2, StepAdvances, OnwardIsFewer DEF Advances
<1> QED
  BY <1>1, <1>3 DEF StepsLeft

(* What happens to a query that has been asked.                              *)
Nearer == ~At("idle") => StepsLeft' < StepsLeft

(* Nothing but its own steps changes a query that has been asked.            *)
LEMMA NextNears == TypeOK /\ [Next]_vars => [Nearer]_query
<1> SUFFICES ASSUME TypeOK, [Next]_vars, query' # query, ~At("idle")
             PROVE  StepsLeft' < StepsLeft
  BY DEF Nearer
<1>1. CASE Step
  BY <1>1, StepNears
<1>2. CASE CacheStep \/ RuleStep \/ UNCHANGED vars
  BY <1>2 DEF CacheStep, RuleStep, vars
<1>3. CASE \E n \in Asked : (\E t \in QType, c \in Client : Ask(n, t, c)) \/ Intercept(n)
  BY <1>3 DEF Ask, Intercept, At
<1> QED
  BY <1>1, <1>2, <1>3 DEF Next

(* How much a query that has been asked may still have to do.                *)
Bounded ==
    ~At("idle") => /\ StepsLeft \in 0 .. (4 * Len(query.name) + 4)
                   /\ StepsLeft = 0 <=> At("done")

(* A query for a name of n labels is answered within 4n + 4 of its steps,    *)
(* whatever the caches become and whatever fails meanwhile: its look-ups     *)
(* never turn back, and nothing but the verdict stops them.                  *)
THEOREM StepsBounded == Spec => []Bounded /\ [][Nearer]_query
<1>1. TypeOK => Bounded
  <2> SUFFICES ASSUME TypeOK, ~At("idle") PROVE Bounded
    BY DEF Bounded
  <2>1. Walking
    BY DEF TypeOK, Walking, At
  <2> QED
    BY <2>1, StepsLeftType DEF Bounded, At
<1> QED
  BY <1>1, NextNears, ResolverTypeCorrect, PTL DEF Spec
==============================================================================
