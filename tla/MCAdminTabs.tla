------------------------------ MODULE MCAdminTabs ------------------------------
(* Instances of AdminTabs for TLC: every list and every view; the filters    *)
(* other than "" leave one entry.                                            *)
EXTENDS AdminTabs

ListsDef == PageLists \cup TabLists \cup {"off"}
LogsDef == LogViews \cup {"off"}
HitsDef == [f \in Filters |-> [n \in 0 .. MaxEntries |-> IF f = "" \/ n = 0 THEN n ELSE 1]]

(* Without is the filter of Sequences. *)
ASSUME WithoutIsFilter ==
    \A s \in SeqOf([id : Id, at : 1 .. 2], 4), i \in Id :
        Without(s, i) = SelectSeq(s, LAMBDA r : r.id # i)
===============================================================================
