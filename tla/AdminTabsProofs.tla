--------------------------- MODULE AdminTabsProofs ---------------------------
(* Proofs about AdminTabs for any rows, filters, entries and bounds: what    *)
(* the tabs that only look show of their requests, the lists that are kept   *)
(* in step with the server by hand, and the types and spinners of all.       *)
EXTENDS AdminTabs, ListRowsProofs

------------------------------------------------------------------------------
(* The inductive invariant of the views.                                     *)

(* The panel of a client has no pages. *)
ClientPage == log = "clientstats" => controls.page = 1

(* Requests are told apart by their numbers. *)
Numbered == \A r, q \in asking : r.n = q.n => r = q

(* Without a clash nothing but the newest request is out, and no error is    *)
(* shown while it is.                                                        *)
Alone == ~clash => \A r \in asking : r.n = newest
Quiet == ~clash /\ asking # {} => ~failed

(* The newest request ends once. *)
NewestOnce == fate # "none" => \A r \in asking : r.n # newest

LogInv ==
    /\ LogTypeOK
    /\ ClientPage /\ Numbered /\ Alone /\ Quiet /\ NewestOnce
    /\ NewestAsksForTheControls /\ PatientSeesControls
    /\ ErrorsAreTrue /\ LogSpinnersAreHonest

------------------------------------------------------------------------------
(* The steps of a view.                                                      *)

(* The pages and filters the user can ask for are pages and filters.         *)
Turned(v) ==
    /\ log # "clientstats"
    /\ v \in Controls

(* Every step is one of these. *)
LEMMA LogCases ==
    ASSUME LogTypeOK, LogNext
    PROVE  \/ OpenLog \/ LeaveLog
           \/ \E v \in Controls : Turned(v) /\ ChangeControls(v)
           \/ \E f \in Filters : TypeFilter(f) \/ OpenClientStats(f)
           \/ HandleApplyFilters \/ CloseClientStats
           \/ ServeLook \/ LookFails \/ LogGrows
           \/ \E r \in asking : LogsArrive(r) \/ LogsFail(r)
<1> USE DEF LogTypeOK, Controls
<1>1. ASSUME PagerPrev \/ PagerNext
      PROVE  \E v \in Controls : Turned(v) /\ ChangeControls(v)
  <2>1. log # "clientstats"
    BY <1>1 DEF PagerPrev, PagerNext, PagedTabs
  <2>2. CASE PagerPrev
    <3>1. [controls EXCEPT !.page = @ - 1] \in Controls
      BY <2>2 DEF PagerPrev
    <3> QED
      BY <2>1, <2>2, <3>1 DEF PagerPrev, Turned
  <2>3. CASE PagerNext
    <3>1. [controls EXCEPT !.page = @ + 1] \in Controls
      BY <2>3 DEF PagerNext
    <3> QED
      BY <2>1, <2>3, <3>1 DEF PagerNext, Turned
  <2> QED
    BY <1>1, <2>2, <2>3
<1>2. ASSUME RefreshLogs
      PROVE  \E v \in Controls : Turned(v) /\ ChangeControls(v)
  <2>1. Turned(controls) /\ ChangeControls(controls)
    BY <1>2 DEF RefreshLogs, Turned
  <2> QED
    BY <2>1 DEF Turned
<1>3. ASSUME NEW f \in Filters, FilterAudit(f) \/ SearchReputation(f) \/ SetPeriod(f)
      PROVE  \E v \in Controls : Turned(v) /\ ChangeControls(v)
  <2>1. FirstOf(f) \in Controls
    BY DEF FirstOf
  <2> QED
    BY <1>3, <2>1 DEF FilterAudit, SearchReputation, SetPeriod, Turned
<1> QED
  BY <1>1, <1>2, <1>3, Zenon
  DEF LogNext, LogUser, LogAnswers, HistoricalHeader, HistoricalFilters, HistoricalPager,
      AuditHeader, AuditFilters, AuditPager, ReputationHeader, ReputationPager, AnalyticsHeader,
      ClientRow, StatsPanel

(* The bounds are numbers. *)
LEMMA LogBounds == MaxEntries \in Nat /\ MaxLogActs \in Nat /\ MaxLogFaults \in Nat
  BY LogTabsAssumption

(* The first page of a filter can be asked for. *)
LEMMA FirstOfFilter ==
    ASSUME NEW f \in Filters
    PROVE  FirstOf(f) \in Controls /\ FirstOf(f).page = 1 /\ FirstOf(f).filter = f
  BY DEF FirstOf, Controls

(* The first page of everything can. *)
LEMMA FirstIsThere == FirstOf("") \in Controls /\ FirstOf("").page = 1 /\ FirstOf("").filter = ""
<1>1. "" \in Filters
  BY LogTabsAssumption, Zenon
<1> QED
  BY <1>1, FirstOfFilter, Zenon

(* What is shown before any answer has the type of an answer. *)
LEMMA NoRowsOK == NoRows \in [got : BOOLEAN, view : Controls, total : 0 .. MaxEntries]
<1>1. FirstOf("") \in Controls
  BY FirstIsThere, Zenon
<1>2. 0 \in 0 .. MaxEntries
  BY LogBounds
<1>3. FALSE \in BOOLEAN
  OBVIOUS
<1> QED
  BY <1>1, <1>2, <1>3, Zenon DEF NoRows

(* Asking with one request. *)
LEMMA LoadOne ==
    ASSUME NEW v, LoadLogs(v)
    PROVE  /\ asking' = asking \cup {LogRequest(newest + 1, v)}
           /\ newest' = newest + 1
           /\ clash' = (asking # {})
           /\ fate' = "none" /\ failed' = FALSE
           /\ spinning' \in BOOLEAN /\ patient' \in BOOLEAN
<1> DEFINE views == {LogRequest(newest + 1, v)}
<1>1. Cardinality(views) = 1
  BY FS_Singleton
<1>2. spinning' \in BOOLEAN /\ patient' \in BOOLEAN
  BY Zenon DEF LoadLogs, Load
<1> QED
  BY <1>1, <1>2 DEF LoadLogs, Load

(* What asking with one request for the controls keeps. *)
LEMMA LoadKeeps ==
    ASSUME LogTypeOK, Numbered, Alone,
           NEW v \in Controls, LoadLogs(v), controls' = v
    PROVE  /\ newest' \in Nat
           /\ asking' \subseteq [n : 1 .. newest', view : Controls, st : {"sent", "done", "failed"},
                                 total : 0 .. MaxEntries]
           /\ fate' = "none" /\ failed' \in BOOLEAN /\ clash' \in BOOLEAN
           /\ Numbered' /\ Alone' /\ Quiet' /\ NewestOnce'
           /\ NewestAsksForTheControls'
           /\ asking' # {}
<1> DEFINE new == LogRequest(newest + 1, v)
<1>1. /\ asking' = asking \cup {new}
      /\ newest' = newest + 1
      /\ clash' = (asking # {})
      /\ fate' = "none" /\ failed' = FALSE
  BY LoadOne
<1>2. newest \in Nat /\ \A r \in asking : r.n \in 1 .. newest
  BY DEF LogTypeOK
<1>3. new.n = newest + 1 /\ new.view = v
  BY DEF LogRequest
<1>4. new \in [n : 1 .. newest', view : Controls, st : {"sent", "done", "failed"}, total : 0 .. MaxEntries]
  <2>1. newest + 1 \in 1 .. newest'
    BY <1>1, <1>2
  <2>2. 0 \in 0 .. MaxEntries
    BY LogBounds
  <2> QED
    BY <2>1, <2>2 DEF LogRequest
<1>5. asking' \subseteq [n : 1 .. newest', view : Controls, st : {"sent", "done", "failed"},
                         total : 0 .. MaxEntries]
  BY <1>1, <1>2, <1>4 DEF LogTypeOK
<1>6. Numbered'
  BY <1>1, <1>2, <1>3 DEF Numbered
<1>7. Alone'
  BY <1>1, <1>3 DEF Alone
<1>8. NewestAsksForTheControls'
  <2>1. \A r \in asking' : r.n = newest' => r.view = v
    BY <1>1, <1>2, <1>3
  <2> QED
    BY <2>1 DEF NewestAsksForTheControls, Suits
<1>9. Quiet' /\ NewestOnce'
  BY <1>1 DEF Quiet, NewestOnce
<1>10. newest' \in Nat
  BY <1>1, <1>2
<1>11. failed' \in BOOLEAN /\ clash' \in BOOLEAN
  BY <1>1, Zenon
<1> QED
  BY <1>1, <1>5, <1>6, <1>7, <1>8, <1>9, <1>10, <1>11

(* What a view keeps that no request is about. *)
Rest ==
    /\ up \in BOOLEAN /\ edited \in BOOLEAN /\ routed \in BOOLEAN
    /\ controls \in Controls
    /\ answer \in [got : BOOLEAN, view : Controls, total : 0 .. MaxEntries]
    /\ entries \in 0 .. MaxEntries
    /\ looks \in 0 .. MaxLogActs /\ slips \in 0 .. MaxLogFaults

(* A step that asks once for the controls keeps the invariant.               *)
LEMMA LoadStep ==
    ASSUME LogInv, NEW v \in Controls, LoadLogs(v), controls' = v, Rest', ClientPage'
    PROVE  LogInv'
<1>1. /\ newest' \in Nat
      /\ asking' \subseteq [n : 1 .. newest', view : Controls, st : {"sent", "done", "failed"},
                            total : 0 .. MaxEntries]
      /\ fate' = "none" /\ failed' \in BOOLEAN /\ clash' \in BOOLEAN
      /\ Numbered' /\ Alone' /\ Quiet' /\ NewestOnce'
      /\ NewestAsksForTheControls'
      /\ asking' # {}
  BY LoadKeeps DEF LogInv
<1>2. spinning' \in BOOLEAN /\ patient' \in BOOLEAN
  BY LoadOne
<1>3. LogTypeOK'
  BY <1>1, <1>2 DEF LogTypeOK, Rest
<1>4. PatientSeesControls' /\ ErrorsAreTrue' /\ LogSpinnersAreHonest'
  BY <1>1 DEF PatientSeesControls, ErrorsAreTrue, LogSpinnersAreHonest, Settled
<1> QED
  BY <1>1, <1>3, <1>4 DEF LogInv

(* Applying the filters on a page that is not the first asks twice; the      *)
(* newer request is for the first page.                                      *)
LEMMA ApplyTwice ==
    ASSUME LogInv, HandleApplyFilters, controls.page # 1
    PROVE  LogInv'
<1> DEFINE old == LogRequest(newest + 1, controls)
           first == [controls EXCEPT !.page = 1]
           new == LogRequest(newest + 2, first)
<1>1. /\ log = "historical"
      /\ controls' = first
      /\ UNCHANGED <<log, up, answer, entries, routed, slips>>
      /\ edited' = FALSE
      /\ looks < MaxLogActs /\ looks' = looks + 1
  BY DEF HandleApplyFilters, Looks
<1>2. newest \in Nat /\ (\A r \in asking : r.n \in 1 .. newest) /\ controls \in Controls
  BY DEF LogInv, LogTypeOK
<1>3. first \in Controls /\ old.n = newest + 1 /\ new.n = newest + 2 /\ new.view = first
  BY <1>2 DEF LogRequest, Controls
<1>4. Cardinality({old} \cup {new}) = 2
  <2>1. old # new
    BY <1>2, <1>3
  <2>2. Cardinality({old}) = 1 /\ IsFiniteSet({old})
    BY FS_Singleton
  <2>3. Cardinality({old} \cup {new}) = Cardinality({old}) + 1
    BY <2>1, <2>2, FS_AddElement
  <2> QED
    BY <2>2, <2>3
<1>5. /\ asking' = asking \cup ({old} \cup {new})
      /\ newest' = newest + 2
      /\ clash' = TRUE
      /\ fate' = "none" /\ failed' = FALSE
  <2>1. Load({old} \cup {new})
    BY Zenon DEF HandleApplyFilters
  <2>2. /\ asking' = asking \cup ({old} \cup {new})
        /\ newest' = newest + 2
        /\ clash' = (asking # {} \/ 2 > 1)
        /\ fate' = "none" /\ failed' = FALSE
    BY <1>4, <2>1, Zenon DEF Load
  <2>3. 2 > 1
    OBVIOUS
  <2> QED
    BY <2>2, <2>3
<1>6. spinning' \in BOOLEAN /\ patient' \in BOOLEAN
  BY Zenon DEF HandleApplyFilters, Load
<1>7. asking' \subseteq [n : 1 .. newest', view : Controls, st : {"sent", "done", "failed"},
                         total : 0 .. MaxEntries]
  <2>1. newest + 1 \in 1 .. newest' /\ newest + 2 \in 1 .. newest' /\ 0 \in 0 .. MaxEntries
    BY <1>2, <1>5, LogBounds
  <2>2. \A r \in {old} \cup {new} :
          r \in [n : 1 .. newest', view : Controls, st : {"sent", "done", "failed"}, total : 0 .. MaxEntries]
    BY <1>2, <1>3, <2>1 DEF LogRequest
  <2>3. \A r \in asking :
          r \in [n : 1 .. newest', view : Controls, st : {"sent", "done", "failed"}, total : 0 .. MaxEntries]
    BY <1>2, <1>5 DEF LogInv, LogTypeOK
  <2> QED
    BY <1>5, <2>2, <2>3
<1>8. Numbered'
  BY <1>2, <1>3, <1>5 DEF LogInv, Numbered
<1>9. NewestAsksForTheControls'
  <2>1. \A r \in asking' : r.n = newest' => r.view = controls'
    BY <1>1, <1>2, <1>3, <1>5
  <2> QED
    BY <2>1 DEF NewestAsksForTheControls, Suits
<1>10. Alone' /\ Quiet' /\ NewestOnce' /\ ClientPage'
  BY <1>1, <1>5 DEF Alone, Quiet, NewestOnce, ClientPage
<1>11. LogTypeOK'
  <2>1. looks' \in 0 .. MaxLogActs
    BY <1>1, LogBounds DEF LogInv, LogTypeOK
  <2>2. edited' \in BOOLEAN /\ failed' \in BOOLEAN /\ clash' \in BOOLEAN /\ fate' = "none"
    BY <1>1, <1>5, Zenon
  <2>3. newest' \in Nat /\ controls' \in Controls
    BY <1>1, <1>2, <1>3, <1>5
  <2> QED
    BY <1>1, <1>6, <1>7, <2>1, <2>2, <2>3 DEF LogInv, LogTypeOK
<1>12. PatientSeesControls' /\ ErrorsAreTrue' /\ LogSpinnersAreHonest'
  <2>1. asking' # {}
    BY <1>5
  <2> QED
    BY <2>1 DEF PatientSeesControls, ErrorsAreTrue, LogSpinnersAreHonest, Settled
<1> QED
  BY <1>8, <1>9, <1>10, <1>11, <1>12 DEF LogInv

(* A request of the type that LogTypeOK gives. *)
Requests == [n : 1 .. newest, view : Controls, st : {"sent", "done", "failed"}, total : 0 .. MaxEntries]

(* The server's part in a request keeps the invariant: its number and its    *)
(* view stay.                                                                *)
LEMMA AnswerStep ==
    ASSUME LogInv, NEW r \in asking, NEW q \in Requests, q.n = r.n, q.view = r.view,
           asking' = (asking \ {r}) \cup {q}, Elsewhere, UNCHANGED entries,
           slips' \in 0 .. MaxLogFaults
    PROVE  LogInv'
<1>1. UNCHANGED <<log, up, controls, edited, answer, spinning, failed, newest, fate, clash, patient,
                  routed, looks, entries>>
  BY DEF Elsewhere
<1>2. asking' # {} /\ asking # {}
  OBVIOUS
<1>3. \A x \in asking' : \E y \in asking : x.n = y.n /\ x.view = y.view
  OBVIOUS
<1>4. LogTypeOK'
  BY <1>1 DEF LogInv, LogTypeOK, Requests
<1>5. Numbered'
  BY DEF LogInv, Numbered
<1>6. Alone' /\ Quiet'
  BY <1>1, <1>2, <1>3 DEF LogInv, Alone, Quiet
<1>7. NewestOnce'
  BY <1>1, <1>3 DEF LogInv, NewestOnce
<1>8. NewestAsksForTheControls'
  BY <1>1, <1>3 DEF LogInv, NewestAsksForTheControls, Suits
<1>9. ClientPage' /\ PatientSeesControls' /\ ErrorsAreTrue' /\ LogSpinnersAreHonest'
  BY <1>1, <1>2 DEF LogInv, ClientPage, PatientSeesControls, ErrorsAreTrue, LogSpinnersAreHonest, Settled
<1> QED
  BY <1>4, <1>5, <1>6, <1>7, <1>8, <1>9 DEF LogInv

(* The server answers, or cannot. *)
LEMMA ServeStep ==
    ASSUME LogInv, ServeLook \/ LookFails
    PROVE  LogInv'
<1>1. asking \subseteq Requests /\ entries \in 0 .. MaxEntries /\ slips \in 0 .. MaxLogFaults
  BY DEF LogInv, LogTypeOK, Requests
<1>2. ASSUME NEW r \in asking, NEW st \in {"failed"}, Becomes(r, st), Elsewhere, UNCHANGED entries,
             slips' \in 0 .. MaxLogFaults
      PROVE  LogInv'
  <2> DEFINE q == [r EXCEPT !.st = st]
  <2>1. q \in Requests /\ q.n = r.n /\ q.view = r.view
    BY <1>1 DEF Requests
  <2>2. asking' = (asking \ {r}) \cup {q}
    BY <1>2 DEF Becomes
  <2> QED
    BY <1>2, <2>1, <2>2, AnswerStep
<1>3. CASE ServeLook
  <2>1. PICK r \in asking :
          /\ IF routed
             THEN asking' = (asking \ {r}) \cup
                     {[r EXCEPT !.st = "done", !.total = Hits[r.view.filter][entries]]}
             ELSE Becomes(r, "failed")
          /\ Elsewhere /\ UNCHANGED <<entries, slips>>
    BY <1>3, Zenon DEF ServeLook
  <2>2. CASE routed
    <3> DEFINE q == [r EXCEPT !.st = "done", !.total = Hits[r.view.filter][entries]]
    <3>1. r.view.filter \in Filters
      BY <1>1 DEF Requests, Controls
    <3>2. Hits[r.view.filter][entries] \in 0 .. MaxEntries
      BY <1>1, <3>1, LogTabsAssumption
    <3>3. q \in Requests /\ q.n = r.n /\ q.view = r.view
      BY <1>1, <3>2 DEF Requests
    <3>4. asking' = (asking \ {r}) \cup {q}
      BY <2>1, <2>2
    <3> QED
      BY <1>1, <2>1, <3>3, <3>4, AnswerStep
  <2>3. CASE ~routed
    BY <1>1, <1>2, <2>1, <2>3
  <2> QED
    BY <2>2, <2>3
<1>4. CASE LookFails
  <2>1. PICK r \in asking :
          /\ slips < MaxLogFaults /\ slips' = slips + 1
          /\ Becomes(r, "failed")
          /\ Elsewhere /\ UNCHANGED entries
    BY <1>4 DEF LookFails
  <2>2. slips' \in 0 .. MaxLogFaults
    BY <1>1, <2>1, LogBounds
  <2> QED
    BY <1>2, <2>1, <2>2
<1> QED
  BY <1>3, <1>4

(* An answer arrives, or the news that there is none.                        *)
LEMMA ArriveStep ==
    ASSUME LogInv, NEW r \in asking, LogsArrive(r) \/ LogsFail(r)
    PROVE  LogInv'
<1> DEFINE how == IF r.st = "done" THEN "ok" ELSE "failed"
<1>1. /\ asking' = asking \ {r}
      /\ fate' = IF r.n = newest THEN how ELSE fate
      /\ spinning' = FALSE
      /\ UNCHANGED <<log, up, controls, edited, newest, clash, patient, entries, routed, looks, slips>>
  BY DEF LogsArrive, LogsFail, Ends
<1>2. r \in Requests /\ asking \subseteq Requests
  BY DEF LogInv, LogTypeOK, Requests
<1>3. r.st = "done" => failed' = failed /\ answer' = [got |-> TRUE, view |-> r.view, total |-> r.total]
  BY DEF LogsArrive, LogsFail
<1>4. r.st # "done" => failed' = (log \in Reporting) /\ answer' = answer
  BY DEF LogsArrive, LogsFail
<1>5. failed' \in BOOLEAN /\ answer' \in [got : BOOLEAN, view : Controls, total : 0 .. MaxEntries]
  <2>1. CASE r.st = "done"
    <3>1. failed \in BOOLEAN
      BY DEF LogInv, LogTypeOK
    <3>2. failed' \in BOOLEAN
      BY <1>3, <2>1, <3>1, Zenon
    <3>3. r.view \in Controls /\ r.total \in 0 .. MaxEntries
      BY <1>2 DEF Requests
    <3>4. [got |-> TRUE, view |-> r.view, total |-> r.total]
             \in [got : BOOLEAN, view : Controls, total : 0 .. MaxEntries]
      BY <3>3
    <3>5. answer' = [got |-> TRUE, view |-> r.view, total |-> r.total]
      BY <1>3, <2>1
    <3> QED
      BY <3>2, <3>4, <3>5, Zenon
  <2>2. CASE r.st # "done"
    <3>1. failed' \in BOOLEAN
      <4>1. failed' = (log \in Reporting)
        BY <1>4, <2>2
      <4>2. (log \in Reporting) \in BOOLEAN
        OBVIOUS
      <4> QED
        BY <4>1, <4>2, Zenon
    <3> QED
      BY <1>4, <2>2, <3>1 DEF LogInv, LogTypeOK
  <2> QED
    BY <2>1, <2>2
<1>6. LogTypeOK'
  <2>1. spinning' \in BOOLEAN
    BY <1>1, Zenon
  <2> QED
    BY <1>1, <1>5, <2>1 DEF LogInv, LogTypeOK
<1>7. Numbered' /\ ClientPage'
  BY <1>1 DEF LogInv, Numbered, ClientPage
<1>8. Alone'
  BY <1>1 DEF LogInv, Alone
<1>9. ~clash => r.n = newest /\ asking' = {}
  <2>1. ~clash => \A q \in asking : q.n = newest
    BY DEF LogInv, Alone
  <2>2. \A q \in asking : q.n = r.n => q = r
    BY DEF LogInv, Numbered
  <2> QED
    BY <1>1, <2>1, <2>2
<1>10. Quiet'
  BY <1>1, <1>9 DEF Quiet
<1>11. NewestOnce'
  BY <1>1 DEF LogInv, NewestOnce, Numbered
<1>12. NewestAsksForTheControls'
  BY <1>1 DEF LogInv, NewestAsksForTheControls, Suits
<1>13. PatientSeesControls'
  <2> SUFFICES ASSUME ~clash, fate' = "ok"
               PROVE  (answer.got /\ Suits(answer.view))'
    BY <1>1 DEF PatientSeesControls, Settled
  <2>1. r.n = newest /\ r.st = "done"
    BY <1>1, <1>9
  <2>2. answer'.got /\ answer'.view = r.view
    BY <1>3, <2>1
  <2>3. Suits(r.view)
    BY <2>1 DEF LogInv, NewestAsksForTheControls
  <2> QED
    BY <1>1, <2>2, <2>3 DEF Suits
<1>14. ErrorsAreTrue'
  <2> SUFFICES ASSUME log \in Reporting, ~clash
               PROVE  failed' <=> fate' = "failed"
    BY <1>1 DEF ErrorsAreTrue
  <2>1. fate' = how /\ ~failed
    BY <1>1, <1>9 DEF LogInv, Quiet
  <2>2. CASE r.st = "done"
    BY <1>3, <2>1, <2>2
  <2>3. CASE r.st # "done"
    <3>1. fate' = "failed"
      BY <2>1, <2>3
    <3>2. failed' = (log \in Reporting)
      BY <1>4, <2>3
    <3> QED
      BY <3>1, <3>2, Zenon
  <2> QED
    BY <2>2, <2>3
<1>15. LogSpinnersAreHonest'
  <2>1. ~spinning'
    BY <1>1
  <2>2. ASSUME PanelSpins', ~clash PROVE fate' = "failed"
    <3>1. ~answer'.got
      BY <2>2 DEF PanelSpins
    <3>2. r.st # "done"
      BY <1>3, <3>1
    <3> QED
      BY <1>1, <1>9, <2>2, <3>2
  <2> QED
    BY <1>1, <2>1, <2>2 DEF LogSpinnersAreHonest
<1> QED
  BY <1>6, <1>7, <1>8, <1>10, <1>11, <1>12, <1>13, <1>14, <1>15 DEF LogInv

(* A view is opened, and asks. *)
LEMMA OpenLogStep ==
    ASSUME LogInv, OpenLog
    PROVE  LogInv'
<1>1. /\ UNCHANGED <<log, controls, edited, answer, entries, routed, looks, slips>>
      /\ up' = TRUE
  BY DEF OpenLog
<1>2. up' \in BOOLEAN
  BY <1>1, Zenon
<1>3. Rest' /\ ClientPage' /\ controls \in Controls
  BY <1>1, <1>2 DEF LogInv, LogTypeOK, Rest, ClientPage
<1>4. LoadLogs(controls) /\ controls' = controls
  BY <1>1 DEF OpenLog
<1> QED
  BY <1>3, <1>4, LoadStep

(* What the user does is counted, and leaves the server alone. *)
LEMMA LooksStep ==
    ASSUME LogInv, Looks
    PROVE  looks' \in 0 .. MaxLogActs /\ UNCHANGED <<log, entries, routed, slips>>
  BY LogBounds DEF LogInv, LogTypeOK, Looks

(* The controls are changed, or the same asked for again. *)
LEMMA ChangeControlsStep ==
    ASSUME LogInv, NEW v \in Controls, Turned(v), ChangeControls(v)
    PROVE  LogInv'
<1>1. /\ controls' = v /\ edited' = FALSE
      /\ UNCHANGED <<up, answer, log, entries, routed, slips>>
      /\ looks' \in 0 .. MaxLogActs
  BY LooksStep DEF ChangeControls
<1>2. edited' \in BOOLEAN
  BY <1>1, Zenon
<1>3. Rest' /\ ClientPage'
  BY <1>1, <1>2 DEF LogInv, LogTypeOK, Rest, ClientPage, Turned
<1>4. LoadLogs(v)
  BY DEF ChangeControls
<1> QED
  BY <1>1, <1>3, <1>4, LoadStep

(* The panel is opened for a client, or for another one. *)
LEMMA OpenClientStatsStep ==
    ASSUME LogInv, NEW f \in Filters, OpenClientStats(f)
    PROVE  LogInv'
<1>1. /\ controls' = FirstOf(f) /\ answer' = NoRows
      /\ UNCHANGED <<up, edited, log, entries, routed, slips>>
      /\ looks' \in 0 .. MaxLogActs
      /\ LoadLogs(FirstOf(f))
  BY LooksStep DEF OpenClientStats
<1>2. FirstOf(f) \in Controls
  BY DEF FirstOf, Controls
<1>3. NoRows \in [got : BOOLEAN, view : Controls, total : 0 .. MaxEntries]
  BY NoRowsOK
<1>4. Rest' /\ ClientPage'
  BY <1>1, <1>2, <1>3 DEF LogInv, LogTypeOK, Rest, ClientPage, FirstOf
<1> QED
  BY <1>1, <1>2, <1>4, LoadStep

(* The filters are applied. *)
LEMMA ApplyStep ==
    ASSUME LogInv, HandleApplyFilters
    PROVE  LogInv'
<1>1. CASE controls.page # 1
  BY <1>1, ApplyTwice
<1>2. CASE controls.page = 1
  <2>1. /\ controls' = [controls EXCEPT !.page = 1] /\ edited' = FALSE
        /\ UNCHANGED <<up, answer, log, entries, routed, slips>>
        /\ looks' \in 0 .. MaxLogActs
    BY LooksStep DEF HandleApplyFilters
  <2>2. controls \in Controls
    BY DEF LogInv, LogTypeOK
  <2>3. controls' = controls
    BY <1>2, <2>1, <2>2 DEF Controls
  <2>4. edited' \in BOOLEAN
    BY <2>1, Zenon
  <2>5. Rest' /\ ClientPage'
    BY <2>1, <2>3, <2>4 DEF LogInv, LogTypeOK, Rest, ClientPage
  <2>6. LoadLogs(controls)
    <3> DEFINE one == {LogRequest(newest + 1, controls)}
    <3>1. Load(one \cup {})
      BY <1>2, Zenon DEF HandleApplyFilters
    <3>2. one \cup {} = one
      OBVIOUS
    <3> QED
      BY <3>1, <3>2, Zenon DEF LoadLogs
  <2> QED
    BY <2>2, <2>3, <2>5, <2>6, LoadStep
<1> QED
  BY <1>1, <1>2

(* A view is left: nothing is asked for any more. *)
LEMMA LeaveLogStep ==
    ASSUME LogInv, LeaveLog
    PROVE  LogInv'
<1>1. /\ UNCHANGED <<log, entries, routed, slips>>
      /\ looks' \in 0 .. MaxLogActs
      /\ log # "clientstats"
      /\ controls' = FirstOf("") /\ answer' = NoRows
      /\ asking' = {} /\ newest' = 0 /\ fate' = "none"
      /\ up' = FALSE /\ edited' = FALSE /\ spinning' = FALSE /\ failed' = FALSE
      /\ clash' = FALSE /\ patient' = TRUE
  BY LooksStep DEF LeaveLog
<1>2. /\ up' \in BOOLEAN /\ edited' \in BOOLEAN /\ spinning' \in BOOLEAN /\ failed' \in BOOLEAN
      /\ clash' \in BOOLEAN /\ patient' \in BOOLEAN
  BY <1>1, Zenon
<1>3. controls' \in Controls /\ NoRows \in [got : BOOLEAN, view : Controls, total : 0 .. MaxEntries]
  BY <1>1, FirstIsThere, NoRowsOK, Zenon
<1>4. answer' \in [got : BOOLEAN, view : Controls, total : 0 .. MaxEntries] /\ newest' \in Nat
  BY <1>1, <1>3
<1>5. LogTypeOK'
  BY <1>1, <1>2, <1>3, <1>4 DEF LogInv, LogTypeOK
<1>6. Numbered' /\ Alone' /\ Quiet' /\ NewestOnce' /\ NewestAsksForTheControls'
  BY <1>1 DEF Numbered, Alone, Quiet, NewestOnce, NewestAsksForTheControls
<1>7. ClientPage' /\ PatientSeesControls' /\ LogSpinnersAreHonest'
  BY <1>1 DEF ClientPage, PatientSeesControls, Settled, LogSpinnersAreHonest, PanelSpins
<1>8. ErrorsAreTrue'
  BY <1>1 DEF ErrorsAreTrue
<1> QED
  BY <1>5, <1>6, <1>7, <1>8 DEF LogInv

(* Typing asks for nothing. *)
LEMMA TypeFilterStep ==
    ASSUME LogInv, NEW f \in Filters, TypeFilter(f)
    PROVE  LogInv'
<1>1. /\ controls' = [controls EXCEPT !.filter = f] /\ edited' = TRUE
      /\ UNCHANGED <<up, answer, spinning, failed, asking, newest, fate, clash, patient>>
      /\ UNCHANGED <<log, entries, routed, slips>>
      /\ looks' \in 0 .. MaxLogActs
      /\ log = "historical"
  BY LooksStep DEF TypeFilter
<1>2. controls \in Controls
  BY DEF LogInv, LogTypeOK
<1>3. controls' \in Controls /\ controls'.page = controls.page
  BY <1>1, <1>2 DEF Controls
<1>4. edited' \in BOOLEAN
  BY <1>1, Zenon
<1>5. LogTypeOK'
  BY <1>1, <1>3, <1>4 DEF LogInv, LogTypeOK
<1>6. Numbered' /\ Alone' /\ Quiet' /\ NewestOnce' /\ ClientPage'
  BY <1>1 DEF LogInv, Numbered, Alone, Quiet, NewestOnce, ClientPage
<1>7. \A v : Suits(v) => (v.page = controls'.page /\ edited')
  BY <1>1, <1>3 DEF Suits
<1>8. NewestAsksForTheControls' /\ PatientSeesControls'
  BY <1>1, <1>3 DEF LogInv, NewestAsksForTheControls, PatientSeesControls, Settled, Suits
<1>9. ErrorsAreTrue' /\ LogSpinnersAreHonest'
  BY <1>1 DEF LogInv, ErrorsAreTrue, LogSpinnersAreHonest, PanelSpins
<1> QED
  BY <1>5, <1>6, <1>8, <1>9 DEF LogInv

(* Nor does closing the panel. *)
LEMMA CloseClientStatsStep ==
    ASSUME LogInv, CloseClientStats
    PROVE  LogInv'
<1>1. /\ controls' = FirstOf("")
      /\ UNCHANGED <<up, edited, answer, spinning, failed, asking, newest, fate, clash, patient>>
      /\ UNCHANGED <<log, entries, routed, slips>>
      /\ looks' \in 0 .. MaxLogActs
      /\ log = "clientstats"
  BY LooksStep DEF CloseClientStats
<1>2. controls' \in Controls /\ controls'.page = controls.page /\ controls'.filter = ""
  BY <1>1, FirstIsThere DEF LogInv, ClientPage, FirstOf
<1>3. LogTypeOK'
  BY <1>1, <1>2 DEF LogInv, LogTypeOK
<1>4. Numbered' /\ Alone' /\ Quiet' /\ NewestOnce' /\ ClientPage'
  BY <1>1, <1>2 DEF LogInv, Numbered, Alone, Quiet, NewestOnce, ClientPage
<1>5. NewestAsksForTheControls' /\ PatientSeesControls'
  BY <1>1, <1>2 DEF LogInv, NewestAsksForTheControls, PatientSeesControls, Settled, Suits
<1>6. ErrorsAreTrue' /\ LogSpinnersAreHonest'
  BY <1>1, <1>2 DEF LogInv, ErrorsAreTrue, LogSpinnersAreHonest, PanelSpins
<1> QED
  BY <1>3, <1>4, <1>5, <1>6 DEF LogInv

(* The log grows unseen. *)
LEMMA LogGrowsStep ==
    ASSUME LogInv, LogGrows
    PROVE  LogInv'
<1>1. /\ UNCHANGED <<log, up, controls, edited, answer, spinning, failed, newest, fate, clash, patient>>
      /\ UNCHANGED <<routed, looks, asking, slips>>
      /\ entries' \in 0 .. MaxEntries
  BY LogBounds DEF LogInv, LogTypeOK, LogGrows, Elsewhere
<1>2. LogTypeOK'
  BY <1>1 DEF LogInv, LogTypeOK
<1>3. Numbered' /\ Alone' /\ Quiet' /\ NewestOnce' /\ ClientPage'
  BY <1>1 DEF LogInv, Numbered, Alone, Quiet, NewestOnce, ClientPage
<1> QED
  BY <1>1, <1>2, <1>3
  DEF LogInv, NewestAsksForTheControls, PatientSeesControls, Settled, Suits,
      ErrorsAreTrue, LogSpinnersAreHonest, PanelSpins

(* A step of the other half of the page, or none.                            *)
LEMMA LogStays ==
    ASSUME LogInv, UNCHANGED logVars
    PROVE  LogInv'
<1>1. UNCHANGED <<log, up, controls, edited, answer, spinning, failed, asking, newest, fate, clash,
                  patient, entries, routed, looks, slips>>
  BY DEF logVars, viewVars
<1>2. LogTypeOK'
  BY <1>1 DEF LogInv, LogTypeOK
<1>3. Numbered' /\ Alone' /\ Quiet' /\ NewestOnce' /\ ClientPage'
  BY <1>1 DEF LogInv, Numbered, Alone, Quiet, NewestOnce, ClientPage
<1> QED
  BY <1>1, <1>2, <1>3
  DEF LogInv, NewestAsksForTheControls, PatientSeesControls, Settled, Suits,
      ErrorsAreTrue, LogSpinnersAreHonest, PanelSpins

(* A view begins with nothing asked for, but for the panel, which is closed. *)
LEMMA LogInitInv ==
    ASSUME LogInit
    PROVE  LogInv
<1>0. controls = FirstOf("")
  BY DEF LogInit
<1>1. /\ answer = NoRows /\ asking = {} /\ newest = 0 /\ fate = "none"
      /\ looks = 0 /\ slips = 0
      /\ edited = FALSE /\ spinning = FALSE /\ failed = FALSE /\ clash = FALSE /\ patient = TRUE
  BY DEF LogInit
<1>2. controls \in Controls /\ controls.page = 1
  BY <1>0, FirstIsThere, Zenon
<1>3. up \in BOOLEAN
  <2>1. (log = "clientstats") \in BOOLEAN
    OBVIOUS
  <2>2. up = (log = "clientstats")
    BY DEF LogInit
  <2> QED
    BY <2>1, <2>2, Zenon
<1>4. routed \in BOOLEAN
  <2>1. (log \notin NotServed) \in BOOLEAN
    OBVIOUS
  <2>2. routed \in {log \notin NotServed, TRUE}
    BY DEF LogInit
  <2> QED
    BY <2>1, <2>2, Zenon
<1>5. /\ edited \in BOOLEAN /\ spinning \in BOOLEAN /\ failed \in BOOLEAN
      /\ clash \in BOOLEAN /\ patient \in BOOLEAN
  BY <1>1, Zenon
<1>6. entries \in 0 .. MaxEntries /\ 0 \in 0 .. MaxEntries
  <2>1. entries \in IF log = "off" THEN {0} ELSE 0 .. MaxEntries
    BY DEF LogInit
  <2> QED
    BY <2>1, LogBounds
<1>7. answer \in [got : BOOLEAN, view : Controls, total : 0 .. MaxEntries]
  BY <1>1, NoRowsOK
<1>8. looks \in 0 .. MaxLogActs /\ slips \in 0 .. MaxLogFaults
  BY <1>1, LogBounds
<1>9. LogTypeOK
  BY <1>1, <1>2, <1>3, <1>4, <1>5, <1>6, <1>7, <1>8 DEF LogTypeOK
<1>10. ClientPage /\ Numbered /\ Alone /\ Quiet /\ NewestOnce /\ NewestAsksForTheControls
  BY <1>1, <1>2 DEF ClientPage, Numbered, Alone, Quiet, NewestOnce, NewestAsksForTheControls
<1>11. PatientSeesControls /\ LogSpinnersAreHonest
  <2>1. ~PanelSpins
    <3>1. controls.filter = ""
      BY <1>0, FirstIsThere, Zenon
    <3> QED
      BY <3>1, Zenon DEF PanelSpins
  <2> QED
    BY <1>1, <2>1 DEF PatientSeesControls, Settled, LogSpinnersAreHonest
<1>12. ErrorsAreTrue
  BY <1>1 DEF ErrorsAreTrue
<1> QED
  BY <1>9, <1>10, <1>11, <1>12 DEF LogInv

(* Every step of a view keeps the invariant. *)
LEMMA LogNextInv ==
    ASSUME LogInv, LogNext
    PROVE  LogInv'
<1>1. \/ OpenLog \/ LeaveLog
      \/ \E v \in Controls : Turned(v) /\ ChangeControls(v)
      \/ \E f \in Filters : TypeFilter(f) \/ OpenClientStats(f)
      \/ HandleApplyFilters \/ CloseClientStats
      \/ ServeLook \/ LookFails \/ LogGrows
      \/ \E r \in asking : LogsArrive(r) \/ LogsFail(r)
  BY LogCases DEF LogInv
<1> QED
  BY <1>1, OpenLogStep, LeaveLogStep, ChangeControlsStep, TypeFilterStep, OpenClientStatsStep,
     ApplyStep, CloseClientStatsStep, ServeStep, LogGrowsStep, ArriveStep, Zenon

------------------------------------------------------------------------------
(* The pager of the tabs whose filters take effect at once.                  *)

Paged == PagedTabs \ {"historical"}
HitsNow(f) == Hits[f][entries]

(* What has been counted is no more than there is now. *)
CountsAreOld ==
    /\ \A r \in asking : r.st = "done" => r.total <= HitsNow(r.view.filter)
    /\ Settled => answer.total <= HitsNow(controls.filter)

(* Who waits for each answer has room: the server has the page asked for,    *)
(* and had it when it counted.                                               *)
Room ==
    patient /\ controls.page # 1 /\ fate # "failed" =>
        /\ \A r \in asking : r.n = newest
        /\ controls.page <= TotalPages(HitsNow(controls.filter))
        /\ \A r \in asking : r.st = "done" => controls.page <= TotalPages(r.total)
        /\ asking = {} => controls.page <= TotalPages(answer.total)

PagerInv == (edited => log = "historical") /\ (log \in Paged => CountsAreOld /\ Room)

(* More entries are on no fewer pages. *)
LEMMA MorePages ==
    ASSUME NEW a \in Nat, NEW b \in Nat, a <= b
    PROVE  TotalPages(a) <= TotalPages(b) /\ TotalPages(a) \in Nat
<1>1. PageSize \in Nat \ {0}
  BY LogTabsAssumption, Zenon
<1> QED
  BY <1>1 DEF TotalPages

(* More entries leave no fewer after a filter. *)
LEMMA HitsGrow ==
    ASSUME NEW f \in Filters, NEW m \in 0 .. MaxEntries, NEW n \in 0 .. MaxEntries, m <= n
    PROVE  Hits[f][m] <= Hits[f][n] /\ Hits[f][m] \in Nat /\ Hits[f][n] \in Nat
<1>1. Hits \in [Filters -> [0 .. MaxEntries -> 0 .. MaxEntries]]
  BY LogTabsAssumption, Zenon
<1>2. \A g \in Filters : \A i, j \in 0 .. MaxEntries : i <= j => Hits[g][i] <= Hits[g][j]
  BY LogTabsAssumption, Zenon
<1>3. Hits[f][m] \in 0 .. MaxEntries /\ Hits[f][n] \in 0 .. MaxEntries
  BY <1>1
<1> QED
  BY <1>2, <1>3, LogBounds

(* What a request of these tabs asks for, and what is counted, are numbers.  *)
LEMMA PagerTypes ==
    ASSUME LogInv
    PROVE  /\ entries \in 0 .. MaxEntries
           /\ controls.page \in Nat \ {0} /\ controls.filter \in Filters
           /\ answer.total \in Nat
           /\ \A f \in Filters : HitsNow(f) \in Nat
           /\ \A r \in asking : r.total \in Nat /\ r.view.filter \in Filters
<1>1. /\ entries \in 0 .. MaxEntries /\ controls \in Controls /\ answer.total \in 0 .. MaxEntries
      /\ \A r \in asking : r.view \in Controls /\ r.total \in 0 .. MaxEntries
  BY DEF LogInv, LogTypeOK
<1>2. \A f \in Filters : HitsNow(f) \in Nat
  BY <1>1, HitsGrow DEF HitsNow
<1> QED
  BY <1>1, <1>2, LogBounds DEF Controls

(* The newest request of these tabs asks for the controls to the letter.     *)
LEMMA NewestIsExact ==
    ASSUME LogInv, PagerInv, log \in Paged, NEW r \in asking, r.n = newest
    PROVE  r.view.page = controls.page /\ r.view.filter = controls.filter
<1>1. ~edited /\ log # "clientstats"
  BY DEF PagerInv, Paged, PagedTabs
<1> QED
  BY <1>1 DEF LogInv, NewestAsksForTheControls, Suits

(* The pager offers pages that there are; a filter begins at the first page. *)
Offered(v) ==
    v.page = 1 \/ (v.filter = controls.filter /\ (v.page <= controls.page \/ v.page <= TotalPages(answer.total)))

(* The steps of these tabs that ask, ask for no other. *)
LEMMA OfferedOnly ==
    ASSUME LogInv, log \in Paged, LogNext
    PROVE  \/ \E v \in Controls : Offered(v) /\ controls' = v /\ LoadLogs(v)
                                  /\ UNCHANGED <<log, entries>> /\ (edited' => edited)
           \/ LeaveLog \/ ServeLook \/ LookFails \/ LogGrows
           \/ \E r \in asking : LogsArrive(r) \/ LogsFail(r)
<1>1. controls \in Controls /\ controls.page \in Nat \ {0}
  BY DEF LogInv, LogTypeOK, Controls
<1>2. log \notin {"historical", "clientstats", "analytics"}
  BY DEF Paged, PagedTabs
<1>3. ASSUME NEW v \in Controls, ChangeControls(v), Offered(v)
      PROVE  \E w \in Controls : Offered(w) /\ controls' = w /\ LoadLogs(w)
                                 /\ UNCHANGED <<log, entries>> /\ (edited' => edited)
  <2>1. controls' = v /\ LoadLogs(v) /\ UNCHANGED <<log, entries>> /\ edited' = FALSE
    BY <1>3, Zenon DEF ChangeControls, Looks
  <2> QED
    BY <1>3, <2>1, Zenon
<1>4. Offered(controls)
  BY <1>1 DEF Offered
<1>5. CASE OpenLog
  <2>1. LoadLogs(controls) /\ UNCHANGED <<controls, edited, log, entries>>
    BY <1>5, Zenon DEF OpenLog
  <2> QED
    BY <1>1, <1>4, <2>1
<1>6. CASE PagerPrev
  <2> DEFINE v == [controls EXCEPT !.page = @ - 1]
  <2>1. controls.page > 1 /\ ChangeControls(v)
    BY <1>6 DEF PagerPrev
  <2>2. v \in Controls /\ Offered(v)
    BY <1>1, <2>1 DEF Controls, Offered
  <2> HIDE DEF v
  <2> QED
    BY <1>3, <2>1, <2>2
<1>7. CASE PagerNext
  <2> DEFINE v == [controls EXCEPT !.page = @ + 1]
  <2>1. controls.page < TotalPages(answer.total) /\ ChangeControls(v)
    BY <1>7 DEF PagerNext
  <2>2. TotalPages(answer.total) \in Nat
    BY MorePages, PagerTypes
  <2>3. v \in Controls /\ Offered(v)
    BY <1>1, <2>1, <2>2 DEF Controls, Offered
  <2> HIDE DEF v
  <2> QED
    BY <1>3, <2>1, <2>3
<1>8. ASSUME RefreshLogs
      PROVE  \E w \in Controls : Offered(w) /\ controls' = w /\ LoadLogs(w)
                                 /\ UNCHANGED <<log, entries>> /\ (edited' => edited)
  <2>1. ChangeControls(controls)
    BY <1>8 DEF RefreshLogs
  <2> QED
    BY <1>1, <1>3, <1>4, <2>1
<1>9. ASSUME NEW f \in Filters, FilterAudit(f) \/ SearchReputation(f)
      PROVE  \E w \in Controls : Offered(w) /\ controls' = w /\ LoadLogs(w)
                                 /\ UNCHANGED <<log, entries>> /\ (edited' => edited)
  <2>1. FirstOf(f) \in Controls /\ Offered(FirstOf(f))
    BY FirstOfFilter DEF Offered
  <2>2. ChangeControls(FirstOf(f))
    BY <1>9, Zenon DEF FilterAudit, SearchReputation
  <2> QED
    BY <1>3, <2>1, <2>2
<1>10. ~HistoricalHeader /\ ~HistoricalFilters /\ ~HistoricalPager /\ ~AnalyticsHeader /\ ~ClientRow /\ ~StatsPanel
  BY <1>2 DEF HistoricalHeader, HistoricalFilters, HistoricalPager, AnalyticsHeader, ClientRow, StatsPanel,
              HandleApplyFilters, TypeFilter, SetPeriod, OpenClientStats, CloseClientStats
<1>11. \/ OpenLog \/ LeaveLog \/ RefreshLogs \/ PagerPrev \/ PagerNext
       \/ \E f \in Filters : FilterAudit(f) \/ SearchReputation(f)
       \/ ServeLook \/ LookFails \/ LogGrows
       \/ \E r \in asking : LogsArrive(r) \/ LogsFail(r)
  BY <1>10, Zenon DEF LogNext, LogUser, LogAnswers, AuditHeader, AuditFilters, AuditPager,
                      ReputationHeader, ReputationPager
<1> QED
  BY <1>5, <1>6, <1>7, <1>8, <1>9, <1>11, Zenon

(* A page is asked for, which is there by the last count of who has waited.  *)
LEMMA PagerLoads ==
    ASSUME LogInv, PagerInv, log \in Paged, NEW v \in Controls, Offered(v), controls' = v, LoadLogs(v),
           UNCHANGED <<log, entries>>
    PROVE  CountsAreOld' /\ Room'
<1> DEFINE new == LogRequest(newest + 1, v)
<1>1. /\ asking' = asking \cup {new} /\ newest' = newest + 1 /\ fate' = "none"
      /\ new.n = newest + 1 /\ new.st = "sent"
  BY LoadOne DEF LogRequest
<1>2. patient' = ((\A r \in {new} : r.view.page = 1) \/ (patient /\ Settled))
  BY Zenon DEF LoadLogs, Load
<1>3. new.view = v
  BY DEF LogRequest
<1> HIDE DEF new
<1>4. CountsAreOld /\ Room
  BY DEF PagerInv
<1>5. CountsAreOld'
  BY <1>1, <1>4 DEF CountsAreOld, Settled, HitsNow
<1>6. Room'
  <2> SUFFICES ASSUME patient', v.page # 1
               PROVE  /\ \A r \in asking' : r.n = newest'
                      /\ v.page <= TotalPages(HitsNow(v.filter))
                      /\ \A r \in asking' : r.st = "done" => v.page <= TotalPages(r.total)
    BY <1>1 DEF Room, HitsNow
  <2>1. patient /\ Settled
    BY <1>2, <1>3
  <2>2. asking = {} /\ fate = "ok"
    BY <2>1 DEF Settled
  <2>3. v.filter = controls.filter /\ (v.page <= controls.page \/ v.page <= TotalPages(answer.total))
    BY DEF Offered
  <2>4. answer.total <= HitsNow(controls.filter) /\ answer.total \in Nat /\ HitsNow(controls.filter) \in Nat
    BY <1>4, <2>1, PagerTypes DEF CountsAreOld
  <2>5. /\ TotalPages(answer.total) <= TotalPages(HitsNow(controls.filter))
        /\ TotalPages(answer.total) \in Nat /\ TotalPages(HitsNow(controls.filter)) \in Nat
    BY <2>4, MorePages
  <2>6. v.page \in Nat \ {0} /\ controls.page \in Nat \ {0}
    BY PagerTypes DEF Controls
  <2>7. controls.page # 1 => controls.page <= TotalPages(HitsNow(controls.filter))
    BY <1>4, <2>1, <2>2 DEF Room
  <2>8. v.page <= TotalPages(HitsNow(controls.filter))
    BY <2>3, <2>5, <2>6, <2>7
  <2> QED
    BY <1>1, <2>2, <2>3, <2>8
<1> QED
  BY <1>5, <1>6

(* A request is answered, with the count of now, or cannot be. *)
LEMMA PagerServes ==
    ASSUME LogInv, PagerInv, log \in Paged, ServeLook \/ LookFails
    PROVE  CountsAreOld' /\ Room' /\ log' = log /\ edited' = edited
<1>1. UNCHANGED <<log, controls, edited, answer, newest, fate, clash, patient, entries>>
  BY DEF ServeLook, LookFails, Elsewhere
<1>2. CountsAreOld /\ Room
  BY DEF PagerInv
<1>3. \A r \in asking : r \in Requests
  BY DEF LogInv, LogTypeOK, Requests
<1>4. PICK r \in asking : \E q : /\ asking' = (asking \ {r}) \cup {q} /\ q.n = r.n /\ q.view = r.view
                                 /\ q.st = "done" => q.total = HitsNow(r.view.filter)
  <2>1. ASSUME NEW r \in asking, Becomes(r, "failed")
        PROVE  \E q : /\ asking' = (asking \ {r}) \cup {q} /\ q.n = r.n /\ q.view = r.view
                      /\ q.st = "done" => q.total = HitsNow(r.view.filter)
    <3> DEFINE q == [r EXCEPT !.st = "failed"]
    <3>1. q.n = r.n /\ q.view = r.view /\ q.st = "failed"
      BY <1>3 DEF Requests
    <3>2. asking' = (asking \ {r}) \cup {q}
      BY <2>1 DEF Becomes
    <3> HIDE DEF q
    <3> QED
      BY <3>1, <3>2
  <2>2. ASSUME NEW r \in asking,
               asking' = (asking \ {r}) \cup {[r EXCEPT !.st = "done", !.total = Hits[r.view.filter][entries]]}
        PROVE  \E q : /\ asking' = (asking \ {r}) \cup {q} /\ q.n = r.n /\ q.view = r.view
                      /\ q.st = "done" => q.total = HitsNow(r.view.filter)
    <3> DEFINE q == [r EXCEPT !.st = "done", !.total = Hits[r.view.filter][entries]]
    <3>1. q.n = r.n /\ q.view = r.view /\ q.total = HitsNow(r.view.filter)
      BY <1>3 DEF Requests, HitsNow
    <3> HIDE DEF q
    <3> QED
      BY <2>2, <3>1 DEF q
  <2> QED
    BY <2>1, <2>2, Zenon DEF ServeLook, LookFails
<1>5. PICK q : /\ asking' = (asking \ {r}) \cup {q} /\ q.n = r.n /\ q.view = r.view
               /\ q.st = "done" => q.total = HitsNow(r.view.filter)
  BY <1>4
<1>6. CountsAreOld'
  <2>1. HitsNow(r.view.filter) \in Nat
    BY PagerTypes
  <2>2. \A x \in asking' : x.st = "done" => x.total <= HitsNow(x.view.filter)
    BY <1>2, <1>5, <2>1 DEF CountsAreOld
  <2>3. asking' # {}
    BY <1>5
  <2> QED
    BY <1>1, <2>2, <2>3 DEF CountsAreOld, HitsNow, Settled
<1>7. Room'
  <2> SUFFICES ASSUME patient, controls.page # 1, fate # "failed"
               PROVE  /\ \A x \in asking' : x.n = newest
                      /\ controls.page <= TotalPages(HitsNow(controls.filter))
                      /\ \A x \in asking' : x.st = "done" => controls.page <= TotalPages(x.total)
    BY <1>1, <1>5 DEF Room, HitsNow
  <2>1. /\ \A x \in asking : x.n = newest
        /\ controls.page <= TotalPages(HitsNow(controls.filter))
        /\ \A x \in asking : x.st = "done" => controls.page <= TotalPages(x.total)
    BY <1>2 DEF Room
  <2>2. r.view.filter = controls.filter
    BY <2>1, NewestIsExact
  <2> QED
    BY <1>5, <2>1, <2>2
<1> QED
  BY <1>1, <1>6, <1>7

(* The log grows: there is as much room or more. *)
LEMMA PagerGrows ==
    ASSUME LogInv, PagerInv, log \in Paged, LogGrows
    PROVE  CountsAreOld' /\ Room' /\ log' = log /\ edited' = edited
<1>1. UNCHANGED <<log, controls, edited, answer, newest, fate, clash, patient, asking>>
  BY DEF LogGrows, Elsewhere
<1>2. CountsAreOld /\ Room
  BY DEF PagerInv
<1>3. ASSUME NEW f \in Filters
      PROVE  /\ HitsNow(f) <= Hits[f][entries'] /\ HitsNow(f) \in Nat /\ Hits[f][entries'] \in Nat
             /\ TotalPages(HitsNow(f)) <= TotalPages(Hits[f][entries'])
             /\ TotalPages(HitsNow(f)) \in Nat /\ TotalPages(Hits[f][entries']) \in Nat
  <2>1. entries \in 0 .. MaxEntries /\ entries' \in 0 .. MaxEntries /\ entries <= entries'
    BY PagerTypes, LogBounds DEF LogGrows
  <2>2. HitsNow(f) <= Hits[f][entries'] /\ HitsNow(f) \in Nat /\ Hits[f][entries'] \in Nat
    BY <2>1, HitsGrow DEF HitsNow
  <2> QED
    BY <2>2, MorePages
<1>4. CountsAreOld'
  <2>1. ASSUME NEW r \in asking, r.st = "done"
        PROVE  r.total <= Hits[r.view.filter][entries']
    <3>1. r.total <= HitsNow(r.view.filter) /\ r.total \in Nat /\ r.view.filter \in Filters
      BY <1>2, <2>1, PagerTypes DEF CountsAreOld
    <3> QED
      BY <1>3, <3>1
  <2>2. ASSUME Settled
        PROVE  answer.total <= Hits[controls.filter][entries']
    <3>1. answer.total <= HitsNow(controls.filter) /\ answer.total \in Nat /\ controls.filter \in Filters
      BY <1>2, <2>2, PagerTypes DEF CountsAreOld
    <3> QED
      BY <1>3, <3>1
  <2> QED
    BY <1>1, <2>1, <2>2 DEF CountsAreOld, Settled, HitsNow
<1>5. Room'
  <2>1. controls.page \in Nat /\ controls.filter \in Filters
    BY PagerTypes
  <2>2. controls.page <= TotalPages(HitsNow(controls.filter)) => controls.page <= TotalPages(Hits[controls.filter][entries'])
    BY <1>3, <2>1
  <2> QED
    BY <1>1, <1>2, <2>2 DEF Room, HitsNow
<1> QED
  BY <1>1, <1>4, <1>5

(* The answer arrives: the page asked for is among those it counts.          *)
LEMMA PagerArrives ==
    ASSUME LogInv, PagerInv, log \in Paged, NEW r \in asking, LogsArrive(r) \/ LogsFail(r)
    PROVE  CountsAreOld' /\ Room' /\ log' = log /\ edited' = edited
<1>1. /\ asking' = asking \ {r}
      /\ UNCHANGED <<log, controls, edited, newest, clash, patient, entries>>
      /\ r.n # newest => fate' = fate
  BY DEF LogsArrive, LogsFail, Ends
<1>2. \/ r.st = "done" /\ answer'.total = r.total
      \/ r.n = newest => fate' = "failed"
  BY DEF LogsArrive, LogsFail, Ends
<1>3. CountsAreOld /\ Room
  BY DEF PagerInv
<1>4. CountsAreOld'
  <2>1. ASSUME Settled'
        PROVE  answer'.total <= HitsNow(controls.filter)
    <3>1. r.n = newest
      BY <1>1, <2>1 DEF Settled, LogInv, Alone
    <3>2. r.st = "done" /\ answer'.total = r.total
      BY <1>2, <2>1, <3>1 DEF Settled
    <3>3. r.view.filter = controls.filter
      BY <3>1, NewestIsExact
    <3> QED
      BY <1>3, <3>2, <3>3 DEF CountsAreOld
  <2> QED
    BY <1>1, <1>3, <2>1 DEF CountsAreOld, HitsNow
<1>5. Room'
  <2> SUFFICES ASSUME patient, controls.page # 1, fate' # "failed"
               PROVE  /\ \A x \in asking' : x.n = newest
                      /\ controls.page <= TotalPages(HitsNow(controls.filter))
                      /\ \A x \in asking' : x.st = "done" => controls.page <= TotalPages(x.total)
                      /\ controls.page <= TotalPages(answer'.total)
    BY <1>1 DEF Room, HitsNow
  <2>1. fate # "failed"
    BY <1>1 DEF LogInv, NewestOnce
  <2>2. /\ \A x \in asking : x.n = newest
        /\ controls.page <= TotalPages(HitsNow(controls.filter))
        /\ \A x \in asking : x.st = "done" => controls.page <= TotalPages(x.total)
    BY <1>3, <2>1 DEF Room
  <2>3. r.st = "done" /\ answer'.total = r.total
    BY <1>2, <2>2
  <2> QED
    BY <1>1, <2>2, <2>3
<1> QED
  BY <1>1, <1>4, <1>5

(* A tab is left: nothing is on the screen. *)
LEMMA PagerLeaves ==
    ASSUME LeaveLog
    PROVE  CountsAreOld' /\ Room' /\ log' = log /\ ~edited'
<1>1. /\ asking' = {} /\ fate' = "none" /\ controls' = FirstOf("") /\ edited' = FALSE
      /\ log' = log
  BY DEF LeaveLog, Looks
<1>2. controls'.page = 1
  BY <1>1, FirstIsThere, Zenon
<1> QED
  BY <1>1, <1>2 DEF CountsAreOld, Room, Settled

(* Only in the historical logs does typing wait. *)
LEMMA EditedStays ==
    ASSUME LogNext, edited => log = "historical"
    PROVE  log' = log /\ (edited' => log = "historical")
<1>1. ASSUME NEW v, ChangeControls(v)
      PROVE  log' = log /\ ~edited'
  BY <1>1 DEF ChangeControls, Looks
<1>2. CASE OpenLog \/ ServeLook \/ LookFails \/ LogGrows \/ LogAnswers
  <2>1. UNCHANGED <<log, edited>>
    <3>1. CASE OpenLog
      BY <3>1 DEF OpenLog
    <3>2. CASE ServeLook \/ LookFails \/ LogGrows
      <4>1. Elsewhere
        BY <3>2, Zenon DEF ServeLook, LookFails, LogGrows
      <4> QED
        BY <4>1 DEF Elsewhere
    <3>3. CASE LogAnswers
      BY <3>3 DEF LogAnswers, LogsArrive, LogsFail, Ends
    <3> QED
      BY <1>2, <3>1, <3>2, <3>3
  <2> QED
    BY <2>1
<1>3. CASE LeaveLog
  BY <1>3, PagerLeaves
<1>4. ASSUME RefreshLogs \/ PagerPrev \/ PagerNext
      PROVE  log' = log /\ ~edited'
  BY <1>1, <1>4, Zenon DEF RefreshLogs, PagerPrev, PagerNext
<1>5. ASSUME NEW f, FilterAudit(f) \/ SearchReputation(f) \/ SetPeriod(f)
      PROVE  log' = log /\ ~edited'
  BY <1>1, <1>5, Zenon DEF FilterAudit, SearchReputation, SetPeriod
<1>6. ASSUME NEW f, TypeFilter(f)
      PROVE  log' = log /\ log = "historical"
  BY <1>6 DEF TypeFilter, Looks
<1>7. CASE HandleApplyFilters
  BY <1>7 DEF HandleApplyFilters, Looks
<1>8. ASSUME NEW f, OpenClientStats(f) \/ CloseClientStats
      PROVE  log' = log /\ edited' = edited
  BY <1>8 DEF OpenClientStats, CloseClientStats, Looks
<1> QED
  BY <1>2, <1>3, <1>4, <1>5, <1>6, <1>7, <1>8, Zenon
  DEF LogNext, LogUser, HistoricalHeader, HistoricalFilters, HistoricalPager,
      AuditHeader, AuditFilters, AuditPager, ReputationHeader, ReputationPager, AnalyticsHeader,
      ClientRow, StatsPanel

(* Every step keeps the room there is. *)
LEMMA PagerNextInv ==
    ASSUME LogInv, PagerInv, LogNext
    PROVE  PagerInv'
<1>1. log' = log /\ (edited' => log = "historical")
  BY EditedStays DEF PagerInv
<1>2. ASSUME log \in Paged
      PROVE  CountsAreOld' /\ Room'
  BY <1>2, OfferedOnly, PagerLoads, PagerLeaves, PagerServes, PagerGrows, PagerArrives, Zenon
<1> QED
  BY <1>1, <1>2 DEF PagerInv

------------------------------------------------------------------------------
(* The tabs together.                                                        *)

TabsInv == ListSpin /\ LogInv

(* A behaviour of a list and one of a view keep both invariants, whichever   *)
(* of the two takes a step.                                                  *)
THEOREM TabsInvariant == TabsSpec => []TabsInv
<1>1. ASSUME TabsInit
      PROVE  TabsInv
  BY <1>1, ListInitSpin, LogInitInv DEF TabsInit, TabsInv
<1>2. ASSUME TabsInv, [TabsNext]_tabsVars
      PROVE  TabsInv'
  <2>1. CASE ListStep
    BY <1>2, <2>1, ListNextSpin, LogStays DEF TabsInv, ListStep
  <2>2. CASE LogStep
    BY <1>2, <2>2, ListStays, LogNextInv DEF TabsInv, LogStep
  <2>3. CASE UNCHANGED tabsVars
    BY <1>2, <2>3, ListStays, LogStays DEF TabsInv, tabsVars
  <2> QED
    BY <1>2, <2>1, <2>2, <2>3 DEF TabsNext
<1> QED
  BY <1>1, <1>2, PTL DEF TabsSpec

(* The newest request of a view always asks for what its controls say.       *)
THEOREM NewestCorrect == TabsSpec => []NewestAsksForTheControls
<1>1. TabsInv => NewestAsksForTheControls
  BY DEF TabsInv, LogInv
<1> QED
  BY <1>1, TabsInvariant, PTL

(* Who waits for each answer sees the rows of the page and the filter that   *)
(* the controls say.                                                         *)
THEOREM PatientCorrect == TabsSpec => []PatientSeesControls
<1>1. TabsInv => PatientSeesControls
  BY DEF TabsInv, LogInv
<1> QED
  BY <1>1, TabsInvariant, PTL

(* A view that reports errors shows one exactly when the newest request, and *)
(* it was alone, has failed.                                                 *)
THEOREM ErrorsCorrect == TabsSpec => []ErrorsAreTrue
<1>1. TabsInv => ErrorsAreTrue
  BY DEF TabsInv, LogInv
<1> QED
  BY <1>1, TabsInvariant, PTL

(* Every spinner and every disabled button of a tab waits for a request that *)
(* is out.                                                                   *)
THEOREM SpinnersCorrect == TabsSpec => []SpinnersAreHonest
<1>1. TabsInv => SpinnersAreHonest
  BY DEF TabsInv, LogInv, ListSpin, SpinnersAreHonest
<1> QED
  BY <1>1, TabsInvariant, PTL

(* For who waits, the page on the screen is one that exists, so that there   *)
(* is a pager to leave it: the log only grows, and a new filter begins at    *)
(* the first page.                                                           *)
THEOREM PagerCorrect == TabsSpec => []PagerNeverStrands
<1>1. ASSUME TabsInit
      PROVE  PagerInv
  <2>1. /\ asking = {} /\ fate = "none" /\ controls = FirstOf("") /\ edited = FALSE
    BY <1>1, Zenon DEF TabsInit, LogInit
  <2>2. controls.page = 1
    BY <2>1, FirstIsThere, Zenon
  <2> QED
    BY <2>1, <2>2 DEF PagerInv, CountsAreOld, Room, Settled
<1>2. ASSUME TabsInv, PagerInv, [TabsNext]_tabsVars
      PROVE  PagerInv'
  <2>1. CASE LogStep
    BY <1>2, <2>1, PagerNextInv DEF TabsInv, LogStep
  <2>2. CASE UNCHANGED logVars
    <3>1. UNCHANGED <<log, controls, edited, answer, newest, fate, clash, patient, asking, entries>>
      BY <2>2 DEF logVars, viewVars
    <3> QED
      BY <1>2, <3>1 DEF PagerInv, CountsAreOld, Room, Settled, HitsNow
  <2>3. CASE ListStep \/ UNCHANGED tabsVars
    BY <2>2, <2>3 DEF ListStep, tabsVars
  <2> QED
    BY <1>2, <2>1, <2>3 DEF TabsNext
<1>3. PagerInv => PagerNeverStrands
  BY DEF PagerInv, Room, PagerNeverStrands, Paged, Settled
<1>4. TabsSpec => []TabsInv
  BY TabsInvariant
<1> QED
  BY <1>1, <1>2, <1>3, <1>4, PTL DEF TabsSpec

(* What the lists are, and what they keep of the server's rows. *)
ListInv == ListTypes /\ ListBasics /\ Keeps /\ Unmanaged

(* A list keeps its invariant whoever takes a step. *)
THEOREM ListInvariant == TabsSpec => []ListInv
<1>1. ASSUME TabsInit
      PROVE  ListInv
  BY <1>1, TypesAtFirst, BasicsAtFirst, KeepsAtFirst, UnmanagedAtFirst DEF TabsInit, ListInv
<1>2. ASSUME ListInv, [TabsNext]_tabsVars
      PROVE  ListInv'
  <2>1. ListNext \/ UNCHANGED listVars
    BY <1>2 DEF TabsNext, ListStep, LogStep, tabsVars
  <2> QED
    BY <1>2, <2>1, TypesKept, BasicsKept, KeepsKept, UnmanagedKept DEF ListInv
<1> QED
  BY <1>1, <1>2, PTL DEF TabsSpec

(* Everything the tabs keep, send and are answered has its type: no row, no  *)
(* run and no disabled button has a number that was not given out.           *)
THEOREM TabsTypeCorrect == TabsSpec => []TabsTypeOK
<1>1. ListInv => ListTypeOK
  BY TypesEnough DEF ListInv
<1>2. TabsInv => LogTypeOK
  BY DEF TabsInv, LogInv
<1>3. ListInv /\ TabsInv => TabsTypeOK
  BY <1>1, <1>2 DEF TabsTypeOK
<1> QED
  BY <1>3, TabsInvariant, ListInvariant, PTL

(* With no request out and nothing to disturb it, a list shows the server's  *)
(* rows, each once, whichever way it is kept: loaded again, appended to,     *)
(* filtered or mapped over.                                                  *)
THEOREM ListCorrect == TabsSpec => []PatientSeesServer
<1>1. ListInv => PatientSeesServer
  BY KeepsEnough DEF ListInv
<1> QED
  BY <1>1, ListInvariant, PTL

(* On the same terms, the detected addresses that the page offers to add are *)
(* not those of clients it shows.                                            *)
THEOREM DetectedCorrect == TabsSpec => []DetectedAreUnmanaged
<1>1. ListInv => DetectedAreUnmanaged
  BY UnmanagedEnough DEF ListInv
<1> QED
  BY <1>1, ListInvariant, PTL
==============================================================================
