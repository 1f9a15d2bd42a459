-------------------------------- MODULE LogTabs --------------------------------
(* What the admin page only looks at: the query logs, the audit log, the     *)
(* reputation entries, the analytics, the block page, what is known of an    *)
(* address, and the panel with the queries of one client.  Each asks the     *)
(* server when it mounts and when its page, filter, period or client is      *)
(* changed, and shows whatever arrives.                                      *)
(*                                                                           *)
(* The server has one log; a filter leaves some of its entries.  An answer   *)
(* is the page and the filter it was asked for, with the number of entries.  *)
EXTENDS Naturals, FiniteSets

CONSTANTS
    Logs,           \* the views looked at, one in each behaviour
    Filters,        \* "" and texts, periods or clients to choose
    MaxEntries,     \* bound: entries of the log
    Hits,           \* filter -> entries of the log -> how many it leaves
    PageSize,       \* entries of a page
    MaxLogActs,     \* bound: what the user does
    LogPatience,    \* bound: the user acts while at most so many requests are out
    MaxLogFaults    \* bound: refusals and lost answers

PagedTabs == {"historical", "auditlogs", "reputation"}
MountTabs == {"querylog", "blockpage", "ipinfo"}   \* ask once, when they mount
LogViews == PagedTabs \cup MountTabs \cup {"analytics", "clientstats"}

(* Their paths are not among those of the API of this repository. *)
NotServed == {"historical", "reputation", "querylog"}

(* The tabs that have an error to show; the others drop it. *)
Reporting == {"historical", "auditlogs"} \cup MountTabs

ASSUME LogTabsAssumption ==
    /\ Logs \subseteq LogViews \cup {"off"}
    /\ "" \in Filters
    /\ PageSize \in Nat \ {0} /\ MaxEntries \in Nat \ {0}
    /\ Hits \in [Filters -> [0 .. MaxEntries -> 0 .. MaxEntries]]
    /\ \A f \in Filters : \A m, n \in 0 .. MaxEntries : m <= n => Hits[f][m] <= Hits[f][n]
    /\ MaxLogActs \in Nat /\ LogPatience \in Nat /\ MaxLogFaults \in Nat

VARIABLES
    log,        \* which view, "off" when none is looked at
    up,         \* whether it is mounted
    controls,   \* page and filter on the screen; of clientstats the client
    edited,     \* the filter was typed over since it was last sent
    answer,     \* what the rows are of, and the number of entries
    spinning,   \* loading
    failed,     \* error
    asking,     \* requests that are out
    newest,     \* the number of the newest request of this mount
    fate,       \* how that request ended
    clash,      \* it was not alone
    patient,    \* whether the page was only turned with the answer for it at hand
    entries,    \* entries in the server's log
    routed,     \* whether the server knows the path
    looks,      \* what the user has done so far, but for opening the tab
    slips       \* failures so far

viewVars == <<up, controls, edited, answer, spinning, failed, asking, newest, fate, clash, patient>>
logVars == <<log, viewVars, entries, routed, looks, slips>>

Controls == [page : Nat \ {0}, filter : Filters]
FirstOf(f) == [page |-> 1, filter |-> f]
NoRows == [got |-> FALSE, view |-> FirstOf(""), total |-> 0]

(* Math.ceil(total / limit) *)
TotalPages(total) == (total + PageSize - 1) \div PageSize

-----------------------------------------------------------------------------
LogRequest(n, v) == [n |-> n, view |-> v, st |-> "sent", total |-> 0]

(* The newest request has been answered, and it was alone. *)
Settled == asking = {} /\ ~clash /\ fate = "ok"

(* loadLogs, loadEntries, load: the view is the one of the render.           *)
Load(views) ==
    /\ asking' = asking \cup views
    /\ newest' = newest + Cardinality(views)
    /\ clash' = (asking # {} \/ Cardinality(views) > 1)
    /\ patient' = ((\A r \in views : r.view.page = 1) \/ (patient /\ Settled))
    /\ fate' = "none"
    /\ spinning' = (log # "clientstats")
    /\ failed' = FALSE

LoadLogs(v) == Load({LogRequest(newest + 1, v)})

LogInit ==
    /\ log \in Logs
    /\ up = (log = "clientstats")
    /\ controls = FirstOf("")
    /\ edited = FALSE
    /\ answer = NoRows
    /\ spinning = FALSE
    /\ failed = FALSE
    /\ asking = {}
    /\ newest = 0
    /\ fate = "none"
    /\ clash = FALSE
    /\ patient = TRUE
    /\ entries \in IF log = "off" THEN {0} ELSE 0 .. MaxEntries
    /\ routed \in {log \notin NotServed, TRUE}
    /\ looks = 0
    /\ slips = 0

(* The tab is chosen: the component mounts, and its effect asks. *)
OpenLog ==
    /\ log # "off" /\ ~up
    /\ up' = TRUE
    /\ LoadLogs(controls)
    /\ UNCHANGED <<log, controls, edited, answer, entries, routed, looks, slips>>

Looks ==
    /\ up /\ looks < MaxLogActs /\ Cardinality(asking) <= LogPatience
    /\ looks' = looks + 1
    /\ UNCHANGED <<log, entries, routed, slips>>

(* Another tab is chosen: the state goes, and nobody hears the answers. *)
LeaveLog ==
    /\ Looks /\ log # "clientstats"
    /\ up' = FALSE
    /\ controls' = FirstOf("") /\ edited' = FALSE /\ answer' = NoRows
    /\ spinning' = FALSE /\ failed' = FALSE
    /\ asking' = {} /\ newest' = 0 /\ fate' = "none" /\ clash' = FALSE /\ patient' = TRUE

(* setPage, setAdminFilter, setPeriod, ...: the effect runs with the new     *)
(* controls.  In the historical logs a new page also sends what was typed.   *)
ChangeControls(v) ==
    /\ Looks
    /\ controls' = v
    /\ edited' = FALSE
    /\ LoadLogs(v)
    /\ UNCHANGED <<up, answer>>

(* A slip: the next page is there as long as this one is full.               *)
PagerNextFull ==
    /\ log \in PagedTabs
    /\ TotalPages(answer.total) > 1 /\ controls.page <= TotalPages(answer.total)
    /\ ChangeControls([controls EXCEPT !.page = @ + 1])

(* The pager of the tables, when their total makes several pages.            *)
PagerNext ==
    /\ log \in PagedTabs
    /\ TotalPages(answer.total) > 1 /\ controls.page < TotalPages(answer.total)
    /\ ChangeControls([controls EXCEPT !.page = @ + 1])

(* A slip: the button is there on the first page, too.                       *)
PagerPrevPast ==
    /\ log \in PagedTabs
    /\ TotalPages(answer.total) > 1
    /\ ChangeControls([controls EXCEPT !.page = @ - 1])

PagerPrev ==
    /\ log \in PagedTabs
    /\ TotalPages(answer.total) > 1 /\ controls.page > 1
    /\ ChangeControls([controls EXCEPT !.page = @ - 1])

(* The admin and target of the audit log, the search of the reputation tab;  *)
(* the period of the analytics.                                              *)
FilterAudit(f) == log = "auditlogs"  /\ f # controls.filter /\ ChangeControls(FirstOf(f))
SearchReputation(f) == log = "reputation" /\ f # controls.filter /\ ChangeControls(FirstOf(f))
SetPeriod(f) == log = "analytics"  /\ f # controls.filter /\ ChangeControls(FirstOf(f))

(* The filters of the historical logs are typed, ... *)
TypeFilter(f) ==
    /\ Looks /\ log = "historical" /\ f # controls.filter
    /\ controls' = [controls EXCEPT !.filter = f]
    /\ edited' = TRUE
    /\ UNCHANGED <<up, answer, spinning, failed, asking, newest, fate, clash, patient>>

(* A slip: setPage(1) runs no effect.                                        *)
HandleApplyFiltersOnce ==
    /\ Looks /\ log = "historical"
    /\ controls' = [controls EXCEPT !.page = 1]
    /\ edited' = FALSE
    /\ LoadLogs(controls)
    /\ UNCHANGED <<up, answer>>

(* ... and applied: loadLogs runs with the page of this render, and the      *)
(* effect of setPage(1), if that is another page, loads the first.           *)
HandleApplyFilters ==
    /\ Looks /\ log = "historical"
    /\ controls' = [controls EXCEPT !.page = 1]
    /\ edited' = FALSE
    /\ Load({LogRequest(newest + 1, controls)} \cup
            (IF controls.page = 1 THEN {} ELSE {LogRequest(newest + 2, [controls EXCEPT !.page = 1])}))
    /\ UNCHANGED <<up, answer>>

RefreshLogs ==
    /\ log \in {"historical", "auditlogs", "analytics"}
    /\ ChangeControls(controls)

(* The button in a client's row.  setClientStat(null) leaves the panel with  *)
(* its spinner until an answer arrives, of whichever client.                 *)
OpenClientStats(ip) ==
    /\ Looks /\ log = "clientstats" /\ ip # ""
    /\ controls' = FirstOf(ip)
    /\ answer' = NoRows
    /\ LoadLogs(FirstOf(ip))
    /\ UNCHANGED <<up, edited>>

CloseClientStats ==
    /\ Looks /\ log = "clientstats" /\ controls.filter # ""
    /\ controls' = FirstOf("")
    /\ UNCHANGED <<up, edited, answer, spinning, failed, asking, newest, fate, clash, patient>>

-----------------------------------------------------------------------------
(* The server *)

Becomes(r, st) == asking' = (asking \ {r}) \cup {[r EXCEPT !.st = st]}
Elsewhere == UNCHANGED <<log, up, controls, edited, answer, spinning, failed, newest, fate, clash, patient, routed, looks>>

(* A path nobody has registered is answered with 404.                        *)
ServeLook == \E r \in asking :
    /\ r.st = "sent"
    /\ IF routed
       THEN asking' = (asking \ {r}) \cup {[r EXCEPT !.st = "done", !.total = Hits[r.view.filter][entries]]}
       ELSE Becomes(r, "failed")
    /\ Elsewhere /\ UNCHANGED <<entries, slips>>

LookFails == \E r \in asking :
    /\ r.st # "failed" /\ slips < MaxLogFaults
    /\ slips' = slips + 1
    /\ Becomes(r, "failed")
    /\ Elsewhere /\ UNCHANGED entries

(* Queries are answered, admins do their work: the log only grows.           *)
LogGrows ==
    /\ log # "off" /\ entries < MaxEntries
    /\ entries' = entries + 1
    /\ Elsewhere /\ UNCHANGED <<asking, slips>>

-----------------------------------------------------------------------------
(* Answers *)

Ends(r, how) ==
    /\ asking' = asking \ {r}
    /\ fate' = IF r.n = newest THEN how ELSE fate
    /\ spinning' = FALSE
    /\ UNCHANGED <<log, up, controls, edited, newest, clash, patient, entries, routed, looks, slips>>

(* A slip: the total is taken, the rows are not.                             *)
LogsArriveHalf(r) ==
    /\ r.st = "done"
    /\ answer' = [got |-> TRUE, view |-> answer.view, total |-> r.total]
    /\ UNCHANGED failed
    /\ Ends(r, "ok")

(* setLogs and setTotal, whatever has been asked for since; the first answer *)
(* stops the spinner.                                                        *)
LogsArrive(r) ==
    /\ r.st = "done"
    /\ answer' = [got |-> TRUE, view |-> r.view, total |-> r.total]
    /\ UNCHANGED failed
    /\ Ends(r, "ok")

(* A slip: the error is dropped everywhere.                                  *)
LogsFailSilently(r) ==
    /\ r.st = "failed"
    /\ UNCHANGED <<failed, answer>>
    /\ Ends(r, "failed")

(* A slip: without the finally.                                              *)
LogsFailSpinning(r) ==
    /\ r.st = "failed"
    /\ failed' = (log \in Reporting)
    /\ asking' = asking \ {r}
    /\ fate' = IF r.n = newest THEN "failed" ELSE fate
    /\ UNCHANGED <<answer, spinning, log, up, controls, edited, newest, clash, patient, entries, routed, looks, slips>>

(* catch: the message, where there is a place for it; the rows stay.         *)
LogsFail(r) ==
    /\ r.st = "failed"
    /\ failed' = (log \in Reporting)
    /\ UNCHANGED answer
    /\ Ends(r, "failed")

(* What each part of the views offers. *)
HistoricalHeader == log = "historical" /\ RefreshLogs
HistoricalFilters == HandleApplyFilters \/ \E f \in Filters : TypeFilter(f)
HistoricalPager == log = "historical" /\ (PagerPrev \/ PagerNext)
AuditHeader == log = "auditlogs" /\ RefreshLogs
AuditFilters == \E f \in Filters : FilterAudit(f)
AuditPager == log = "auditlogs" /\ (PagerPrev \/ PagerNext)
ReputationHeader == \E f \in Filters : SearchReputation(f)
ReputationPager == log = "reputation" /\ (PagerPrev \/ PagerNext)
AnalyticsHeader == (log = "analytics" /\ RefreshLogs) \/ \E f \in Filters : SetPeriod(f)
ClientRow == \E f \in Filters : OpenClientStats(f)
StatsPanel == CloseClientStats

(* The panel of a client has nothing to show yet. *)
PanelSpins == log = "clientstats" /\ controls.filter # "" /\ ~answer.got

LogUser ==
    \/ OpenLog \/ LeaveLog
    \/ HistoricalHeader \/ HistoricalFilters \/ HistoricalPager
    \/ AuditHeader \/ AuditFilters \/ AuditPager
    \/ ReputationHeader \/ ReputationPager \/ AnalyticsHeader
    \/ ClientRow \/ StatsPanel

LogAnswers == \E r \in asking : LogsArrive(r) \/ LogsFail(r)

LogNext == LogUser \/ ServeLook \/ LookFails \/ LogGrows \/ LogAnswers

-----------------------------------------------------------------------------
(* Properties *)

LogTypeOK ==
    /\ up \in BOOLEAN /\ edited \in BOOLEAN /\ spinning \in BOOLEAN /\ failed \in BOOLEAN
    /\ clash \in BOOLEAN /\ patient \in BOOLEAN /\ routed \in BOOLEAN
    /\ controls \in Controls
    /\ answer \in [got : BOOLEAN, view : Controls, total : 0 .. MaxEntries]
    /\ newest \in Nat
    /\ asking \subseteq [n : 1 .. newest, view : Controls, st : {"sent", "done", "failed"}, total : 0 .. MaxEntries]
    /\ fate \in {"none", "ok", "failed"}
    /\ entries \in 0 .. MaxEntries
    /\ looks \in 0 .. MaxLogActs /\ slips \in 0 .. MaxLogFaults

(* On the screen and asked for: the page, and the filter but for what was    *)
(* typed since; the panel of a client may have been closed.                  *)
Suits(v) ==
    /\ v.page = controls.page
    /\ v.filter = controls.filter \/ edited \/ (log = "clientstats" /\ controls.filter = "")

(* The newest request always asks for what the controls say, so that the     *)
(* last answer to be sent is the right one: no handler asks with a page or a *)
(* filter of an older render unless a newer request follows (the historical  *)
(* logs ask for the old page first).                                         *)
NewestAsksForTheControls == \A r \in asking : r.n = newest => Suits(r.view)

(* Who waits for each answer sees what the controls say.  Two requests out   *)
(* together may be answered in the wrong order, and then the older stays.    *)
PatientSeesControls ==
    Settled => answer.got /\ Suits(answer.view)

(* Once the newest request has been answered and it was alone, the error is  *)
(* on the screen exactly when that request failed: an older error does not   *)
(* stay above newer rows.                                                    *)
ErrorsAreTrue ==
    log \in Reporting /\ asking = {} /\ ~clash => (failed <=> fate = "failed")

(* For who waits, the page on the screen is one that exists, so that there   *)
(* is a pager to leave it: the log only grows, and a new filter begins at    *)
(* the first page.  In the historical logs it does not: the pager sends what *)
(* was typed with the page of the old filter.                                *)
PagerNeverStrands ==
    log \in PagedTabs \ {"historical"} /\ Settled /\ patient =>
        controls.page = 1 \/ controls.page <= TotalPages(answer.total)

(* The spinner of a tab waits for a request; so does that of the panel,      *)
(* unless its request failed, of which it says nothing.                      *)
LogSpinnersAreHonest ==
    /\ spinning => asking # {}
    /\ PanelSpins => asking # {} \/ clash \/ fate = "failed"

LogAtRest == asking = {} /\ ~spinning
===============================================================================
