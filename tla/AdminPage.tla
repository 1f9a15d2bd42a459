------------------------------ MODULE AdminPage ------------------------------
(* The admin page, src/web/app/admin/page.tsx: its two paged tables (blocked *)
(* domains and DNS records), the DNS settings, the connection light, and the *)
(* requests behind them.                                                     *)
(*                                                                           *)
(* Every handler is asynchronous: what comes before the await is a step, the *)
(* server answers in a step of its own, and the rest runs when the answer    *)
(* arrives, with the values of the render in which the handler was made.     *)
(* Answers arrive in any order.  loadAll depends on both loaders, and these  *)
(* on page and filters, so that every change of a page or a filter runs two  *)
(* effects: one asks for the chosen page, the other runs loadAll, which asks *)
(* for the settings and, once it has them, for the first page of both tables.*)
(*                                                                           *)
(* A commit is joined to the update it renders, and its effects with it.     *)
EXTENDS Naturals, FiniteSets

CONSTANTS
    MaxId,       \* rows are numbered; a row is its domain, or its record
    Texts,       \* what the search box may hold
    Choices,     \* what the select beside it may hold
    TextHits,    \* search text -> the rows whose name contains it
    ChoiceHits,  \* category or type -> the rows that have it
    Limit,       \* rows of a page: DOMAIN_LIMIT and RECORD_LIMIT
    Settings,    \* DNS settings
    Opening,     \* the settings the page opens with
    Tables,      \* which of the two tables to look at: both, or one alone
    Start,       \* sets of rows the page may open with
    MaxActs,     \* bound: what the user does
    Patience,    \* bound: the user acts while at most so many requests are out
    MaxFaults    \* bound: failed requests, lost answers, edits made elsewhere

Ids == 1 .. MaxId
Kinds == {"domains", "records"}

ASSUME AdminPageAssumption ==
    /\ MaxId \in Nat \ {0}
    /\ Limit \in Nat \ {0}
    /\ "" \in Texts /\ "" \in Choices
    /\ TextHits \in [Texts -> SUBSET Ids] /\ TextHits[""] = Ids
    /\ ChoiceHits \in [Choices -> SUBSET Ids] /\ ChoiceHits[""] = Ids
    /\ Opening \in Settings /\ "none" \notin Settings
    /\ Tables \subseteq SUBSET Kinds
    /\ Start \subseteq SUBSET Ids
    /\ MaxActs \in Nat /\ Patience \in Nat /\ MaxFaults \in Nat

VARIABLES
    kinds,      \* the tables looked at; a page change of the other is a Refresh
    connected,  \* "unknown" is null
    loading,
    view,       \* kind -> page and filters: domainPage, recordSearch, ...
    table,      \* kind -> rows and total, and which request brought them
    selected,   \* selectedDomains
    form,       \* dnsConfig ("none" is null), and where its value comes from
    busy,       \* the spinners that are on: saving, importing, pwSaving
    out,        \* requests that are out
    sends,      \* requests so far
    asked,      \* kind -> the number of the newest request for its rows
    rows,       \* kind -> the rows the server has
    settings,   \* the settings the server has
    acts,       \* what the user has done so far
    faults      \* failures so far

page == <<connected, loading, view, table, selected, form, busy>>
net == <<out, sends, asked>>
server == <<rows, settings>>
vars == <<kinds, page, net, server, acts, faults>>

View == [page : Nat \ {0}, text : Texts, choice : Choices]
First == [page |-> 1, text |-> "", choice |-> ""]
Row == [id : Ids, on : BOOLEAN]
NoRow == [id |-> 0, on |-> FALSE]
IdsOf(S) == {r.id : r \in S}

-----------------------------------------------------------------------------
(* Requests *)

NoAnswer == [rows |-> {}, total |-> 0]

(* A request of api-client.ts.  fresh turns false when the server changes    *)
(* what an answer on its way speaks of.                                      *)
Request(n, op, kind, v, by, row, val) ==
    [n |-> n, op |-> op, kind |-> kind, view |-> v, by |-> by, row |-> row,
     val |-> val, st |-> "sent", ans |-> NoAnswer, fresh |-> TRUE]

GetConfig(n) == Request(n, "config", "config", First, "all", NoRow, "none")
PutConfig(n, val) == Request(n, "save", "config", First, "handler", NoRow, val)
GetRows(n, kind, v, by) == Request(n, "rows", kind, v, by, NoRow, "none")
Edit(n, op, kind, v, row) == Request(n, op, kind, v, "handler", row, "none")
ChangePassword(n) == Request(n, "password", "auth", First, "handler", NoRow, "none")

Of(kind) == {r \in out : r.kind = kind}

(* loadDomains and loadRecords as the effects and loadAll call them. *)
LoadDomains(n, v, by) == GetRows(n, "domains", v, by)
LoadRecords(n, v, by) == GetRows(n, "records", v, by)

-----------------------------------------------------------------------------
(* What the server answers *)

Matching(S, v) == {r \in S : r.id \in TextHits[v.text] \cap ChoiceHits[v.choice]}

(* listDomains and listRecords: one page of the matching rows, in a fixed    *)
(* order, here the highest number first; count and rows are read at once.    *)
PageOf(S, v) ==
    LET Rank(r) == Cardinality({q \in Matching(S, v) : q.id >= r.id})
    IN  {r \in Matching(S, v) : Rank(r) > (v.page - 1) * Limit /\ Rank(r) <= v.page * Limit}

Listed(S, v) == [rows |-> PageOf(S, v), total |-> Cardinality(Matching(S, v))]

(* domainPages and recordPages *)
Pages(total) == IF total = 0 THEN 1 ELSE (total + Limit - 1) \div Limit

-----------------------------------------------------------------------------
Init ==
    /\ kinds \in Tables
    /\ connected = "unknown"
    /\ loading = TRUE
    /\ view = [k \in Kinds |-> First]
    /\ table = [k \in Kinds |-> [rows |-> {}, total |-> 0, n |-> 0, by |-> "none",
                                 view |-> First, fresh |-> FALSE]]
    /\ selected = {}
    /\ form = [val |-> "none", typed |-> FALSE, fresh |-> FALSE]
    /\ busy = {}
    /\ out = {GetConfig(1)}
    /\ sends = 1
    /\ asked = [k \in Kinds |-> 0]
    /\ rows \in [Kinds -> {{[id |-> i, on |-> TRUE] : i \in S} : S \in Start}]
    /\ \A k \in Kinds \ kinds : rows[k] = rows[CHOOSE j \in kinds : TRUE]
    /\ settings = Opening
    /\ acts = 0
    /\ faults = 0

(* The main area shows a tab, neither the spinner nor the offline notice.    *)
Shown == ~loading /\ connected # "no"

Acts ==
    /\ acts < MaxActs
    /\ Cardinality(out) <= Patience
    /\ acts' = acts + 1
    /\ UNCHANGED <<kinds, server, faults>>

Send(S) ==
    /\ out' = out \cup S
    /\ sends' = sends + Cardinality(S)
    /\ asked' = [k \in Kinds |->
                    IF \E r \in S : r.op = "rows" /\ r.kind = k
                    THEN (CHOOSE r \in S : r.op = "rows" /\ r.kind = k).n ELSE asked[k]]

-----------------------------------------------------------------------------
(* Looking: pages, filters, refresh *)

(* A slip: the effect runs with the view of the render before.               *)
ChangeViewLate(k, v) ==
    /\ Shown /\ Acts
    /\ k \in kinds
    /\ v # view[k]
    /\ view' = [view EXCEPT ![k] = v]
    /\ Send({GetConfig(sends + 1), GetRows(sends + 2, k, view[k], "effect")})
    /\ UNCHANGED <<connected, loading, table, selected, form, busy>>

(* setDomainPage, setDomainSearch, ...: the commit runs the effects of lines *)
(* 312 and 315 (316 for records) with the new view.                          *)
ChangeView(k, v) ==
    /\ Shown /\ Acts
    /\ k \in kinds
    /\ v # view[k]
    /\ view' = [view EXCEPT ![k] = v]
    /\ Send({GetConfig(sends + 1), GetRows(sends + 2, k, v, "effect")})
    /\ UNCHANGED <<connected, loading, table, selected, form, busy>>

Turn(k, p) == ChangeView(k, [view[k] EXCEPT !.page = p])
Search(k, t) == ChangeView(k, [view[k] EXCEPT !.page = 1, !.text = t])
Choose(k, c) == ChangeView(k, [view[k] EXCEPT !.page = 1, !.choice = c])

(* A slip: the button is not disabled on the first page.                     *)
TurnBackPast(k) ==
    /\ Pages(table[k].total) > 1
    /\ Turn(k, view[k].page - 1)

(* The pager: it is there when the total of the table makes several pages.   *)
TurnBack(k) ==
    /\ Pages(table[k].total) > 1 /\ view[k].page > 1
    /\ Turn(k, view[k].page - 1)

TurnOn(k) ==
    /\ Pages(table[k].total) > 1 /\ view[k].page < Pages(table[k].total)
    /\ Turn(k, view[k].page + 1)

DomainSearch(t) == Search("domains", t)
DomainCatFilter(c) == Choose("domains", c)
RecordSearch(t) == Search("records", t)
RecordTypeFilter(c) == Choose("records", c)

(* The refresh button of the header, and the retry button of the notice.     *)
Refresh ==
    /\ Acts
    /\ Send({GetConfig(sends + 1)})
    /\ UNCHANGED page

-----------------------------------------------------------------------------
(* Editing: what the handlers do before the await *)

Starts(r) == Shown /\ Acts /\ Send({r})

(* The view a handler reloads is the one of the render it was made in.       *)
Add(k, i) == /\ k \in kinds
                  /\ Starts(Edit(sends + 1, "add", k, [view[k] EXCEPT !.page = 1], [id |-> i, on |-> TRUE]))
                  /\ UNCHANGED page
Delete(k, r) == /\ r \in table[k].rows
                  /\ Starts(Edit(sends + 1, "delete", k, view[k], r))
                  /\ UNCHANGED page
Toggle(k, r) == /\ r \in table[k].rows
                  /\ Starts(Edit(sends + 1, "toggle", k, view[k], [r EXCEPT !.on = ~r.on]))
                  /\ UNCHANGED page

HandleAddDomain(i) == Add("domains", i)
HandleDeleteDomain(r) == Delete("domains", r)
ToggleDomain(r) == Toggle("domains", r)
HandleAddRecord(i) == Add("records", i)
HandleDeleteRecord(r) == Delete("records", r)
ToggleRecord(r) == Toggle("records", r)

HandleImport ==
    /\ "domains" \in kinds
    /\ "importing" \notin busy
    /\ Starts(Edit(sends + 1, "import", "domains", First, NoRow))
    /\ busy' = busy \cup {"importing"}
    /\ UNCHANGED <<connected, loading, view, table, selected, form>>

(* The boxes of the domain table. *)
SelectAll ==
    /\ "domains" \in kinds
    /\ Shown /\ Acts
    /\ selected' = LET S == IdsOf(table["domains"].rows)
                   IN  IF S # {} /\ S \subseteq selected THEN selected \ S ELSE selected \cup S
    /\ UNCHANGED <<connected, loading, view, table, form, busy, net>>

SelectOne(i) ==
    /\ Shown /\ Acts
    /\ i \in IdsOf(table["domains"].rows)
    /\ selected' = IF i \in selected THEN selected \ {i} ELSE selected \cup {i}
    /\ UNCHANGED <<connected, loading, view, table, form, busy, net>>

HandleBulkDelete ==
    /\ selected # {}
    /\ Starts(Edit(sends + 1, "bulk", "domains", view["domains"], NoRow))
    /\ busy' = busy \cup {"saving"}
    /\ UNCHANGED <<connected, loading, view, table, selected, form>>

(* The fields of the DNS tab. *)
EditDNS(val) ==
    /\ Shown /\ Acts
    /\ form.val \notin {"none", val}
    /\ form' = [form EXCEPT !.val = val, !.typed = TRUE]
    /\ UNCHANGED <<connected, loading, view, table, selected, busy, net>>

SaveDNS ==
    /\ form.val # "none"
    /\ "saving" \notin busy
    /\ Starts(PutConfig(sends + 1, form.val))
    /\ busy' = busy \cup {"saving"}
    /\ UNCHANGED <<connected, loading, view, table, selected, form>>

(* The two new passwords are the same and long enough; else nothing is sent. *)
HandleChangePw ==
    /\ "pwSaving" \notin busy
    /\ Starts(ChangePassword(sends + 1))
    /\ busy' = busy \cup {"pwSaving"}
    /\ UNCHANGED <<connected, loading, view, table, selected, form>>

-----------------------------------------------------------------------------
(* The server *)

Has(k, i) == i \in IdsOf(rows[k])
Without(k, i) == {r \in rows[k] : r.id # i}

(* The name of a domain is taken (409), the row is gone (404); and           *)
(* DELETE /domains/bulk is taken for DELETE /domains/:id, registered before  *)
(* it, which fails.  Records have no unique name: equal ones count as one.   *)
Rejected(r) ==
    \/ r.op = "add" /\ r.kind = "domains" /\ Has("domains", r.row.id)
    \/ r.op = "toggle" /\ ~Has(r.kind, r.row.id)
    \/ r.op = "bulk"

After(r) ==
    CASE r.op = "add"    -> IF Has(r.kind, r.row.id) THEN rows[r.kind] ELSE rows[r.kind] \cup {r.row}
      [] r.op = "toggle" -> Without(r.kind, r.row.id) \cup {r.row}
      [] r.op = "delete"            -> Without(r.kind, r.row.id)
      [] r.op = "import"            -> rows[r.kind] \cup {[id |-> i, on |-> TRUE] : i \in Ids \ IdsOf(rows[r.kind])}

Edits == {"add", "delete", "toggle", "import"}

(* The same requests with the answers on their way about this kind marked.   *)
Outdated(S, kind) == {IF q.kind = kind /\ q.st = "done" THEN [q EXCEPT !.fresh = FALSE] ELSE q : q \in S}

Serve(r) ==
    /\ r \in out /\ r.st = "sent"
    /\ LET others == out \ {r}
           done == [r EXCEPT !.st = "done"] IN
       CASE Rejected(r) ->
              out' = others \cup {[r EXCEPT !.st = "failed"]} /\ UNCHANGED server
         [] r.op = "rows" ->
              out' = others \cup {[done EXCEPT !.ans = Listed(rows[r.kind], r.view)]} /\ UNCHANGED server
         [] r.op = "config" ->
              out' = others \cup {[done EXCEPT !.val = settings]} /\ UNCHANGED server
         [] r.op = "save" ->
              out' = Outdated(others, "config") \cup {done} /\ settings' = r.val /\ UNCHANGED rows
         [] r.op \in Edits /\ ~Rejected(r) ->
              out' = Outdated(others, r.kind) \cup {done}
              /\ rows' = [rows EXCEPT ![r.kind] = After(r)] /\ UNCHANGED settings
         [] OTHER -> out' = others \cup {done} /\ UNCHANGED server
    /\ UNCHANGED <<kinds, page, sends, asked, acts, faults>>

Faults == faults < MaxFaults /\ faults' = faults + 1 /\ UNCHANGED <<kinds, acts>>

(* The server is not reached, or refuses. *)
Refuse(r) ==
    /\ r \in out /\ r.st = "sent" /\ Faults
    /\ out' = (out \ {r}) \cup {[r EXCEPT !.st = "failed"]}
    /\ UNCHANGED <<page, sends, asked, server>>

(* What was shown of this kind no longer need be what the server has.        *)
Forget(kind) ==
    /\ table' = IF kind \in Kinds THEN [table EXCEPT ![kind].fresh = FALSE] ELSE table
    /\ form'  = IF kind = "config" THEN [form EXCEPT !.fresh = FALSE] ELSE form

(* The answer is lost on its way, after the server has done its part.        *)
Lose(r) ==
    /\ r \in out /\ r.st = "done" /\ Faults
    /\ out' = (out \ {r}) \cup {[r EXCEPT !.st = "failed"]}
    /\ IF r.op \in Edits \cup {"save"} THEN Forget(r.kind) ELSE UNCHANGED <<table, form>>
    /\ UNCHANGED <<connected, loading, view, selected, busy, sends, asked, server>>

(* Another admin, or the scheduler, changes the rows. *)
Elsewhere(k, i) ==
    /\ k \in kinds /\ Faults
    /\ rows' = [rows EXCEPT ![k] = IF Has(k, i) THEN Without(k, i) ELSE @ \cup {[id |-> i, on |-> TRUE]}]
    /\ out' = Outdated(out, k)
    /\ Forget(k)
    /\ UNCHANGED <<connected, loading, view, selected, busy, sends, asked, settings>>

-----------------------------------------------------------------------------
(* Answers: what the handlers do after the await *)

Arrived(r, op, st) == r \in out /\ r.op \in op /\ r.st = st
Received(r) == out' = out \ {r} /\ UNCHANGED <<sends, asked>>

(* The requests of loadAll once it has the settings.  When connected was not *)
(* true before, the effects that depend on it ask for the current views too. *)
ConfigArrives(r) ==
    /\ Arrived(r, {"config"}, "done")
    /\ form' = [val |-> r.val, typed |-> FALSE, fresh |-> r.fresh]
    /\ connected' = "yes"
    /\ loading' = FALSE
    /\ LET all == {LoadDomains(sends + 1, First, "all"), LoadRecords(sends + 2, First, "all")}
           effects == {LoadDomains(sends + 3, view["domains"], "effect"),
                       LoadRecords(sends + 4, view["records"], "effect")}
           new == {q \in IF connected = "yes" THEN all ELSE all \cup effects : q.kind \in kinds}
       IN  /\ out' = (out \ {r}) \cup new
           /\ sends' = sends + 4
           /\ asked' = [k \in Kinds |->
                           IF k \notin kinds THEN asked[k]
                           ELSE (IF k = "domains" THEN 1 ELSE 2) + (IF connected = "yes" THEN sends ELSE sends + 2)]
    /\ UNCHANGED <<view, table, selected, busy, kinds, server, acts, faults>>

ConfigFails(r) ==
    /\ Arrived(r, {"config"}, "failed")
    /\ connected' = "no"
    /\ loading' = FALSE
    /\ Received(r)
    /\ UNCHANGED <<view, table, selected, form, busy, kinds, server, acts, faults>>

(* setDomains and setDomainTotal, whatever has been asked for since. *)
RowsArrive(r) ==
    /\ Arrived(r, {"rows"}, "done")
    /\ table' = [table EXCEPT ![r.kind] =
                    [rows |-> r.ans.rows, total |-> r.ans.total, n |-> r.n, by |-> r.by,
                     view |-> r.view, fresh |-> r.fresh]]
    /\ Received(r)
    /\ UNCHANGED <<connected, loading, view, selected, form, busy, kinds, server, acts, faults>>

(* A slip: ask again. *)
RowsFailAgain(r) ==
    /\ Arrived(r, {"rows"}, "failed")
    /\ out' = (out \ {r}) \cup {GetRows(sends + 1, r.kind, r.view, r.by)}
    /\ sends' = sends + 1
    /\ asked' = [asked EXCEPT ![r.kind] = sends + 1]
    /\ UNCHANGED <<page, kinds, server, acts, faults>>

RowsFail(r) ==
    /\ Arrived(r, {"rows"}, "failed")
    /\ Received(r)
    /\ UNCHANGED <<page, kinds, server, acts, faults>>

(* A row was added or deleted, or an import has ended: load again.           *)
EditArrives(r) ==
    /\ Arrived(r, {"add", "delete", "import"}, "done")
    /\ out' = (out \ {r}) \cup {GetRows(sends + 1, r.kind, r.view, "handler")}
    /\ sends' = sends + 1
    /\ asked' = [asked EXCEPT ![r.kind] = sends + 1]
    /\ busy' = IF r.op = "import" THEN busy \ {"importing"} ELSE busy
    /\ UNCHANGED <<connected, loading, view, table, selected, form, kinds, server, acts, faults>>

(* A slip: flip the row that is shown instead of taking the one that came.   *)
ToggleFlips(r) ==
    /\ Arrived(r, {"toggle"}, "done")
    /\ table' = [table EXCEPT
                    ![r.kind].rows = {IF x.id = r.row.id THEN [x EXCEPT !.on = ~x.on] ELSE x : x \in @},
                    ![r.kind].fresh = @ /\ r.fresh]
    /\ Received(r)
    /\ UNCHANGED <<connected, loading, view, selected, form, busy, kinds, server, acts, faults>>

ToggleArrives(r) ==
    /\ Arrived(r, {"toggle"}, "done")
    /\ table' = [table EXCEPT
                    ![r.kind].rows = {IF x.id = r.row.id THEN r.row ELSE x : x \in @},
                    ![r.kind].fresh = @ /\ r.fresh]
    /\ Received(r)
    /\ UNCHANGED <<connected, loading, view, selected, form, busy, kinds, server, acts, faults>>

(* A slip: the form is marked as saved and left as it is by then.            *)
SaveArrivesBlind(r) ==
    /\ Arrived(r, {"save"}, "done")
    /\ form' = [form EXCEPT !.typed = FALSE, !.fresh = r.fresh]
    /\ busy' = busy \ {"saving"}
    /\ Received(r)
    /\ UNCHANGED <<connected, loading, view, table, selected, kinds, server, acts, faults>>

SaveArrives(r) ==
    /\ Arrived(r, {"save"}, "done")
    /\ form' = [val |-> r.val, typed |-> FALSE, fresh |-> r.fresh]
    /\ busy' = busy \ {"saving"}
    /\ Received(r)
    /\ UNCHANGED <<connected, loading, view, table, selected, kinds, server, acts, faults>>

Spinner(op) == CASE op \in {"save", "bulk"} -> "saving" [] op = "import" -> "importing"
                 [] op = "password" -> "pwSaving" [] OTHER -> ""

PasswordArrives(r) ==
    /\ Arrived(r, {"password"}, "done")
    /\ busy' = busy \ {"pwSaving"}
    /\ Received(r)
    /\ UNCHANGED <<connected, loading, view, table, selected, form, kinds, server, acts, faults>>

(* A slip: the spinner goes with the answer only, not in a finally.          *)
EditFailsSpinning(r) ==
    /\ Arrived(r, Edits \cup {"bulk", "save", "password"}, "failed")
    /\ Received(r)
    /\ UNCHANGED <<connected, loading, view, table, selected, form, busy, kinds, server, acts, faults>>

(* catch: a toast; finally: the spinner. *)
EditFails(r) ==
    /\ Arrived(r, Edits \cup {"bulk", "save", "password"}, "failed")
    /\ busy' = busy \ {Spinner(r.op)}
    /\ Received(r)
    /\ UNCHANGED <<connected, loading, view, table, selected, form, kinds, server, acts, faults>>

-----------------------------------------------------------------------------
(* What each part of the page offers.  The search boxes, selects and tables  *)
(* of a tab are there while the main area is shown; the header always is.    *)
Header == Refresh
Notice == connected = "no" /\ ~loading /\ Refresh

DomainsToolbar ==
    \/ \E t \in Texts : DomainSearch(t)
    \/ \E c \in Choices : DomainCatFilter(c)
    \/ HandleBulkDelete
AddDomainForm == \E i \in Ids : HandleAddDomain(i)
ImportForm == HandleImport
DomainsTable ==
    \/ SelectAll
    \/ \E i \in Ids : SelectOne(i)
    \/ \E r \in Row : ToggleDomain(r) \/ HandleDeleteDomain(r)
DomainPager == TurnBack("domains") \/ TurnOn("domains")

RecordsToolbar ==
    \/ \E t \in Texts : RecordSearch(t)
    \/ \E c \in Choices : RecordTypeFilter(c)
AddRecordForm == \E i \in Ids : HandleAddRecord(i)
RecordsTable == \E r \in Row : ToggleRecord(r) \/ HandleDeleteRecord(r)
RecordPager == TurnBack("records") \/ TurnOn("records")

DNSTab == SaveDNS \/ \E s \in Settings : EditDNS(s)
SecurityTab == HandleChangePw

User ==
    \/ Header \/ Notice
    \/ DomainsToolbar \/ AddDomainForm \/ ImportForm \/ DomainsTable \/ DomainPager
    \/ RecordsToolbar \/ AddRecordForm \/ RecordsTable \/ RecordPager
    \/ DNSTab \/ SecurityTab

Served == \E r \in out : Serve(r)

Arrives == \E r \in out :
    \/ ConfigArrives(r) \/ ConfigFails(r) \/ RowsArrive(r) \/ RowsFail(r)
    \/ EditArrives(r) \/ ToggleArrives(r) \/ SaveArrives(r) \/ PasswordArrives(r) \/ EditFails(r)

Misfortune ==
    \/ \E r \in out : Refuse(r) \/ Lose(r)
    \/ \E k \in Kinds, i \in Ids : Elsewhere(k, i)

Next == User \/ Served \/ Arrives \/ Misfortune

Spec == Init /\ [][Next]_vars

(* Requests end, one way or another; the user and misfortune owe nothing.    *)
FairSpec == Spec /\ WF_vars(Served) /\ WF_vars(Arrives)

-----------------------------------------------------------------------------
(* Properties *)

RequestOK(r) ==
    /\ r.n \in 1 .. sends
    /\ r.op \in Edits \cup {"rows", "config", "save", "bulk", "password"}
    /\ r.kind \in Kinds \cup {"config", "auth"}
    /\ r.view \in View
    /\ r.by \in {"effect", "all", "handler"}
    /\ r.row \in Row \cup {NoRow}
    /\ r.val \in Settings \cup {"none"}
    /\ r.st \in {"sent", "done", "failed"}
    /\ r.ans \in [rows : SUBSET Row, total : 0 .. MaxId]
    /\ r.fresh \in BOOLEAN

TypeOK ==
    /\ kinds \in Tables
    /\ connected \in {"unknown", "yes", "no"}
    /\ loading \in BOOLEAN
    /\ view \in [Kinds -> View]
    /\ table \in [Kinds -> [rows : SUBSET Row, total : 0 .. MaxId, n : 0 .. sends,
                            by : {"none", "effect", "all", "handler"}, view : View, fresh : BOOLEAN]]
    /\ selected \subseteq Ids
    /\ form \in [val : Settings \cup {"none"}, typed : BOOLEAN, fresh : BOOLEAN]
    /\ busy \subseteq {"saving", "importing", "pwSaving"}
    /\ \A r \in out : RequestOK(r)
    /\ sends \in Nat
    /\ asked \in [Kinds -> 0 .. sends]
    /\ rows \in [Kinds -> SUBSET Row]
    /\ settings \in Settings
    /\ acts \in 0 .. MaxActs
    /\ faults \in 0 .. MaxFaults

(* An effect's answer never outlives its view unnoticed: as long as the      *)
(* newest request for a table is one that an effect sent, the answer it      *)
(* brings is of the page and the filters on the screen.  It is loadAll and   *)
(* the handlers that bring another page (lines 298, 302, 342 and 351).       *)
EffectsFollowTheControls ==
    \A k \in Kinds :
        /\ \A r \in out : r.n = asked[k] /\ r.by = "effect" => r.view = view[k]
        /\ table[k].n = asked[k] /\ table[k].by = "effect" => table[k].view = view[k]

(* With no request out about a table, it shows what the server has for the   *)
(* view it was loaded with, unless a newer request of it failed, an answer   *)
(* was overtaken by an edit or lost, or somebody else made one: neither the  *)
(* toggles, which change a row in place, nor the reloads lose track.         *)
RestIsFresh ==
    \A k \in Kinds :
        Of(k) = {} /\ table[k].n = asked[k] /\ table[k].fresh =>
            [rows |-> table[k].rows, total |-> table[k].total] = Listed(rows[k], table[k].view)

(* The DNS form holds the server's settings or the user's own typing, unless *)
(* an answer was overtaken by a save (lines 295 and 329).                    *)
FormIsServersOrMine ==
    Of("config") = {} /\ form.val # "none" /\ form.fresh => form.typed \/ form.val = settings

(* The effects do not feed each other: an act of the user costs at most six  *)
(* requests, whatever arrives, and opening the page five.                    *)
RequestsAreBounded == sends <= 5 + 6 * acts

(* Each of the spinners goes, the one of the page and those of the buttons,  *)
(* and the page comes to rest.                                               *)
Settles == <>[](out = {} /\ ~loading /\ busy = {})

(* Comment of line 314: "Reload domains on filter/page change".  At rest the *)
(* table should show the page and the filters of the controls.               *)
TableShowsTheChosenPage ==
    out = {} /\ connected = "yes" => \A k \in kinds : table[k].view = view[k]
==============================================================================
