------------------------------- MODULE ListTabs -------------------------------
(* The lists of the admin page that are kept in step with the server by hand:*)
(* categories, clients and whitelist (state of page.tsx), blocklists and     *)
(* subscriptions (components of their own), and the branding form, a list of *)
(* one row.  After an edit a list is either loaded again or patched with the *)
(* answer: appended to, filtered, mapped over.                               *)
(*                                                                           *)
(* The server is modelled as far as these lists see it, with the runs of     *)
(* subscriptions it starts in the background: a run saves, when it ends, the *)
(* whole row it read when it began.                                          *)
EXTENDS Naturals, FiniteSets, SequencesExt

CONSTANTS
    MaxId,          \* row numbers the database may give out
    Keys,           \* names, addresses, domains or URLs of rows
    Lists,          \* the lists looked at, one in each behaviour
    MaxListActs,    \* bound: what the user does
    ListPatience,   \* bound: the user acts while at most so many requests are out
    MaxListFaults   \* bound: refusals, lost answers, edits made elsewhere

PageLists == {"categories", "clients", "whitelist"}   \* loaded by loadAll, kept by the page
TabLists == {"blocklists", "subscriptions", "branding"} \* loaded by a mount, gone with it

ASSUME ListTabsAssumption ==
    /\ MaxId \in Nat \ {0, 1}
    /\ Keys # {}
    /\ Lists \subseteq PageLists \cup TabLists \cup {"off"}
    /\ MaxListActs \in Nat /\ ListPatience \in Nat /\ MaxListFaults \in Nat

VARIABLES
    list,       \* which list, "off" when none is looked at
    open,       \* whether its tab is on the screen
    shown,      \* clients, subs, ...: the rows on the screen
    detected,   \* the addresses seen without a client; isNull is a JSON null
    loading,
    running,    \* the rows whose run button is disabled, and saving
    timers,     \* pending setTimeout(load)
    calls,      \* requests that are out
    disturbed,  \* whether the list has an excuse for not being the server's
    stored,     \* the rows the server has
    last,       \* the last row number given out
    queried,    \* the addresses in the recent queries
    runs,       \* rows as the runs under way have read them
    done,       \* what the user has done so far, but for opening the tab
    mishaps     \* failures so far

tabVars == <<open, shown, detected, loading, running, timers>>
netVars == <<calls, disturbed>>
serverVars == <<stored, last, queried, runs>>
listVars == <<list, tabVars, netVars, serverVars, done, mishaps>>

Id == 1 .. MaxId
ListRow == [id : Id, key : Keys, on : BOOLEAN, ran : BOOLEAN]
New(id, key) == [id |-> id, key |-> key, on |-> TRUE, ran |-> FALSE]
Blank == [id |-> 0, key |-> CHOOSE k \in Keys : TRUE, on |-> FALSE, ran |-> FALSE]
KeysOf(S) == {r.key : r \in S}
NumbersOf(S) == {r.id : r \in S}
Nobody == [isNull |-> FALSE, ips |-> {}]

(* names and addresses are unique in the database; URLs are not *)
UniqueKeys == list \in PageLists

ListChanges == {"add", "delete", "toggle", "save"}

(* A call of api-client.ts.  mine: the mount that made it is still there.    *)
Call(n, op, row) ==
    [n |-> n, op |-> op, row |-> row, st |-> "sent", rows |-> {}, seen |-> Nobody, mine |-> TRUE]

(* A number to tell a new request from those that are out. *)
Tag(others) == CHOOSE n \in 1 .. Cardinality(others) + 1 : \A c \in others : c.n # n

(* What loads the list; loadAll asks for the detected addresses as well. *)
Loads(n) ==
    IF list = "clients" THEN {Call(n, "load", Blank), Call(n, "detect", Blank)}
    ELSE {Call(n, "load", Blank)}

ListInit ==
    /\ list \in Lists
    /\ open = FALSE
    /\ shown = <<>>
    /\ detected = Nobody
    /\ loading = FALSE
    /\ running = {}
    /\ timers = 0
    /\ calls = IF list \in PageLists THEN Loads(1) ELSE {}
    /\ disturbed = (list \in TabLists)
    /\ stored \in {{}} \cup {{New(1, k)} : k \in Keys}
    /\ list = "branding" => stored # {}
    /\ list = "off" => stored = {}
    /\ last = 1
    /\ queried \in IF list = "clients" THEN SUBSET Keys ELSE {{}}
    /\ runs = {}
    /\ done = 0
    /\ mishaps = 0

(* detected.length of a null: the tab throws, and the page with it. *)
Crashed == list = "clients" /\ open /\ detected.isNull

-----------------------------------------------------------------------------
(* Sending *)

Acts == /\ ~Crashed
        /\ done < MaxListActs
        /\ Cardinality(calls) <= ListPatience
        /\ done' = done + 1
        /\ UNCHANGED <<list, mishaps, serverVars>>

(* Two requests that are out together and do not commute on the screen: an   *)
(* edit and a load, or two edits of one row.                                 *)
Clash(c, d) ==
    \/ c.op \in ListChanges /\ d.op \in {"load", "detect"}
    \/ d.op \in ListChanges /\ c.op \in {"load", "detect"}
    \/ c.op \in ListChanges /\ d.op \in ListChanges /\ c.row.id = d.row.id /\ c.row.id # 0

(* others: what is out besides the requests that are sent.  A load of the    *)
(* whole list with nothing else out clears the list's excuses.               *)
SendAmong(others, new) ==
    /\ calls' = others \cup new
    /\ disturbed' =
         IF (\E c \in new : c.op = "load") /\ \A d \in others : ~d.mine /\ d.op \notin ListChanges THEN FALSE
         ELSE disturbed \/ \E c \in new, d \in others : Clash(c, d)

SendCall(op, row) == SendAmong(calls, {Call(Tag(calls), op, row)})
SendLoad == SendAmong(calls, Loads(Tag(calls)))

(* The tab is chosen in the side bar: a component mounts and loads. *)
OpenTab ==
    /\ list # "off" /\ ~Crashed /\ ~open
    /\ open' = TRUE
    /\ IF list \in TabLists
       THEN loading' = TRUE /\ SendLoad
       ELSE UNCHANGED <<loading, netVars>>
    /\ UNCHANGED <<shown, detected, running, timers, list, serverVars, done, mishaps>>

(* Another tab is: the component unmounts.  Its requests are still answered, *)
(* and its timers still fire, with no effect on a later mount.               *)
LeaveTab ==
    /\ Acts /\ open
    /\ open' = FALSE
    /\ IF list \in TabLists
       THEN /\ shown' = <<>> /\ loading' = FALSE /\ running' = {} /\ timers' = 0
            /\ calls' = {[c EXCEPT !.mine = FALSE] : c \in calls}
            /\ disturbed' = TRUE
       ELSE UNCHANGED <<shown, loading, running, timers, calls, disturbed>>
    /\ UNCHANGED detected

(* loadData and load of the components: the refresh button, Reset in the     *)
(* branding form; loadAll for the lists of the page.                         *)
RefreshList ==
    /\ Acts /\ open
    /\ list = "branding" => ~loading
    /\ loading' = (list \in TabLists)
    /\ SendLoad
    /\ UNCHANGED <<open, shown, detected, running, timers>>

(* The rows that can be clicked: those of subscriptions are hidden while the *)
(* list is loading.                                                          *)
OnScreen(r) ==
    /\ open /\ r \in ToSet(shown)
    /\ list \in {"subscriptions", "branding"} => ~loading

(* What a handler does before its await. *)
Ask(name, op, row) ==
    /\ list = name /\ Acts /\ open
    /\ SendCall(op, row)
    /\ UNCHANGED tabVars

AddKey(name, k) ==
    /\ last + Cardinality({c \in calls : c.op = "add" /\ c.st = "sent"}) < MaxId
    /\ Ask(name, "add", [Blank EXCEPT !.key = k])

HandleAddCategory(k) == AddKey("categories", k)
HandleDeleteCategory(r) == OnScreen(r) /\ Ask("categories", "delete", r)
HandleAddClient(k) == AddKey("clients", k)
HandleQuickAddClient(k) == k \in detected.ips /\ AddKey("clients", k)
HandleDeleteClient(r) == OnScreen(r) /\ Ask("clients", "delete", r)
AddToWhitelist(k) == AddKey("whitelist", k)
DeleteFromWhitelist(r) == OnScreen(r) /\ Ask("whitelist", "delete", r)
HandleAddSub(k) == AddKey("blocklists", k)
HandleDeleteSub(r) == OnScreen(r) /\ Ask("blocklists", "delete", r)
HandleAddSubscription(k) == AddKey("subscriptions", k)
HandleDeleteSubscription(r) == OnScreen(r) /\ Ask("subscriptions", "delete", r)
HandleToggleSubscription(r) == OnScreen(r) /\ Ask("subscriptions", "toggle", [r EXCEPT !.on = ~r.on])
HandleRunSubscription(r) == OnScreen(r) /\ Ask("subscriptions", "run", r)

(* A preset's button is disabled while its URL is among the subscriptions.   *)
HandleAddPreset(k) == k \notin KeysOf(ToSet(shown)) /\ AddKey("blocklists", k)

HandleRunSub(r) ==
    /\ list = "blocklists" /\ OnScreen(r) /\ r.id \notin running /\ Acts
    /\ running' = running \cup {r.id}
    /\ SendCall("run", r)
    /\ UNCHANGED <<open, shown, detected, loading, timers>>

(* The fields of the branding form, shown once it is loaded. *)
EditBranding(r) ==
    /\ list = "branding" /\ OnScreen(r) /\ Acts
    /\ shown' = <<[r EXCEPT !.on = ~r.on]>>
    /\ disturbed' = TRUE
    /\ UNCHANGED <<open, detected, loading, running, timers, calls>>

(* What is on the screen is sent whole; if nothing else is out, the server   *)
(* will have what is on the screen.                                          *)
HandleSaveBranding(r) ==
    /\ list = "branding" /\ OnScreen(r) /\ running = {} /\ Acts
    /\ running' = {r.id}
    /\ calls' = calls \cup {Call(Tag(calls), "save", r)}
    /\ disturbed' = (calls # {})
    /\ UNCHANGED <<open, shown, detected, loading, timers>>

(* setTimeout(load, 3000) *)
TimerFires ==
    /\ timers > 0 /\ ~Crashed
    /\ timers' = timers - 1
    /\ loading' = TRUE
    /\ SendLoad
    /\ UNCHANGED <<open, shown, detected, running, list, done, mishaps, serverVars>>

-----------------------------------------------------------------------------
(* The server *)

Answered(c, d) == calls' = (calls \ {c}) \cup {d}
Finished(c) == [c EXCEPT !.st = "done"]
RowsWithout(i) == {r \in stored : r.id # i}

ServeLoad(c) ==
    /\ c.op = "load"
    /\ Answered(c, [Finished(c) EXCEPT !.rows = stored])
    /\ UNCHANGED serverVars

(* detectedClients: a nil slice, sent as null, when there is nobody to list. *)
ServeDetect(c) ==
    /\ c.op = "detect"
    /\ LET new == queried \ KeysOf(stored)
       IN  Answered(c, [Finished(c) EXCEPT !.seen = [isNull |-> new = {}, ips |-> new]])
    /\ UNCHANGED serverVars

ServeAdd(c) ==
    /\ c.op = "add"
    /\ IF UniqueKeys /\ c.row.key \in KeysOf(stored)
       THEN Answered(c, [c EXCEPT !.st = "failed"]) /\ UNCHANGED serverVars
       ELSE /\ LET r == New(last + 1, c.row.key)
               IN  stored' = stored \cup {r} /\ Answered(c, [Finished(c) EXCEPT !.row = r])
            /\ last' = last + 1
            /\ UNCHANGED <<queried, runs>>

(* A PUT sends the row as it was on the screen, all of it. *)
ServePut(c) ==
    /\ c.op \in {"toggle", "save"}
    /\ IF c.row.id \notin NumbersOf(stored)
       THEN Answered(c, [c EXCEPT !.st = "failed"]) /\ UNCHANGED stored
       ELSE Answered(c, Finished(c)) /\ stored' = RowsWithout(c.row.id) \cup {c.row}
    /\ UNCHANGED <<last, queried, runs>>

ServeDelete(c) ==
    /\ c.op = "delete"
    /\ Answered(c, Finished(c))
    /\ stored' = RowsWithout(c.row.id)
    /\ UNCHANGED <<last, queried, runs>>

(* The answer says that the run has begun; the row is read at once. *)
ServeRun(c) ==
    /\ c.op = "run"
    /\ Answered(c, Finished(c))
    /\ runs' = runs \cup {r \in stored : r.id = c.row.id}
    /\ UNCHANGED <<stored, last, queried>>

ServeCall == \E c \in calls :
    /\ c.st = "sent"
    /\ \/ ServeLoad(c) \/ ServeDetect(c) \/ ServeAdd(c)
       \/ ServePut(c) \/ ServeDelete(c) \/ ServeRun(c)
    /\ UNCHANGED <<list, tabVars, disturbed, done, mishaps>>

(* A run ends: Save writes the row it read, deleted or edited though it may  *)
(* be by now.                                                                *)
RunEnds == \E r \in runs :
    /\ runs' = runs \ {r}
    /\ stored' = RowsWithout(r.id) \cup {[r EXCEPT !.ran = TRUE]}
    /\ disturbed' = TRUE
    /\ UNCHANGED <<list, tabVars, calls, last, queried, done, mishaps>>

Mishap == mishaps < MaxListFaults /\ mishaps' = mishaps + 1 /\ UNCHANGED <<list, tabVars, done>>

RefuseCall == \E c \in calls :
    /\ c.st = "sent" /\ Mishap
    /\ Answered(c, [c EXCEPT !.st = "failed"])
    /\ UNCHANGED <<disturbed, serverVars>>

(* The server has done its part, but its answer is lost. *)
LoseCall == \E c \in calls :
    /\ c.st = "done" /\ Mishap
    /\ Answered(c, [c EXCEPT !.st = "failed"])
    /\ disturbed' = TRUE
    /\ UNCHANGED serverVars

(* Another admin deletes a row, or the scheduler begins a run. *)
ChangeElsewhere == \E r \in stored :
    /\ Mishap /\ list # "branding"
    /\ \/ stored' = RowsWithout(r.id) /\ UNCHANGED runs
       \/ list \in {"blocklists", "subscriptions"} /\ runs' = runs \cup {r} /\ UNCHANGED stored
    /\ disturbed' = TRUE
    /\ UNCHANGED <<calls, last, queried>>

-----------------------------------------------------------------------------
(* Answers *)

Heard(c, st) == ~Crashed /\ c.mine /\ c.st = st /\ UNCHANGED <<list, open, serverVars, done, mishaps>>
Drop(c) == calls' = calls \ {c} /\ UNCHANGED disturbed

(* An answer to a mount that is gone, or to a page that has crashed. *)
Unheard(c) ==
    /\ c.st # "sent"
    /\ ~c.mine \/ Crashed
    /\ calls' = calls \ {c}
    /\ UNCHANGED <<list, tabVars, disturbed, serverVars, done, mishaps>>

(* setSubs, setClients, ... and finally setLoading(false), whatever else is  *)
(* out by then.                                                              *)
ListArrives(c) ==
    /\ Heard(c, "done") /\ c.op = "load"
    /\ \E s \in SetToSeqs(c.rows) : shown' = s
    /\ loading' = FALSE
    /\ Drop(c)
    /\ UNCHANGED <<detected, running, timers>>

DetectedArrive(c) ==
    /\ Heard(c, "done") /\ c.op = "detect"
    /\ detected' = c.seen
    /\ Drop(c)
    /\ UNCHANGED <<shown, loading, running, timers>>

(* The row of the answer is put at the end, at the front in subscriptions,   *)
(* and a new client's address leaves the detected ones.                      *)
Patched(c) == IF list = "subscriptions" THEN <<c.row>> \o shown ELSE Append(shown, c.row)

(* A slip: only the button of a detected address takes it off.               *)
AddArrivesKeeping(c) ==
    /\ Heard(c, "done") /\ c.op = "add" /\ list # "blocklists"
    /\ shown' = Patched(c)
    /\ UNCHANGED detected
    /\ Drop(c)
    /\ UNCHANGED <<loading, running, timers>>

AddArrives(c) ==
    /\ Heard(c, "done") /\ c.op = "add" /\ list # "blocklists"
    /\ shown' = Patched(c)
    /\ detected' = [detected EXCEPT !.ips = @ \ {c.row.key}]
    /\ Drop(c)
    /\ UNCHANGED <<loading, running, timers>>

(* In blocklists a subscription that was added or run makes loadData run.    *)
ReloadingArrives(c) ==
    /\ Heard(c, "done") /\ c.op \in {"add", "run"} /\ list = "blocklists"
    /\ loading' = TRUE
    /\ running' = IF c.op = "run" THEN running \ {c.row.id} ELSE running
    /\ SendAmong(calls \ {c}, Loads(Tag(calls \ {c})))
    /\ UNCHANGED <<shown, detected, timers>>

(* filter(r => r.id !== id): the rows that are kept, in their order.  It is  *)
(* SelectSeq of Sequences, whose definition is recursive, said by positions. *)
Without(s, id) ==
    LET kept == {i \in DOMAIN s : s[i].id # id}
        place(i) == Cardinality({j \in kept : j <= i})
    IN  [n \in 1 .. Cardinality(kept) |-> s[CHOOSE i \in kept : place(i) = n]]

(* A slip: the answer's handler filters the list of its own render.          *)
DeleteArrivesLate(c) ==
    /\ Heard(c, "done") /\ c.op = "delete"
    /\ shown' = IF Len(shown) > 1 THEN shown ELSE <<>>
    /\ Drop(c)
    /\ UNCHANGED <<detected, loading, running, timers>>

DeleteArrives(c) ==
    /\ Heard(c, "done") /\ c.op = "delete"
    /\ shown' = Without(shown, c.row.id)
    /\ Drop(c)
    /\ UNCHANGED <<detected, loading, running, timers>>

ToggleAnswered(c) ==
    /\ Heard(c, "done") /\ c.op = "toggle"
    /\ shown' = [i \in DOMAIN shown |-> IF shown[i].id = c.row.id THEN c.row ELSE shown[i]]
    /\ Drop(c)
    /\ UNCHANGED <<detected, loading, running, timers>>

RunAnswered(c) ==
    /\ Heard(c, "done") /\ c.op = "run" /\ list = "subscriptions"
    /\ timers' = timers + 1
    /\ Drop(c)
    /\ UNCHANGED <<shown, detected, loading, running>>

(* updateBranding answers with the row; the form stays as it is. *)
SaveAnswered(c) ==
    /\ Heard(c, "done") /\ c.op = "save"
    /\ running' = {}
    /\ Drop(c)
    /\ UNCHANGED <<shown, detected, loading, timers>>

(* Slips: nothing in a finally.                                              *)
CallFailsSpinning(c) ==
    /\ Heard(c, "failed")
    /\ calls' = calls \ {c}
    /\ disturbed' = (disturbed \/ c.op = "load")
    /\ UNCHANGED <<shown, detected, timers, loading, running>>

(* catch: a message or nothing; finally: the spinner that belongs to it. *)
CallFails(c) ==
    /\ Heard(c, "failed")
    /\ loading' = IF c.op = "load" THEN FALSE ELSE loading
    /\ running' = IF c.op \in {"run", "save"} THEN running \ {c.row.id} ELSE running
    /\ calls' = calls \ {c}
    /\ disturbed' = (disturbed \/ c.op \in {"load", "detect", "save"})
    /\ UNCHANGED <<shown, detected, timers>>

-----------------------------------------------------------------------------
(* What each part of a tab offers; the refresh button of the page's header   *)
(* stands above every tab whose list the page keeps.                         *)
PageHeader == list \in PageLists /\ RefreshList
WhitelistForm == \E k \in Keys : AddToWhitelist(k)
WhitelistTable == \E r \in ToSet(shown) : DeleteFromWhitelist(r)
CategoryForm == \E k \in Keys : HandleAddCategory(k)
CategoryTable == \E r \in ToSet(shown) : HandleDeleteCategory(r)
DetectedClients == \E k \in Keys : HandleQuickAddClient(k)
ClientForm == \E k \in Keys : HandleAddClient(k)
ClientTable == \E r \in ToSet(shown) : HandleDeleteClient(r)

BlocklistsHeader == list = "blocklists" /\ RefreshList
BlocklistForm == \E k \in Keys : HandleAddSub(k)
BlocklistCards == \E r \in ToSet(shown) : HandleRunSub(r) \/ HandleDeleteSub(r)
PresetsPicker == \E k \in Keys : HandleAddPreset(k)

SubscriptionsHeader == list = "subscriptions" /\ RefreshList
SubscriptionForm == \E k \in Keys : HandleAddSubscription(k)
SubscriptionsTable == \E r \in ToSet(shown) :
    HandleToggleSubscription(r) \/ HandleRunSubscription(r) \/ HandleDeleteSubscription(r)

BrandingReset == list = "branding" /\ RefreshList
BrandingFields == \E r \in ToSet(shown) : EditBranding(r)
BrandingSave == \E r \in ToSet(shown) : HandleSaveBranding(r)

ListUser ==
    \/ OpenTab \/ LeaveTab \/ PageHeader
    \/ WhitelistForm \/ WhitelistTable \/ CategoryForm \/ CategoryTable
    \/ DetectedClients \/ ClientForm \/ ClientTable
    \/ BlocklistsHeader \/ BlocklistForm \/ BlocklistCards \/ PresetsPicker
    \/ SubscriptionsHeader \/ SubscriptionForm \/ SubscriptionsTable
    \/ BrandingReset \/ BrandingFields \/ BrandingSave

ListAnswers == \E c \in calls :
    \/ Unheard(c) \/ ListArrives(c) \/ DetectedArrive(c) \/ AddArrives(c) \/ ReloadingArrives(c)
    \/ DeleteArrives(c) \/ ToggleAnswered(c) \/ RunAnswered(c) \/ SaveAnswered(c) \/ CallFails(c)

ListNext ==
    \/ ListUser \/ TimerFires
    \/ ServeCall \/ RunEnds
    \/ ListAnswers
    \/ RefuseCall \/ LoseCall \/ ChangeElsewhere

-----------------------------------------------------------------------------
(* Properties *)

CallOK(c) ==
    /\ c.n \in Nat
    /\ c.op \in ListChanges \cup {"load", "detect", "run"}
    /\ c.row.id \in 0 .. last /\ c.row.key \in Keys /\ c.row.on \in BOOLEAN /\ c.row.ran \in BOOLEAN
    /\ c.st \in {"sent", "done", "failed"}
    /\ c.rows \subseteq ListRow
    /\ c.seen \in [isNull : BOOLEAN, ips : SUBSET Keys]
    /\ c.mine \in BOOLEAN

ListTypeOK ==
    /\ open \in BOOLEAN /\ loading \in BOOLEAN /\ disturbed \in BOOLEAN
    /\ ToSet(shown) \subseteq ListRow
    /\ detected \in [isNull : BOOLEAN, ips : SUBSET Keys]
    /\ running \subseteq 1 .. last
    /\ timers \in Nat
    /\ \A c \in calls : CallOK(c)
    /\ stored \subseteq ListRow /\ runs \subseteq ListRow
    /\ last \in Id /\ \A r \in stored \cup runs : r.id <= last

(* Whatever a list does after an edit, load again or patch itself with the   *)
(* answer, once its requests are answered it shows the rows the server has,  *)
(* each once: an edit may be out with another one, of another row, or an     *)
(* edit may be refused.  It has an excuse only when an edit was out together *)
(* with a load or another edit of the same row, a load failed, an answer was *)
(* lost, or the rows were changed by somebody else or by the end of a run.   *)
PatientSeesServer ==
    (list \in PageLists \/ open) /\ calls = {} /\ ~disturbed /\ ~Crashed =>
        ToSet(shown) = stored /\ Len(shown) = Cardinality(stored)

(* On the same terms an address is never offered as a client to add while it *)
(* is in the table of clients below (lines 417 and 435).                     *)
DetectedAreUnmanaged ==
    list = "clients" /\ calls = {} /\ ~disturbed => detected.ips \cap KeysOf(ToSet(shown)) = {}

(* A spinner that turns, or a button that is disabled, waits for a request   *)
(* that is out, of this mount (finally blocks of the handlers).              *)
ListSpinnersAreHonest ==
    /\ loading => \E c \in calls : c.op = "load" /\ c.mine
    /\ \A i \in running : \E c \in calls : c.op \in {"run", "save"} /\ c.row.id = i /\ c.mine

(* The tab comes to rest: spinners, disabled buttons, requests and timers.   *)
ListAtRest == Crashed \/ (calls = {} /\ ~loading /\ running = {} /\ timers = 0)
===============================================================================
