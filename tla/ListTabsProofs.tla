----------------------------- MODULE ListTabsProofs -----------------------------
(* Proofs about ListTabs for any rows and bounds: every spinner and every    *)
(* disabled button of a list waits for a request of the mount that shows it. *)
EXTENDS ListTabs, TLAPS, FiniteSetTheorems

------------------------------------------------------------------------------
(* The inductive invariant.                                                  *)

(* A request has the fields of Call. *)
Fields == {"n", "op", "row", "st", "rows", "seen", "mine"}
Whole(c) == DOMAIN c = Fields

(* Only the components have a spinner, only two of them buttons to disable,  *)
(* only subscriptions a timer: a page that crashed, dropping its answers,    *)
(* has nothing that waits for them.                                          *)
NoSpinnerHere ==
    /\ list \notin TabLists => ~loading
    /\ list \notin {"blocklists", "branding"} => running = {}
    /\ list # "subscriptions" => timers = 0

ListSpin == ListSpinnersAreHonest /\ NoSpinnerHere /\ \A c \in calls : Whole(c)

(* What a spinner and a disabled button wait for. *)
IsLoad(c) == c.op = "load" /\ c.mine
IsRun(c) == c.op \in {"run", "save"} /\ c.mine

------------------------------------------------------------------------------
(* Requests.                                                                 *)

(* A new request is whole, and of the mount that sends it. *)
LEMMA NewCall ==
    ASSUME NEW n, NEW op, NEW row
    PROVE  /\ Whole(Call(n, op, row))
           /\ Call(n, op, row).op = op /\ Call(n, op, row).row = row /\ Call(n, op, row).mine
  BY DEF Call, Whole, Fields

(* Changing a field of a request leaves the others. *)
LEMMA EditedCall ==
    ASSUME NEW c, Whole(c), NEW x
    PROVE  /\ LET d == [c EXCEPT !.st = x]
              IN  Whole(d) /\ d.op = c.op /\ d.row = c.row /\ d.mine = c.mine
           /\ LET d == [c EXCEPT !.rows = x]
              IN  Whole(d) /\ d.op = c.op /\ d.row = c.row /\ d.mine = c.mine
           /\ LET d == [c EXCEPT !.seen = x]
              IN  Whole(d) /\ d.op = c.op /\ d.row = c.row /\ d.mine = c.mine
           /\ LET d == [c EXCEPT !.row = x]
              IN  Whole(d) /\ d.op = c.op /\ d.mine = c.mine
           /\ Whole([c EXCEPT !.mine = x])
  BY Zenon DEF Whole, Fields

(* The requests of a load are whole, and one loads the list. *)
LEMMA LoadsOK ==
    ASSUME NEW n
    PROVE  (\A c \in Loads(n) : Whole(c)) /\ \E c \in Loads(n) : IsLoad(c)
<1> DEFINE load == Call(n, "load", Blank)
           detect == Call(n, "detect", Blank)
<1>1. Whole(load) /\ load.op = "load" /\ load.mine /\ Whole(detect)
  BY NewCall
<1>2. Loads(n) = IF list = "clients" THEN {load, detect} ELSE {load}
  BY DEF Loads
<1> HIDE DEF load, detect
<1> QED
  BY <1>1, <1>2 DEF IsLoad

(* A load that is sent is out, with all that was out. *)
LEMMA SendLoadOK ==
    ASSUME ListSpin, SendLoad
    PROVE  calls \subseteq calls' /\ (\A c \in calls' : Whole(c)) /\ \E c \in calls' : IsLoad(c)
<1>1. calls' = calls \cup Loads(Tag(calls))
  BY Zenon DEF SendLoad, SendAmong
<1> QED
  BY <1>1, LoadsOK, Zenon DEF ListSpin

(* So is any other request. *)
LEMMA SendCallOK ==
    ASSUME ListSpin, NEW op, NEW row, SendCall(op, row)
    PROVE  /\ calls \subseteq calls' /\ (\A c \in calls' : Whole(c))
           /\ \E c \in calls' : c.op = op /\ c.row = row /\ c.mine
<1> DEFINE new == Call(Tag(calls), op, row)
<1>1. calls' = calls \cup {new}
  BY Zenon DEF SendCall, SendAmong
<1>2. Whole(new) /\ new.op = op /\ new.row = row /\ new.mine
  BY NewCall
<1> HIDE DEF new
<1> QED
  BY <1>1, <1>2 DEF ListSpin

------------------------------------------------------------------------------
(* The steps.                                                                *)

(* Requests come, none goes; what is shown stays. *)
LEMMA SendStep ==
    ASSUME ListSpin, calls \subseteq calls', \A c \in calls' : Whole(c),
           UNCHANGED <<list, loading, running, timers>>
    PROVE  ListSpin'
  BY Zenon DEF ListSpin, ListSpinnersAreHonest, NoSpinnerHere

(* The spinner of a component begins to turn for a load that is sent, and of *)
(* the requests that are gone none is one that a button waits for.           *)
LEMMA SpinStep ==
    ASSUME ListSpin, NEW gone, calls \ gone \subseteq calls', \A d \in calls' : Whole(d),
           \E d \in calls' : IsLoad(d),
           UNCHANGED list, list \notin TabLists => ~loading',
           running' \subseteq running, \A c \in gone : IsRun(c) => c.row.id \notin running',
           list # "subscriptions" => timers' = 0
    PROVE  ListSpin'
<1>1. loading' => \E d \in calls' : d.op = "load" /\ d.mine
  BY DEF IsLoad
<1>2. ASSUME NEW i \in running'
      PROVE  \E d \in calls' : d.op \in {"run", "save"} /\ d.row.id = i /\ d.mine
  <2>1. PICK d \in calls : d.op \in {"run", "save"} /\ d.row.id = i /\ d.mine
    BY <1>2 DEF ListSpin, ListSpinnersAreHonest
  <2>2. d \notin gone
    BY <1>2, <2>1 DEF IsRun
  <2> QED
    BY <2>1, <2>2
<1>3. list' \notin {"blocklists", "branding"} => running' = {}
  BY DEF ListSpin, NoSpinnerHere
<1> QED
  BY <1>1, <1>2, <1>3, Zenon DEF ListSpin, ListSpinnersAreHonest, NoSpinnerHere

(* The same, when no request is gone. *)
LEMMA SpinMore ==
    ASSUME ListSpin, calls \subseteq calls', \A d \in calls' : Whole(d),
           \E d \in calls' : IsLoad(d),
           UNCHANGED <<list, running>>, list \notin TabLists => ~loading',
           list # "subscriptions" => timers' = 0
    PROVE  ListSpin'
<1> DEFINE gone == {}
<1>1. calls \ gone \subseteq calls' /\ \A c \in gone : IsRun(c) => c.row.id \notin running'
  OBVIOUS
<1> HIDE DEF gone
<1> QED
  BY <1>1, SpinStep

(* A request ends, and with it what waits for it. *)
LEMMA EndStep ==
    ASSUME ListSpin, NEW c \in calls, calls' = calls \ {c},
           UNCHANGED list,
           loading' => loading /\ ~IsLoad(c),
           running' \subseteq running, IsRun(c) => c.row.id \notin running',
           list # "subscriptions" => timers' = 0
    PROVE  ListSpin'
<1>1. loading' => \E d \in calls' : d.op = "load" /\ d.mine
  BY DEF ListSpin, ListSpinnersAreHonest, IsLoad
<1>2. ASSUME NEW i \in running'
      PROVE  \E d \in calls' : d.op \in {"run", "save"} /\ d.row.id = i /\ d.mine
  <2>1. PICK d \in calls : d.op \in {"run", "save"} /\ d.row.id = i /\ d.mine
    BY <1>2 DEF ListSpin, ListSpinnersAreHonest
  <2>2. d # c
    BY <1>2, <2>1 DEF IsRun
  <2> QED
    BY <2>1, <2>2
<1>3. NoSpinnerHere'
  <2>1. list' \notin {"blocklists", "branding"} => running' = {}
    BY DEF ListSpin, NoSpinnerHere
  <2>2. list' \notin TabLists => ~loading'
    BY DEF ListSpin, NoSpinnerHere
  <2> QED
    BY <2>1, <2>2 DEF NoSpinnerHere
<1>4. \A d \in calls' : Whole(d)
  BY DEF ListSpin
<1> QED
  BY <1>1, <1>2, <1>3, <1>4 DEF ListSpin, ListSpinnersAreHonest

(* The server does its part in a request. *)
LEMMA AnsweredStep ==
    ASSUME ListSpin, NEW c \in calls, NEW d, Answered(c, d),
           Whole(d), d.op = c.op, d.mine = c.mine, c.op # "add" => d.row = c.row,
           UNCHANGED <<list, loading, running, timers>>
    PROVE  ListSpin'
<1>1. calls' = (calls \ {c}) \cup {d}
  BY DEF Answered
<1>2. \A x \in calls : \E y \in calls' : x.op = y.op /\ x.mine = y.mine /\ (x.op # "add" => y.row = x.row)
  BY <1>1
<1>3. loading' => \E y \in calls' : y.op = "load" /\ y.mine
  BY <1>2 DEF ListSpin, ListSpinnersAreHonest
<1>4. ASSUME NEW i \in running'
      PROVE  \E y \in calls' : y.op \in {"run", "save"} /\ y.row.id = i /\ y.mine
  <2>1. PICK x \in calls : x.op \in {"run", "save"} /\ x.row.id = i /\ x.mine
    BY <1>4 DEF ListSpin, ListSpinnersAreHonest
  <2> QED
    BY <1>2, <2>1
<1>5. (\A y \in calls' : Whole(y)) /\ NoSpinnerHere'
  BY <1>1, Zenon DEF ListSpin, NoSpinnerHere
<1> QED
  BY <1>3, <1>4, <1>5 DEF ListSpin, ListSpinnersAreHonest

(* A handler asks. *)
LEMMA AskStep ==
    ASSUME ListSpin, NEW name, NEW op, NEW row, Ask(name, op, row)
    PROVE  ListSpin'
<1>1. UNCHANGED <<list, loading, running, timers>>
  BY DEF Ask, Acts, tabVars
<1>2. calls \subseteq calls' /\ \A c \in calls' : Whole(c)
  BY SendCallOK DEF Ask
<1> QED
  BY <1>1, <1>2, SendStep

(* A tab is opened, and its component loads. *)
LEMMA OpenTabStep ==
    ASSUME ListSpin, OpenTab
    PROVE  ListSpin'
<1>1. UNCHANGED <<list, running, timers>>
  BY DEF OpenTab
<1>2. CASE list \in TabLists
  <2>1. calls \subseteq calls' /\ (\A c \in calls' : Whole(c)) /\ \E c \in calls' : IsLoad(c)
    BY <1>2, SendLoadOK DEF OpenTab
  <2>2. list # "subscriptions" => timers' = 0
    BY <1>1 DEF ListSpin, NoSpinnerHere
  <2> QED
    BY <1>1, <1>2, <2>1, <2>2, SpinMore
<1>3. CASE list \notin TabLists
  <2>1. UNCHANGED <<loading, calls>>
    BY <1>3 DEF OpenTab, netVars
  <2> QED
    BY <1>1, <2>1, SendStep DEF ListSpin
<1> QED
  BY <1>2, <1>3
(* The list is loaded again. *)
LEMMA RefreshStep ==
    ASSUME ListSpin, RefreshList
    PROVE  ListSpin'
<1>1. UNCHANGED <<list, running, timers>> /\ loading' = (list \in TabLists)
  BY DEF RefreshList, Acts
<1>2. calls \subseteq calls' /\ (\A c \in calls' : Whole(c)) /\ \E c \in calls' : IsLoad(c)
  BY SendLoadOK DEF RefreshList
<1>3. list \notin TabLists => ~loading'
  BY <1>1, Zenon
<1>4. list # "subscriptions" => timers' = 0
  BY <1>1 DEF ListSpin, NoSpinnerHere
<1> QED
  BY <1>1, <1>2, <1>3, <1>4, SpinMore

(* The timer of a run loads the subscriptions. *)
LEMMA TimerStep ==
    ASSUME ListSpin, TimerFires
    PROVE  ListSpin'
<1>1. UNCHANGED <<list, running>> /\ timers > 0
  BY DEF TimerFires
<1>2. calls \subseteq calls' /\ (\A c \in calls' : Whole(c)) /\ \E c \in calls' : IsLoad(c)
  BY SendLoadOK DEF TimerFires
<1>3. list = "subscriptions"
  BY <1>1 DEF ListSpin, NoSpinnerHere
<1>4. list \in TabLists
  BY <1>3 DEF TabLists
<1> QED
  BY <1>1, <1>2, <1>3, <1>4, SpinMore

(* The tab is left: nothing waits any more. *)
LEMMA LeaveTabStep ==
    ASSUME ListSpin, LeaveTab
    PROVE  ListSpin'
<1>1. UNCHANGED list
  BY DEF LeaveTab, Acts
<1>2. CASE list \in TabLists
  <2>1. /\ loading' = FALSE /\ running' = {} /\ timers' = 0
        /\ calls' = {[c EXCEPT !.mine = FALSE] : c \in calls}
    BY <1>2 DEF LeaveTab
  <2>2. \A d \in calls' : Whole(d)
    <3>1. ASSUME NEW c \in calls
          PROVE  Whole([c EXCEPT !.mine = FALSE])
      <4>1. Whole(c)
        BY DEF ListSpin
      <4> QED
        BY <4>1, Zenon DEF Whole, Fields
    <3> QED
      BY <2>1, <3>1, Zenon
  <2> QED
    BY <1>1, <2>1, <2>2 DEF ListSpin, ListSpinnersAreHonest, NoSpinnerHere
<1>3. CASE list \notin TabLists
  <2>1. UNCHANGED <<loading, running, timers, calls>>
    BY <1>3 DEF LeaveTab
  <2> QED
    BY <1>1, <2>1, SendStep DEF ListSpin
<1> QED
  BY <1>2, <1>3

(* A button is disabled and the request it waits for sent. *)
LEMMA DisableStep ==
    ASSUME ListSpin, calls \subseteq calls', \A c \in calls' : Whole(c),
           NEW i, \E c \in calls' : c.op \in {"run", "save"} /\ c.row.id = i /\ c.mine,
           running' \subseteq running \cup {i}, list \in {"blocklists", "branding"},
           UNCHANGED <<list, loading, timers>>
    PROVE  ListSpin'
<1>1. loading' => \E c \in calls' : c.op = "load" /\ c.mine
  BY DEF ListSpin, ListSpinnersAreHonest
<1>2. \A j \in running' : \E c \in calls' : c.op \in {"run", "save"} /\ c.row.id = j /\ c.mine
  BY DEF ListSpin, ListSpinnersAreHonest
<1>3. NoSpinnerHere'
  BY Zenon DEF ListSpin, NoSpinnerHere
<1> QED
  BY <1>1, <1>2, <1>3 DEF ListSpin, ListSpinnersAreHonest

(* A run is asked for, and its button disabled. *)
LEMMA HandleRunSubStep ==
    ASSUME ListSpin, NEW r, HandleRunSub(r)
    PROVE  ListSpin'
<1>1. /\ list = "blocklists" /\ running' = running \cup {r.id}
      /\ UNCHANGED <<list, loading, timers>>
  BY DEF HandleRunSub, Acts
<1>2. /\ calls \subseteq calls' /\ \A c \in calls' : Whole(c)
      /\ \E c \in calls' : c.op = "run" /\ c.row = r /\ c.mine
  BY SendCallOK DEF HandleRunSub
<1> QED
  BY <1>1, <1>2, DisableStep

(* The branding is saved, and the button disabled. *)
LEMMA HandleSaveBrandingStep ==
    ASSUME ListSpin, NEW r, HandleSaveBranding(r)
    PROVE  ListSpin'
<1> DEFINE new == Call(Tag(calls), "save", r)
<1>1. /\ list = "branding" /\ running' = {r.id} /\ calls' = calls \cup {new}
      /\ UNCHANGED <<list, loading, timers>>
  BY DEF HandleSaveBranding, Acts
<1>2. Whole(new) /\ new.op = "save" /\ new.row = r /\ new.mine
  BY NewCall
<1> HIDE DEF new
<1>3. /\ calls \subseteq calls' /\ \A c \in calls' : Whole(c)
      /\ \E c \in calls' : c.op = "save" /\ c.row = r /\ c.mine
  BY <1>1, <1>2 DEF ListSpin
<1> QED
  BY <1>1, <1>3, DisableStep

(* Every step of the user is one of these. *)
LEMMA UserCases ==
    ASSUME ListUser
    PROVE  \/ OpenTab \/ LeaveTab \/ RefreshList
           \/ \E name, op, row : Ask(name, op, row)
           \/ \E r : HandleRunSub(r) \/ EditBranding(r) \/ HandleSaveBranding(r)
<1>1. ASSUME NEW name, NEW k, AddKey(name, k)
      PROVE  \E op, row : Ask(name, op, row)
  BY <1>1, Zenon DEF AddKey
<1> QED
  BY <1>1, Zenon
  DEF ListUser, PageHeader, WhitelistForm, WhitelistTable, CategoryForm, CategoryTable, DetectedClients,
      ClientForm, ClientTable, BlocklistsHeader, BlocklistForm, BlocklistCards, PresetsPicker,
      SubscriptionsHeader, SubscriptionForm, SubscriptionsTable, BrandingReset, BrandingFields, BrandingSave,
      HandleAddCategory, HandleDeleteCategory, HandleAddClient, HandleQuickAddClient, HandleDeleteClient,
      AddToWhitelist, DeleteFromWhitelist, HandleAddSub, HandleDeleteSub, HandleAddSubscription,
      HandleDeleteSubscription, HandleToggleSubscription, HandleRunSubscription, HandleAddPreset

(* All steps of the user. *)
LEMMA UserStep ==
    ASSUME ListSpin, ListUser
    PROVE  ListSpin'
<1>1. ASSUME NEW r, EditBranding(r)
      PROVE  ListSpin'
  <2>1. UNCHANGED <<list, loading, running, timers, calls>>
    BY <1>1 DEF EditBranding, Acts
  <2> QED
    BY <2>1, SendStep DEF ListSpin
<1>2. \/ OpenTab \/ LeaveTab \/ RefreshList
      \/ \E name, op, row : Ask(name, op, row)
      \/ \E r : HandleRunSub(r) \/ EditBranding(r) \/ HandleSaveBranding(r)
  BY UserCases
<1> QED
  BY <1>1, <1>2, OpenTabStep, LeaveTabStep, RefreshStep, AskStep, HandleRunSubStep,
     HandleSaveBrandingStep, Zenon
(* The server's steps. *)
LEMMA ServeCallStep ==
    ASSUME ListSpin, ServeCall
    PROVE  ListSpin'
<1>1. PICK c \in calls :
        /\ ServeLoad(c) \/ ServeDetect(c) \/ ServeAdd(c) \/ ServePut(c) \/ ServeDelete(c) \/ ServeRun(c)
        /\ UNCHANGED <<list, tabVars>>
  BY Zenon DEF ServeCall
<1>2. UNCHANGED <<list, loading, running, timers>> /\ Whole(c)
  BY <1>1 DEF tabVars, ListSpin
<1> DEFINE done1 == Finished(c)
           failed1 == [c EXCEPT !.st = "failed"]
<1>3. /\ Whole(done1) /\ done1.op = c.op /\ done1.row = c.row /\ done1.mine = c.mine
      /\ Whole(failed1) /\ failed1.op = c.op /\ failed1.row = c.row /\ failed1.mine = c.mine
  BY <1>2, EditedCall, Zenon DEF Finished
<1> HIDE DEF done1, failed1
<1>4. CASE ServeLoad(c)
  <2> DEFINE d == [done1 EXCEPT !.rows = stored]
  <2>1. Whole(d) /\ d.op = c.op /\ d.row = c.row /\ d.mine = c.mine
    BY <1>3, EditedCall, Zenon
  <2>2. Answered(c, d)
    BY <1>4, Zenon DEF ServeLoad, done1
  <2> HIDE DEF d
  <2> QED
    BY <1>2, <2>1, <2>2, AnsweredStep
<1>5. CASE ServeDetect(c)
  <2>1. PICK x : Answered(c, [done1 EXCEPT !.seen = x])
    BY <1>5, Zenon DEF ServeDetect, done1
  <2> DEFINE d == [done1 EXCEPT !.seen = x]
  <2>2. Whole(d) /\ d.op = c.op /\ d.row = c.row /\ d.mine = c.mine
    BY <1>3, EditedCall, Zenon
  <2>3. Answered(c, d)
    BY <2>1, Zenon
  <2> HIDE DEF d
  <2> QED
    BY <1>2, <2>2, <2>3, AnsweredStep
<1>6. CASE ServeAdd(c)
  <2>1. Answered(c, failed1) \/ \E x : Answered(c, [done1 EXCEPT !.row = x])
    BY <1>6, Zenon DEF ServeAdd, done1, failed1
  <2>2. CASE Answered(c, failed1)
    BY <1>2, <1>3, <2>2, AnsweredStep
  <2>3. ASSUME NEW x, Answered(c, [done1 EXCEPT !.row = x])
        PROVE  ListSpin'
    <3> DEFINE d == [done1 EXCEPT !.row = x]
    <3>1. Whole(d) /\ d.op = c.op /\ d.mine = c.mine /\ c.op = "add"
      BY <1>3, <1>6, EditedCall, Zenon DEF ServeAdd
    <3>2. Answered(c, d)
      BY <2>3, Zenon
    <3> HIDE DEF d
    <3> QED
      BY <1>2, <3>1, <3>2, AnsweredStep
  <2> QED
    BY <2>1, <2>2, <2>3, Zenon
<1>7. CASE ServePut(c) \/ ServeDelete(c) \/ ServeRun(c)
  <2>1. Answered(c, done1) \/ Answered(c, failed1)
    BY <1>7, Zenon DEF ServePut, ServeDelete, ServeRun, done1, failed1
  <2> QED
    BY <1>2, <1>3, <2>1, AnsweredStep
<1> QED
  BY <1>1, <1>4, <1>5, <1>6, <1>7

(* Requests that fail, and what happens elsewhere. *)
LEMMA ElsewhereStep ==
    ASSUME ListSpin, RunEnds \/ RefuseCall \/ LoseCall \/ ChangeElsewhere
    PROVE  ListSpin'
<1>1. UNCHANGED <<list, loading, running, timers>>
  BY DEF RunEnds, RefuseCall, LoseCall, ChangeElsewhere, Mishap, tabVars
<1>2. CASE RunEnds \/ ChangeElsewhere
  <2>1. calls' = calls
    BY <1>2 DEF RunEnds, ChangeElsewhere
  <2> QED
    BY <1>1, <2>1, SendStep DEF ListSpin
<1>3. CASE RefuseCall \/ LoseCall
  <2>1. PICK c \in calls : Answered(c, [c EXCEPT !.st = "failed"])
    BY <1>3, Zenon DEF RefuseCall, LoseCall
  <2> DEFINE d == [c EXCEPT !.st = "failed"]
  <2>2. Whole(d) /\ d.op = c.op /\ d.row = c.row /\ d.mine = c.mine
    BY EditedCall, Zenon DEF ListSpin
  <2>3. Answered(c, d)
    BY <2>1, Zenon
  <2> HIDE DEF d
  <2> QED
    BY <1>1, <2>2, <2>3, AnsweredStep
<1> QED
  BY <1>2, <1>3

(* The answers. *)
LEMMA UnheardStep ==
    ASSUME ListSpin, NEW c \in calls, Unheard(c)
    PROVE  ListSpin'
<1>1. calls' = calls \ {c} /\ UNCHANGED <<list, loading, running, timers>>
  BY DEF Unheard, tabVars
<1>2. list # "subscriptions" => timers' = 0
  BY <1>1 DEF ListSpin, NoSpinnerHere
<1>3. CASE ~c.mine
  BY <1>1, <1>2, <1>3, EndStep DEF IsLoad, IsRun
<1>4. CASE Crashed
  <2>1. list = "clients"
    BY <1>4 DEF Crashed
  <2>2. ~loading /\ running = {}
    BY <2>1 DEF ListSpin, NoSpinnerHere, TabLists
  <2> QED
    BY <1>1, <1>2, <2>2, EndStep
<1> QED
  BY <1>3, <1>4 DEF Unheard

(* An answer is handled; finally blocks end what waited for it. *)
LEMMA ListAnswerStep ==
    ASSUME ListSpin, NEW c \in calls,
           \/ ListArrives(c) \/ DetectedArrive(c) \/ AddArrives(c)
           \/ DeleteArrives(c) \/ ToggleAnswered(c) \/ RunAnswered(c) \/ SaveAnswered(c) \/ CallFails(c)
    PROVE  ListSpin'
<1>1. calls' = calls \ {c} /\ UNCHANGED list
  BY DEF Heard, Drop, ListArrives, DetectedArrive, AddArrives, DeleteArrives, ToggleAnswered,
         RunAnswered, SaveAnswered, CallFails
<1>2. list # "subscriptions" => timers' = 0
  <2>1. timers' = timers \/ list = "subscriptions"
    BY DEF ListArrives, DetectedArrive, AddArrives, DeleteArrives, ToggleAnswered,
           RunAnswered, SaveAnswered, CallFails
  <2> QED
    BY <2>1 DEF ListSpin, NoSpinnerHere
<1>3. CASE ListArrives(c)
  <2>1. loading' = FALSE /\ running' = running /\ c.op = "load"
    BY <1>3 DEF ListArrives
  <2> QED
    BY <1>1, <1>2, <2>1, EndStep DEF IsRun
<1>4. CASE DetectedArrive(c) \/ AddArrives(c) \/ DeleteArrives(c) \/ ToggleAnswered(c)
  <2>1. UNCHANGED <<loading, running>> /\ c.op \in {"detect", "add", "delete", "toggle"}
    BY <1>4 DEF DetectedArrive, AddArrives, DeleteArrives, ToggleAnswered
  <2> QED
    BY <1>1, <1>2, <2>1, EndStep DEF IsRun, IsLoad
<1>5. CASE RunAnswered(c)
  <2>1. UNCHANGED <<loading, running>> /\ c.op = "run" /\ list = "subscriptions"
    BY <1>5 DEF RunAnswered
  <2>2. running = {}
    BY <2>1 DEF ListSpin, NoSpinnerHere
  <2> QED
    BY <1>1, <1>2, <2>1, <2>2, EndStep DEF IsLoad
<1>6. CASE SaveAnswered(c)
  <2>1. loading' = loading /\ running' = {} /\ c.op = "save"
    BY <1>6 DEF SaveAnswered
  <2> QED
    BY <1>1, <1>2, <2>1, EndStep DEF IsLoad
<1>7. CASE CallFails(c)
  <2>1. loading' => loading /\ ~IsLoad(c)
    BY <1>7 DEF CallFails, IsLoad
  <2>2. running' \subseteq running /\ (IsRun(c) => c.row.id \notin running')
    BY <1>7 DEF CallFails, IsRun
  <2> QED
    BY <1>1, <1>2, <2>1, <2>2, EndStep
<1> QED
  BY <1>3, <1>4, <1>5, <1>6, <1>7

(* The answer of blocklists that makes the list load again. *)
LEMMA ReloadingStep ==
    ASSUME ListSpin, NEW c \in calls, ReloadingArrives(c)
    PROVE  ListSpin'
<1> DEFINE n == Tag(calls \ {c})
<1>1. /\ UNCHANGED <<list, timers>> /\ list = "blocklists"
      /\ running' = IF c.op = "run" THEN running \ {c.row.id} ELSE running
      /\ c.op \in {"add", "run"}
  BY DEF ReloadingArrives, Heard
<1>2. calls' = (calls \ {c}) \cup Loads(n)
  BY Zenon DEF ReloadingArrives, SendAmong
<1>3. (\A d \in Loads(n) : Whole(d)) /\ \E d \in Loads(n) : IsLoad(d)
  BY LoadsOK, Zenon
<1> HIDE DEF n
<1> DEFINE gone == {c}
<1>4. calls \ gone \subseteq calls' /\ (\A d \in calls' : Whole(d)) /\ \E d \in calls' : IsLoad(d)
  BY <1>2, <1>3 DEF ListSpin
<1>5. running' \subseteq running /\ \A d \in gone : IsRun(d) => d.row.id \notin running'
  BY <1>1 DEF IsRun
<1>6. list \in TabLists /\ (list # "subscriptions" => timers' = 0)
  BY <1>1 DEF TabLists, ListSpin, NoSpinnerHere
<1> HIDE DEF gone
<1> QED
  BY <1>1, <1>4, <1>5, <1>6, SpinStep

------------------------------------------------------------------------------
(* A list begins with its spinner still and nothing disabled.                *)
LEMMA ListInitSpin ==
    ASSUME ListInit
    PROVE  ListSpin
<1>1. loading = FALSE /\ running = {} /\ timers = 0
      /\ calls = IF list \in PageLists THEN Loads(1) ELSE {}
  BY DEF ListInit
<1>2. \A c \in Loads(1) : Whole(c)
  BY LoadsOK
<1> QED
  BY <1>1, <1>2 DEF ListSpin, ListSpinnersAreHonest, NoSpinnerHere

(* Every step of a list keeps the invariant. *)
LEMMA ListNextSpin ==
    ASSUME ListSpin, ListNext
    PROVE  ListSpin'
  BY UserStep, TimerStep, ServeCallStep, ElsewhereStep, UnheardStep, ListAnswerStep, ReloadingStep, Zenon
  DEF ListNext, ListAnswers

(* So does a step of the other half of the page, or none. *)
LEMMA ListStays ==
    ASSUME ListSpin, UNCHANGED listVars
    PROVE  ListSpin'
<1>1. UNCHANGED <<list, loading, running, timers, calls>>
  BY DEF listVars, tabVars, netVars
<1> QED
  BY <1>1, SendStep DEF ListSpin

------------------------------------------------------------------------------
(* Types.                                                                    *)

AnyRow == [id : Nat, key : Keys, on : BOOLEAN, ran : BOOLEAN]
Seen == [isNull : BOOLEAN, ips : SUBSET Keys]
CallSet == [n : Nat, op : ListChanges \cup {"load", "detect", "run"}, row : AnyRow,
            st : {"sent", "done", "failed"}, rows : SUBSET ListRow, seen : Seen, mine : BOOLEAN]

(* Rows with numbers that were given out. *)
Given(S) == S \subseteq ListRow /\ IsFiniteSet(S) /\ \A r \in S : r.id <= last

(* Whoever is asked about, or has been added, has a number. *)
HasRow(c) ==
    c.op \in {"delete", "toggle", "save", "run"} \/ (c.op = "add" /\ c.st = "done") => c.row.id # 0

(* The numbers that are left are enough for the rows that are to be added. *)
SentAdds == {c \in calls : c.op = "add" /\ c.st = "sent"}
NumbersLeft == last + Cardinality(SentAdds) <= MaxId

ScreenTypes ==
    /\ open \in BOOLEAN /\ loading \in BOOLEAN
    /\ shown \in Seq(ListRow) /\ Given(ToSet(shown))
    /\ detected \in Seen
    /\ running \subseteq 1 .. last
    /\ timers \in Nat

NetTypes ==
    /\ disturbed \in BOOLEAN
    /\ calls \subseteq CallSet /\ IsFiniteSet(calls)
    /\ \A c \in calls : c.row.id <= last /\ Given(c.rows) /\ HasRow(c)

ServerTypes ==
    /\ last \in Id
    /\ Given(stored)
    /\ runs \subseteq ListRow /\ \A r \in runs : r.id <= last
    /\ queried \subseteq Keys
    /\ NumbersLeft

ListTypes == ScreenTypes /\ NetTypes /\ ServerTypes

(* The bounds are numbers. *)
LEMMA ListBounds == MaxId \in Nat \ {0, 1} /\ Keys # {}
  BY ListTabsAssumption

(* What no row and nobody is has a type, too. *)
LEMMA BlankOK == Blank \in AnyRow /\ Blank.id = 0 /\ Nobody \in Seen
<1>1. (CHOOSE k \in Keys : TRUE) \in Keys
  BY ListBounds
<1> QED
  BY <1>1 DEF Blank, AnyRow, Nobody, Seen

(* A request that is sent has the type of one. *)
LEMMA CallTyped ==
    ASSUME NEW n \in Nat, NEW op \in ListChanges \cup {"load", "detect", "run"}, NEW row \in AnyRow
    PROVE  /\ Call(n, op, row) \in CallSet
           /\ Call(n, op, row).op = op /\ Call(n, op, row).row = row /\ Call(n, op, row).mine
           /\ Call(n, op, row).st = "sent" /\ Call(n, op, row).rows = {} /\ Call(n, op, row).seen = Nobody
<1>1. Nobody \in Seen
  BY BlankOK
<1> QED
  BY <1>1 DEF Call, CallSet

(* So has one that is answered. *)
LEMMA StTyped ==
    ASSUME NEW c \in CallSet, NEW x \in {"sent", "done", "failed"}, NEW d, d = [c EXCEPT !.st = x]
    PROVE  /\ d \in CallSet /\ d.st = x
           /\ d.n = c.n /\ d.op = c.op /\ d.row = c.row
           /\ d.rows = c.rows /\ d.seen = c.seen /\ d.mine = c.mine
  BY DEF CallSet

(* So has one that has got rows. *)
LEMMA RowsTyped ==
    ASSUME NEW c \in CallSet, NEW x \in SUBSET ListRow, NEW d, d = [c EXCEPT !.rows = x]
    PROVE  /\ d \in CallSet /\ d.rows = x
           /\ d.n = c.n /\ d.op = c.op /\ d.row = c.row
           /\ d.st = c.st /\ d.seen = c.seen /\ d.mine = c.mine
  BY DEF CallSet

(* So has one that has got addresses. *)
LEMMA SeenTyped ==
    ASSUME NEW c \in CallSet, NEW x \in Seen, NEW d, d = [c EXCEPT !.seen = x]
    PROVE  /\ d \in CallSet /\ d.seen = x
           /\ d.n = c.n /\ d.op = c.op /\ d.row = c.row
           /\ d.st = c.st /\ d.rows = c.rows /\ d.mine = c.mine
  BY DEF CallSet

(* So has one that has got a row. *)
LEMMA RowOfTyped ==
    ASSUME NEW c \in CallSet, NEW x \in AnyRow, NEW d, d = [c EXCEPT !.row = x]
    PROVE  /\ d \in CallSet /\ d.row = x
           /\ d.n = c.n /\ d.op = c.op /\ d.st = c.st
           /\ d.rows = c.rows /\ d.seen = c.seen /\ d.mine = c.mine
  BY DEF CallSet

(* So has one of a mount that is gone. *)
LEMMA MineTyped ==
    ASSUME NEW c \in CallSet, NEW d, d = [c EXCEPT !.mine = FALSE]
    PROVE  /\ d \in CallSet /\ ~d.mine
           /\ d.n = c.n /\ d.op = c.op /\ d.row = c.row
           /\ d.st = c.st /\ d.rows = c.rows /\ d.seen = c.seen
  BY DEF CallSet

(* What a request is made of. *)
LEMMA CallParts ==
    ASSUME NEW c \in CallSet
    PROVE  /\ c.n \in Nat /\ c.op \in ListChanges \cup {"load", "detect", "run"}
           /\ c.row \in AnyRow /\ c.st \in {"sent", "done", "failed"}
           /\ c.rows \subseteq ListRow /\ c.seen \in Seen /\ c.mine \in BOOLEAN
  BY DEF CallSet

(* What a finite set covers is finite, and no larger. *)
LEMMA Covered ==
    ASSUME NEW S, IsFiniteSet(S), NEW T, NEW f \in [S -> T], \A t \in T : \E s \in S : f[s] = t
    PROVE  /\ IsFiniteSet(T) /\ Cardinality(T) \in Nat /\ Cardinality(S) \in Nat
           /\ Cardinality(T) <= Cardinality(S)
<1>1. f \in Surjection(S, T)
  BY DEF Surjection
<1>2. IsFiniteSet(T) /\ Cardinality(T) <= Cardinality(S)
  BY <1>1, FS_Surjection
<1> QED
  BY <1>2, FS_CardinalityType

(* There is a number that no request has. *)
LEMMA TagOK ==
    ASSUME NEW S, S \subseteq CallSet, IsFiniteSet(S)
    PROVE  Tag(S) \in Nat
<1> DEFINE k == Cardinality(S)
           T == {c.n : c \in S}
<1>1. k \in Nat /\ IsFiniteSet(T) /\ Cardinality(T) <= k /\ Cardinality(T) \in Nat
  <2> DEFINE f == [c \in S |-> c.n]
  <2>1. f \in [S -> T] /\ \A t \in T : \E c \in S : f[c] = t
    OBVIOUS
  <2> HIDE DEF f, T
  <2> QED
    BY <2>1, Covered
<1>2. Cardinality(1 .. k + 1) = k + 1
  BY <1>1, FS_Interval
<1>3. ~(1 .. k + 1 \subseteq T)
  <2>1. SUFFICES ASSUME 1 .. k + 1 \subseteq T PROVE FALSE
    OBVIOUS
  <2>2. Cardinality(1 .. k + 1) <= Cardinality(T)
    BY <1>1, <2>1, FS_Subset
  <2> QED
    BY <1>1, <1>2, <2>2
<1>4. \E n \in 1 .. k + 1 : \A c \in S : c.n # n
  BY <1>3
<1>5. Tag(S) \in 1 .. k + 1
  BY <1>4 DEF Tag
<1> QED
  BY <1>1, <1>5

(* The requests of a load are of the type, and nothing but asking. *)
LEMMA LoadsTyped ==
    ASSUME NEW n \in Nat
    PROVE  /\ Loads(n) \subseteq CallSet /\ IsFiniteSet(Loads(n))
           /\ \A c \in Loads(n) : /\ c.op \in {"load", "detect"} /\ c.row.id = 0 /\ c.mine
                                  /\ c.st = "sent" /\ c.rows = {} /\ c.seen = Nobody
                                  /\ c.op = "detect" => list = "clients"
           /\ \E c \in Loads(n) : c.op = "load"
           /\ list = "clients" => \E c \in Loads(n) : c.op = "detect"
<1> DEFINE load == Call(n, "load", Blank)
           detect == Call(n, "detect", Blank)
<1>1. /\ load \in CallSet /\ load.op = "load" /\ load.row = Blank /\ load.mine
      /\ load.st = "sent" /\ load.rows = {} /\ load.seen = Nobody
      /\ detect \in CallSet /\ detect.op = "detect" /\ detect.row = Blank /\ detect.mine
      /\ detect.st = "sent" /\ detect.rows = {} /\ detect.seen = Nobody
  BY CallTyped, BlankOK
<1>2. Loads(n) = IF list = "clients" THEN {load, detect} ELSE {load}
  BY DEF Loads
<1> HIDE DEF load, detect
<1>3. IsFiniteSet({load}) /\ IsFiniteSet({load, detect})
  <2>1. {load, detect} = {load} \cup {detect}
    OBVIOUS
  <2>2. IsFiniteSet({load})
    BY FS_Singleton
  <2>3. IsFiniteSet({load} \cup {detect})
    BY <2>2, FS_AddElement
  <2> QED
    BY <2>1, <2>2, <2>3
<1> QED
  BY <1>1, <1>2, <1>3, BlankOK

(* Rows that are added are rows, and so are those that are changed. *)
LEMMA RowTyped ==
    /\ \A id \in Id, k \in Keys : /\ New(id, k) \in ListRow /\ New(id, k) \in AnyRow
                                  /\ New(id, k).id = id /\ New(id, k).key = k
    /\ \A k \in Keys : [Blank EXCEPT !.key = k] \in AnyRow /\ [Blank EXCEPT !.key = k].id = 0
    /\ \A r \in ListRow : /\ r \in AnyRow /\ r.id \in Id /\ r.id # 0 /\ r.key \in Keys
                          /\ [r EXCEPT !.on = ~r.on] \in ListRow /\ [r EXCEPT !.on = ~r.on].id = r.id
                          /\ [r EXCEPT !.ran = TRUE] \in ListRow /\ [r EXCEPT !.ran = TRUE].id = r.id
<1>1. Id \subseteq Nat /\ 0 \notin Id
  BY ListBounds DEF Id
<1>2. \A id \in Id, k \in Keys : /\ New(id, k) \in ListRow /\ New(id, k) \in AnyRow
                                 /\ New(id, k).id = id /\ New(id, k).key = k
  BY <1>1 DEF New, ListRow, AnyRow
<1>3. \A k \in Keys : [Blank EXCEPT !.key = k] \in AnyRow /\ [Blank EXCEPT !.key = k].id = 0
  BY BlankOK DEF AnyRow
<1>4. \A r \in ListRow : /\ r \in AnyRow /\ r.id \in Id /\ r.id # 0 /\ r.key \in Keys
                         /\ [r EXCEPT !.on = ~r.on] \in ListRow /\ [r EXCEPT !.on = ~r.on].id = r.id
                         /\ [r EXCEPT !.ran = TRUE] \in ListRow /\ [r EXCEPT !.ran = TRUE].id = r.id
  BY <1>1 DEF ListRow, AnyRow
<1> QED
  BY <1>2, <1>3, <1>4

(* The number of rows to be added is a number, and falls with the requests.  *)
LEMMA AddsCounted ==
    ASSUME ListTypes
    PROVE  /\ IsFiniteSet(SentAdds) /\ Cardinality(SentAdds) \in Nat
           /\ last \in 1 .. MaxId /\ last \in Nat /\ MaxId \in Nat
           /\ \A S \in SUBSET SentAdds : /\ IsFiniteSet(S) /\ Cardinality(S) \in Nat
                                         /\ Cardinality(S) <= Cardinality(SentAdds)
<1>1. IsFiniteSet(SentAdds)
  <2>1. SentAdds \in SUBSET calls /\ IsFiniteSet(calls)
    BY DEF SentAdds, ListTypes, NetTypes
  <2> QED
    BY <2>1, FS_Subset
<1>2. \A S \in SUBSET SentAdds : IsFiniteSet(S) /\ Cardinality(S) <= Cardinality(SentAdds)
  BY <1>1, FS_Subset
<1> QED
  BY <1>1, <1>2, FS_CardinalityType, ListBounds DEF ListTypes, ServerTypes, Id

(* Fewer requests are to add a row, and nothing else has changed. *)
LEMMA FewerAdds ==
    ASSUME ListTypes, SentAdds' \subseteq SentAdds, UNCHANGED <<last, stored, runs, queried>>
    PROVE  ServerTypes'
<1>1. Cardinality(SentAdds') \in Nat /\ Cardinality(SentAdds') <= Cardinality(SentAdds)
  BY AddsCounted
<1>2. NumbersLeft'
  BY <1>1, AddsCounted DEF ListTypes, ServerTypes, NumbersLeft
<1> QED
  BY <1>2 DEF ListTypes, ServerTypes, Given

(* Requests are sent. *)
LEMMA SendTypes ==
    ASSUME ListTypes, NEW others \in SUBSET calls, NEW new, calls' = others \cup new,
           new \subseteq CallSet, IsFiniteSet(new),
           \A c \in new : c.row.id <= last /\ c.rows = {} /\ HasRow(c),
           \/ \A c \in new : c.op # "add"
           \/ last + Cardinality(SentAdds) < MaxId /\ \E x : new = {x},
           disturbed' \in BOOLEAN, UNCHANGED <<last, stored, runs, queried>>
    PROVE  NetTypes' /\ ServerTypes'
<1>1. IsFiniteSet(others)
  BY FS_Subset DEF ListTypes, NetTypes
<1>2. IsFiniteSet(calls')
  BY <1>1, FS_Union
<1>3. NetTypes'
  BY <1>2, FS_EmptySet DEF ListTypes, NetTypes, Given, HasRow
<1>4. CASE \A c \in new : c.op # "add"
  <2>1. SentAdds' \subseteq SentAdds
    BY <1>4 DEF SentAdds
  <2> QED
    BY <1>3, <2>1, FewerAdds
<1>5. CASE last + Cardinality(SentAdds) < MaxId /\ \E x : new = {x}
  <2>1. PICK x : new = {x}
    BY <1>5
  <2>2. SentAdds' \subseteq SentAdds \cup {x}
    BY <2>1 DEF SentAdds
  <2>3. /\ IsFiniteSet(SentAdds \cup {x})
        /\ Cardinality(SentAdds \cup {x}) <= Cardinality(SentAdds) + 1
        /\ Cardinality(SentAdds \cup {x}) \in Nat
    BY AddsCounted, FS_AddElement, FS_CardinalityType
  <2>4. Cardinality(SentAdds') \in Nat /\ Cardinality(SentAdds') <= Cardinality(SentAdds \cup {x})
    BY <2>2, <2>3, FS_Subset, FS_CardinalityType
  <2>5. NumbersLeft'
    BY <1>5, <2>3, <2>4, AddsCounted DEF NumbersLeft
  <2> QED
    BY <1>3, <2>5 DEF ListTypes, ServerTypes, Given
<1> QED
  BY <1>4, <1>5

(* Requests are done with, changed or dropped, and none is to add a row that *)
(* was not.                                                                  *)
LEMMA NetStep ==
    ASSUME ListTypes, calls' \subseteq CallSet, IsFiniteSet(calls'),
           \A c \in calls' : c.row.id <= last' /\ Given(c.rows)' /\ HasRow(c),
           disturbed' \in BOOLEAN
    PROVE  NetTypes'
  BY DEF NetTypes, HasRow

(* A request becomes another one. *)
LEMMA AnsweredTypes ==
    ASSUME ListTypes, NEW c \in calls, NEW d \in CallSet, Answered(c, d),
           d.row.id <= last', Given(d.rows)', HasRow(d),
           disturbed' \in BOOLEAN, last <= last', last' \in Id
    PROVE  NetTypes'
<1>1. calls' = (calls \ {c}) \cup {d}
  BY DEF Answered
<1>2. IsFiniteSet(calls \ {c})
  BY FS_RemoveElement DEF ListTypes, NetTypes
<1>3. IsFiniteSet(calls') /\ calls' \subseteq CallSet
  BY <1>1, <1>2, FS_AddElement DEF ListTypes, NetTypes
<1>4. ASSUME NEW e \in calls'
      PROVE  e.row.id <= last' /\ Given(e.rows)' /\ HasRow(e)
  <2>1. CASE e = d
    BY <2>1
  <2>2. CASE e \in calls
    <3>1. e.row.id <= last /\ Given(e.rows) /\ HasRow(e) /\ e.row.id \in Nat /\ last \in Nat /\ last' \in Nat
      BY <2>2, CallParts, AddsCounted, ListBounds DEF ListTypes, NetTypes, AnyRow, Id
    <3>2. \A r \in ListRow : r.id \in Nat
      BY ListBounds DEF ListRow, Id
    <3> QED
      BY <3>1, <3>2 DEF Given
  <2> QED
    BY <1>1, <2>1, <2>2
<1> QED
  BY <1>3, <1>4 DEF NetTypes, HasRow

(* A request that is not to add a row any more becomes another one. *)
LEMMA AnsweredAdds ==
    ASSUME NEW c, NEW d, Answered(c, d), d.st # "sent"
    PROVE  SentAdds' = SentAdds \ {c}
  BY DEF Answered, SentAdds

(* A request is dropped. *)
LEMMA DropTypes ==
    ASSUME ListTypes, NEW c \in calls, calls' = calls \ {c},
           disturbed' \in BOOLEAN, UNCHANGED <<last, stored, runs, queried>>
    PROVE  NetTypes' /\ ServerTypes'
<1>1. IsFiniteSet(calls')
  BY FS_RemoveElement DEF ListTypes, NetTypes
<1>2. NetTypes'
  BY <1>1 DEF ListTypes, NetTypes, Given, HasRow
<1>3. SentAdds' \subseteq SentAdds
  BY DEF SentAdds
<1> QED
  BY <1>2, <1>3, FewerAdds

------------------------------------------------------------------------------
(* Sequences of rows.                                                        *)

(* No number comes twice. *)
Distinct(s) == \A i, j \in DOMAIN s : s[i].id = s[j].id => i = j
Unique(S) == \A r, q \in S : r.id = q.id => r = q

(* A sequence and its rows. *)
LEMMA RowsOfSeq ==
    ASSUME NEW T, NEW s \in Seq(T)
    PROVE  /\ Len(s) \in Nat /\ DOMAIN s = 1 .. Len(s)
           /\ \A i \in 1 .. Len(s) : s[i] \in T /\ s[i] \in ToSet(s)
           /\ \A r \in ToSet(s) : \E i \in 1 .. Len(s) : s[i] = r
           /\ ToSet(s) \subseteq T
  BY DEF ToSet

(* A row is put at the end. *)
LEMMA AppendRow ==
    ASSUME NEW T, NEW s \in Seq(T), NEW e \in T
    PROVE  /\ Append(s, e) \in Seq(T) /\ ToSet(Append(s, e)) = ToSet(s) \cup {e}
           /\ Distinct(s) /\ e.id \notin NumbersOf(ToSet(s)) => Distinct(Append(s, e))
<1> DEFINE t == Append(s, e)
<1>1. /\ t \in Seq(T) /\ Len(t) = Len(s) + 1 /\ Len(s) \in Nat
      /\ \A i \in 1 .. Len(s) : t[i] = s[i]
      /\ t[Len(s) + 1] = e
  OBVIOUS
<1> HIDE DEF t
<1>2. ToSet(t) = ToSet(s) \cup {e}
  <2>1. \A i \in 1 .. Len(t) : i \in 1 .. Len(s) \/ i = Len(s) + 1
    BY <1>1
  <2>2. \A i \in 1 .. Len(s) : i \in 1 .. Len(t)
    BY <1>1
  <2>3. Len(s) + 1 \in 1 .. Len(t)
    BY <1>1
  <2> QED
    BY <1>1, <2>1, <2>2, <2>3 DEF ToSet
<1>3. ASSUME Distinct(s), e.id \notin NumbersOf(ToSet(s))
      PROVE  Distinct(t)
  <2>1. \A i \in 1 .. Len(s) : s[i].id # e.id
    BY <1>3 DEF NumbersOf, ToSet
  <2> QED
    BY <1>1, <1>3, <2>1 DEF Distinct
<1> QED
  BY <1>1, <1>2, <1>3 DEF t

(* A row is put at the front. *)
LEMMA PrependRow ==
    ASSUME NEW T, NEW s \in Seq(T), NEW e \in T
    PROVE  /\ <<e>> \o s \in Seq(T) /\ ToSet(<<e>> \o s) = ToSet(s) \cup {e}
           /\ Distinct(s) /\ e.id \notin NumbersOf(ToSet(s)) => Distinct(<<e>> \o s)
<1> DEFINE t == <<e>> \o s
<1>1. /\ t \in Seq(T) /\ Len(t) = Len(s) + 1 /\ Len(s) \in Nat
      /\ \A i \in 1 .. Len(s) : t[i + 1] = s[i]
      /\ t[1] = e
  OBVIOUS
<1> HIDE DEF t
<1>2. \A i \in 1 .. Len(t) : i = 1 \/ (i - 1 \in 1 .. Len(s) /\ t[i] = s[i - 1])
  <2>1. ASSUME NEW i \in 1 .. Len(t), i # 1
        PROVE  i - 1 \in 1 .. Len(s) /\ t[i] = s[i - 1]
    <3>1. i - 1 \in 1 .. Len(s) /\ (i - 1) + 1 = i
      BY <1>1, <2>1
    <3> QED
      BY <1>1, <3>1
  <2> QED
    BY <2>1
<1>d. DOMAIN t = 1 .. Len(t) /\ DOMAIN s = 1 .. Len(s)
  BY <1>1
<1>3. ToSet(t) = ToSet(s) \cup {e}
  <2>1. ASSUME NEW i \in 1 .. Len(s)
        PROVE  s[i] \in ToSet(t)
    <3>1. i + 1 \in 1 .. Len(t) /\ t[i + 1] = s[i]
      BY <1>1
    <3> QED
      BY <3>1, <1>d DEF ToSet
  <2>2. e \in ToSet(t)
    <3>1. 1 \in 1 .. Len(t)
      BY <1>1
    <3> QED
      BY <1>1, <3>1, <1>d DEF ToSet
  <2>3. ASSUME NEW i \in 1 .. Len(t)
        PROVE  t[i] \in ToSet(s) \cup {e}
    BY <1>1, <1>2, <1>d DEF ToSet
  <2> QED
    BY <1>d, <2>1, <2>2, <2>3 DEF ToSet
<1>4. ASSUME Distinct(s), e.id \notin NumbersOf(ToSet(s))
      PROVE  Distinct(t)
  <2>1. \A i \in 1 .. Len(s) : s[i].id # e.id
    BY <1>4 DEF NumbersOf, ToSet
  <2>2. ASSUME NEW i \in 1 .. Len(t), NEW j \in 1 .. Len(t), t[i].id = t[j].id
        PROVE  i = j
    <3>1. CASE i = 1 \/ j = 1
      BY <1>1, <1>2, <2>1, <2>2, <3>1
    <3>2. CASE i # 1 /\ j # 1
      <4>1. /\ i - 1 \in 1 .. Len(s) /\ j - 1 \in 1 .. Len(s)
            /\ s[i - 1].id = s[j - 1].id
        BY <1>2, <2>2, <3>2
      <4>2. i - 1 = j - 1
        BY <1>4, <1>d, <4>1 DEF Distinct
      <4> QED
        BY <4>2
    <3> QED
      BY <3>1, <3>2
  <2>3. DOMAIN t = 1 .. Len(t)
    BY <1>1
  <2> QED
    BY <2>2, <2>3 DEF Distinct
<1> QED
  BY <1>1, <1>3, <1>4 DEF t

(* map: a row takes the place of the one with its number. *)
Mapped(s, e) == [i \in DOMAIN s |-> IF s[i].id = e.id THEN e ELSE s[i]]

(* The rows that come of it. *)
LEMMA MapRow ==
    ASSUME NEW T, NEW s \in Seq(T), NEW e \in T
    PROVE  /\ Mapped(s, e) \in Seq(T)
           /\ ToSet(Mapped(s, e)) = {r \in ToSet(s) : r.id # e.id}
                                    \cup (IF e.id \in NumbersOf(ToSet(s)) THEN {e} ELSE {})
           /\ Distinct(s) => Distinct(Mapped(s, e))
<1> DEFINE t == Mapped(s, e)
<1>1. t \in Seq(T) /\ DOMAIN t = DOMAIN s /\ \A i \in DOMAIN s : t[i] = IF s[i].id = e.id THEN e ELSE s[i]
  BY DEF Mapped
<1> HIDE DEF t
<1>2. ToSet(t) = {r \in ToSet(s) : r.id # e.id} \cup (IF e.id \in NumbersOf(ToSet(s)) THEN {e} ELSE {})
  BY <1>1 DEF ToSet, NumbersOf
<1>3. Distinct(s) => Distinct(t)
  BY <1>1 DEF Distinct
<1> QED
  BY <1>1, <1>2, <1>3 DEF t

(* The order of a set of rows is one in which each comes once. *)
LEMMA OrderedRows ==
    ASSUME NEW T, NEW S \in SUBSET T, IsFiniteSet(S), NEW s \in SetToSeqs(S)
    PROVE  s \in Seq(T) /\ ToSet(s) = S /\ (Unique(S) => Distinct(s))
<1> DEFINE n == Cardinality(S)
<1>1. n \in Nat
  BY FS_CardinalityType
<1>2. s \in [1 .. n -> S] /\ \A i, j \in 1 .. n : i # j => s[i] # s[j]
  BY DEF SetToSeqs
<1>3. s \in Injection(1 .. n, S)
  BY <1>2 DEF Injection, IsInjective
<1>4. Cardinality(1 .. n) = Cardinality(S)
  BY <1>1, FS_Interval
<1>5. s \in Surjection(1 .. n, S)
  BY <1>3, <1>4, FS_Injection
<1>6. ToSet(s) = S
  BY <1>2, <1>5 DEF ToSet, Surjection
<1>7. s \in Seq(T)
  BY <1>1, <1>2
<1>8. Unique(S) => Distinct(s)
  BY <1>2 DEF Unique, Distinct
<1> QED
  BY <1>6, <1>7, <1>8

(* Rows that come once each are as many as they are. *)
LEMMA CountedRows ==
    ASSUME NEW T, NEW s \in Seq(T), Distinct(s)
    PROVE  Len(s) = Cardinality(ToSet(s)) /\ Unique(ToSet(s)) /\ IsFiniteSet(ToSet(s))
<1>1. Len(s) \in Nat /\ DOMAIN s = 1 .. Len(s) /\ s \in [1 .. Len(s) -> ToSet(s)]
  BY RowsOfSeq DEF ToSet
<1>2. s \in Injection(1 .. Len(s), ToSet(s))
  BY <1>1 DEF Injection, IsInjective, Distinct
<1>3. s \in Surjection(1 .. Len(s), ToSet(s))
  BY <1>1, RowsOfSeq DEF Surjection
<1>4. IsFiniteSet(1 .. Len(s)) /\ Cardinality(1 .. Len(s)) = Len(s)
  BY <1>1, FS_Interval
<1>5. IsFiniteSet(ToSet(s)) /\ Cardinality(ToSet(s)) = Len(s)
  BY <1>2, <1>3, <1>4, FS_Surjection
<1> QED
  BY <1>1, <1>5 DEF Unique, Distinct, ToSet

(* filter: the rows without one number, in their order.  Each row that is    *)
(* kept has the place that the rows kept up to it count.                     *)
LEMMA FilterRows ==
    ASSUME NEW T, NEW s \in Seq(T), NEW id
    PROVE  /\ Without(s, id) \in Seq(T)
           /\ ToSet(Without(s, id)) = {r \in ToSet(s) : r.id # id}
           /\ Distinct(s) => Distinct(Without(s, id))
<1> DEFINE kept == {i \in DOMAIN s : s[i].id # id}
           upto(i) == {j \in kept : j <= i}
           place(i) == Cardinality(upto(i))
           n == Cardinality(kept)
           at(k) == CHOOSE i \in kept : place(i) = k
           t == Without(s, id)
<1>1. t = [k \in 1 .. n |-> s[at(k)]]
  BY DEF Without
<1>2. kept \subseteq 1 .. Len(s) /\ Len(s) \in Nat
  OBVIOUS
<1>3. IsFiniteSet(kept) /\ n \in Nat
  <2> HIDE DEF kept
  <2>1. IsFiniteSet(1 .. Len(s)) /\ kept \in SUBSET (1 .. Len(s))
    BY <1>2, FS_Interval
  <2> QED
    BY <2>1, FS_Subset, FS_CardinalityType
<1>4. \A i \in kept : upto(i) \in SUBSET kept /\ i \in upto(i) /\ IsFiniteSet(upto(i)) /\ place(i) \in 1 .. n
  <2>1. SUFFICES ASSUME NEW i \in kept
                 PROVE  upto(i) \in SUBSET kept /\ i \in upto(i) /\ IsFiniteSet(upto(i)) /\ place(i) \in 1 .. n
    OBVIOUS
  <2>2. upto(i) \in SUBSET kept /\ i \in upto(i)
    BY <1>2
  <2> HIDE DEF upto, kept
  <2>3. IsFiniteSet(upto(i)) /\ place(i) <= n
    BY <1>3, <2>2, FS_Subset
  <2>4. place(i) \in Nat /\ place(i) # 0
    BY <2>2, <2>3, FS_CardinalityType, FS_EmptySet
  <2> QED
    BY <1>3, <2>2, <2>3, <2>4
<1>5. \A i, j \in kept : i < j => place(i) # place(j)
  <2>1. SUFFICES ASSUME NEW i \in kept, NEW j \in kept, i < j
                 PROVE  place(i) # place(j)
    OBVIOUS
  <2>2. upto(i) \in SUBSET upto(j) /\ j \in upto(j) /\ j \notin upto(i)
    BY <1>2, <2>1
  <2>3. IsFiniteSet(upto(j))
    BY <1>4
  <2> HIDE DEF upto, kept
  <2> QED
    BY <2>2, <2>3, FS_Subset
<1>6. \A k \in 1 .. n : \E i \in kept : place(i) = k
  <2> DEFINE f == [i \in kept |-> place(i)]
  <2>1. f \in [kept -> 1 .. n] /\ \A i \in kept : f[i] = place(i)
    BY <1>4
  <2>2. \A i, j \in kept : f[i] = f[j] => i = j
    <3>1. \A i, j \in kept : i # j => i < j \/ j < i
      BY <1>2
    <3> HIDE DEF f, kept, place
    <3> QED
      BY <1>5, <2>1, <3>1
  <2> HIDE DEF f, kept, place
  <2>3. f \in Injection(kept, 1 .. n)
    BY <2>1, <2>2 DEF Injection, IsInjective
  <2>4. IsFiniteSet(1 .. n) /\ Cardinality(1 .. n) = n
    BY <1>3, FS_Interval
  <2>5. f \in Surjection(kept, 1 .. n)
    BY <2>3, <2>4, FS_Injection
  <2> QED
    BY <2>1, <2>5 DEF Surjection
<1>7. \A k \in 1 .. n : at(k) \in kept /\ place(at(k)) = k
  <2> HIDE DEF kept, place, n
  <2> QED
    BY <1>6
<1>8. \A i \in kept : \E k \in 1 .. n : at(k) = i
  <2>1. SUFFICES ASSUME NEW i \in kept
                 PROVE  at(place(i)) = i
    BY <1>4
  <2>2. at(place(i)) \in kept /\ place(at(place(i))) = place(i)
    BY <1>4, <1>7
  <2>3. \A j \in kept : place(j) = place(i) => j = i
    <3>1. \A j \in kept : i # j => i < j \/ j < i
      BY <1>2
    <3> HIDE DEF kept, place
    <3> QED
      BY <1>5, <3>1
  <2> HIDE DEF kept, place, at
  <2> QED
    BY <2>2, <2>3
<1>9. \A i \in kept : i \in DOMAIN s /\ s[i] \in T /\ s[i].id # id
  OBVIOUS
<1>10. \A i \in DOMAIN s : s[i].id # id => i \in kept
  OBVIOUS
<1> HIDE DEF kept, place, at, n, t
<1>11. t \in Seq(T) /\ DOMAIN t = 1 .. n /\ \A k \in 1 .. n : t[k] = s[at(k)]
  BY <1>1, <1>3, <1>7, <1>9
<1>12. ToSet(t) = {r \in ToSet(s) : r.id # id}
  <2>1. ASSUME NEW k \in 1 .. n
        PROVE  s[at(k)] \in ToSet(s) /\ s[at(k)].id # id
    BY <1>7, <1>9 DEF ToSet
  <2>2. ASSUME NEW i \in DOMAIN s, s[i].id # id
        PROVE  \E k \in 1 .. n : s[i] = s[at(k)]
    BY <1>8, <1>10, <2>2
  <2> QED
    BY <1>11, <2>1, <2>2 DEF ToSet
<1>13. Distinct(s) => Distinct(t)
  <2>1. SUFFICES ASSUME Distinct(s), NEW k \in 1 .. n, NEW l \in 1 .. n, t[k].id = t[l].id
                 PROVE  k = l
    BY <1>11 DEF Distinct
  <2>2. at(k) = at(l)
    BY <1>7, <1>9, <1>11, <2>1 DEF Distinct
  <2> QED
    BY <1>7, <2>2
<1> QED
  BY <1>11, <1>12, <1>13 DEF t

------------------------------------------------------------------------------
(* The steps of the user.                                                    *)

(* What a handler asks for: a new row, or something about a row on the       *)
(* screen.                                                                   *)
Asked(op, row) ==
    /\ SendCall(op, row) /\ Acts /\ open
    /\ row \in AnyRow /\ row.id <= last
    /\ \/ op = "add" /\ row.id = 0 /\ last + Cardinality(SentAdds) < MaxId
       \/ op \in {"delete", "run", "toggle"} /\ row.id # 0 /\ row.id \in NumbersOf(ToSet(shown))
    /\ op = "toggle" => list = "subscriptions"
    /\ list \notin {"branding", "off"}

(* A row on the screen may be asked about. *)
LEMMA OnScreenOK ==
    ASSUME ListTypes, NEW r, OnScreen(r)
    PROVE  /\ r \in ToSet(shown) /\ r \in ListRow /\ r \in AnyRow /\ r.id <= last /\ r.id # 0 /\ r.id \in 1 .. last
           /\ r.id \in NumbersOf(ToSet(shown))
           /\ [r EXCEPT !.on = ~r.on] \in AnyRow /\ [r EXCEPT !.on = ~r.on].id = r.id
           /\ [r EXCEPT !.on = ~r.on] \in ListRow
<1>1. r \in ToSet(shown) /\ r \in ListRow /\ r.id <= last
  BY DEF OnScreen, ListTypes, ScreenTypes, Given
<1>2. last \in Nat /\ Id \subseteq Nat /\ 0 \notin Id
  BY AddsCounted, ListBounds DEF Id
<1>3. r.id \in NumbersOf(ToSet(shown))
  BY <1>1 DEF NumbersOf
<1>4. /\ r \in AnyRow /\ r.id \in Id /\ r.id # 0
      /\ [r EXCEPT !.on = ~r.on] \in ListRow /\ [r EXCEPT !.on = ~r.on].id = r.id
  BY <1>1, RowTyped, Zenon
<1>5. [r EXCEPT !.on = ~r.on] \in AnyRow
  BY <1>4, RowTyped, Zenon
<1>6. r.id \in 1 .. last
  BY <1>1, <1>2, <1>4 DEF Id
<1> QED
  BY <1>1, <1>3, <1>4, <1>5, <1>6, Zenon

(* Every handler asks in one of these ways. *)
LEMMA AddAsks ==
    ASSUME ListTypes, NEW name \in {"categories", "clients", "whitelist", "blocklists", "subscriptions"},
           NEW k \in Keys, AddKey(name, k)
    PROVE  \E op, row : Asked(op, row) /\ UNCHANGED tabVars
<1> DEFINE row == [Blank EXCEPT !.key = k]
<1>1. row \in AnyRow /\ row.id = 0 /\ last \in Nat
  BY RowTyped, AddsCounted
<1>2. SendCall("add", row) /\ Acts /\ open /\ list = name /\ UNCHANGED tabVars
  BY Zenon DEF AddKey, Ask
<1>3. last + Cardinality(SentAdds) < MaxId
  BY Zenon DEF AddKey, SentAdds
<1> HIDE DEF row
<1>4. Asked("add", row)
  BY <1>1, <1>2, <1>3 DEF Asked
<1> QED
  BY <1>2, <1>4, Zenon

(* The same of a request about a row. *)
LEMMA RowAsks ==
    ASSUME ListTypes, NEW r, OnScreen(r),
           \/ \E name \in {"categories", "clients", "whitelist", "blocklists", "subscriptions"} :
                Ask(name, "delete", r)
           \/ Ask("subscriptions", "run", r)
           \/ Ask("subscriptions", "toggle", [r EXCEPT !.on = ~r.on])
    PROVE  \E op, row : Asked(op, row) /\ UNCHANGED tabVars
<1> DEFINE t == [r EXCEPT !.on = ~r.on]
<1>1. /\ r \in AnyRow /\ r.id <= last /\ r.id \in NumbersOf(ToSet(shown)) /\ r.id # 0
      /\ t \in AnyRow /\ t.id = r.id
  BY OnScreenOK
<1> HIDE DEF t
<1>2. CASE \E name \in {"categories", "clients", "whitelist", "blocklists", "subscriptions"} :
             Ask(name, "delete", r)
  <2>1. Asked("delete", r) /\ UNCHANGED tabVars
    BY <1>1, <1>2 DEF Asked, Ask
  <2> QED
    BY <2>1, Zenon
<1>3. CASE Ask("subscriptions", "run", r)
  <2>1. Asked("run", r) /\ UNCHANGED tabVars
    BY <1>1, <1>3 DEF Asked, Ask
  <2> QED
    BY <2>1, Zenon
<1>4. CASE Ask("subscriptions", "toggle", t)
  <2>1. Asked("toggle", t) /\ UNCHANGED tabVars
    BY <1>1, <1>4 DEF Asked, Ask
  <2> QED
    BY <2>1, Zenon
<1> QED
  BY <1>2, <1>3, <1>4 DEF t

(* Every step of the user is one of these. *)
LEMMA UserAsks ==
    ASSUME ListTypes, ListUser
    PROVE  \/ OpenTab \/ LeaveTab \/ RefreshList
           \/ \E op, row : Asked(op, row) /\ UNCHANGED tabVars
           \/ \E r : HandleRunSub(r) \/ EditBranding(r) \/ HandleSaveBranding(r)
<1> DEFINE Names == {"categories", "clients", "whitelist", "blocklists", "subscriptions"}
<1>1. /\ "categories" \in Names /\ "clients" \in Names /\ "whitelist" \in Names
      /\ "blocklists" \in Names /\ "subscriptions" \in Names
  OBVIOUS
<1> HIDE DEF Names
<1>2. ASSUME NEW k \in Keys, NEW name \in Names, AddKey(name, k)
      PROVE  \E op, row : Asked(op, row) /\ UNCHANGED tabVars
  BY <1>2, AddAsks DEF Names
<1>3. ASSUME NEW r, OnScreen(r), \E name \in Names : Ask(name, "delete", r)
      PROVE  \E op, row : Asked(op, row) /\ UNCHANGED tabVars
  BY <1>3, RowAsks DEF Names
<1>4. ASSUME NEW r, OnScreen(r),
             \/ Ask("subscriptions", "run", r)
             \/ Ask("subscriptions", "toggle", [r EXCEPT !.on = ~r.on])
      PROVE  \E op, row : Asked(op, row) /\ UNCHANGED tabVars
  BY <1>4, RowAsks
<1> QED
  BY <1>1, <1>2, <1>3, <1>4, Zenon
  DEF ListUser, PageHeader, WhitelistForm, WhitelistTable, CategoryForm, CategoryTable, DetectedClients,
      ClientForm, ClientTable, BlocklistsHeader, BlocklistForm, BlocklistCards, PresetsPicker,
      SubscriptionsHeader, SubscriptionForm, SubscriptionsTable, BrandingReset, BrandingFields, BrandingSave,
      HandleAddCategory, HandleDeleteCategory, HandleAddClient, HandleQuickAddClient, HandleDeleteClient,
      AddToWhitelist, DeleteFromWhitelist, HandleAddSub, HandleDeleteSub, HandleAddSubscription,
      HandleDeleteSubscription, HandleToggleSubscription, HandleRunSubscription, HandleAddPreset

(* One request is sent. *)
LEMMA AskSends ==
    ASSUME ListTypes, NEW op \in {"add", "delete", "toggle", "run"}, NEW row \in AnyRow, SendCall(op, row)
    PROVE  \E x \in CallSet : /\ calls' = calls \cup {x}
                              /\ x.op = op /\ x.row = row /\ x.mine /\ x.st = "sent"
                              /\ x.rows = {} /\ x.seen = Nobody
                              /\ disturbed' = (disturbed \/ \E d \in calls : Clash(x, d))
<1> DEFINE x == Call(Tag(calls), op, row)
<1>1. Tag(calls) \in Nat
  BY TagOK DEF ListTypes, NetTypes
<1>2. op \in ListChanges \cup {"load", "detect", "run"} /\ op # "load"
  BY DEF ListChanges
<1>3. /\ x \in CallSet /\ x.op = op /\ x.row = row /\ x.mine /\ x.st = "sent"
      /\ x.rows = {} /\ x.seen = Nobody
  BY <1>1, <1>2, CallTyped
<1>4. SendAmong(calls, {x})
  BY DEF SendCall
<1> HIDE DEF x
<1>5. disturbed' = (disturbed \/ \E d \in calls : Clash(x, d))
  <2>1. ~\E c \in {x} : c.op = "load"
    BY <1>2, <1>3
  <2>2. disturbed' = (disturbed \/ \E c \in {x}, d \in calls : Clash(c, d))
    BY <1>4, <2>1, Zenon DEF SendAmong
  <2>3. (\E c \in {x}, d \in calls : Clash(c, d)) <=> (\E d \in calls : Clash(x, d))
    BY Zenon
  <2> QED
    BY <2>2, <2>3
<1>6. calls' = calls \cup {x}
  BY <1>4 DEF SendAmong
<1> QED
  BY <1>3, <1>5, <1>6

(* The list is loaded, with what else is out. *)
LEMMA LoadSends ==
    ASSUME ListTypes, NEW others \in SUBSET calls, SendAmong(others, Loads(Tag(others)))
    PROVE  \E new \in SUBSET CallSet :
             /\ IsFiniteSet(new) /\ calls' = others \cup new
             /\ \A c \in new : /\ c.op \in {"load", "detect"} /\ c.row.id = 0 /\ c.mine
                               /\ c.st = "sent" /\ c.rows = {} /\ c.seen = Nobody
                               /\ c.op = "detect" => list = "clients"
             /\ \E c \in new : c.op = "load"
             /\ list = "clients" => \E c \in new : c.op = "detect"
             /\ disturbed' \in BOOLEAN
             /\ ~disturbed' =>
                  \/ \A d \in others : ~d.mine /\ d.op \notin ListChanges
                  \/ ~disturbed /\ \A d \in others : d.op \notin ListChanges
<1> DEFINE new == Loads(Tag(others))
<1>1. Tag(others) \in Nat
  <2>1. IsFiniteSet(others) /\ others \subseteq CallSet
    BY FS_Subset DEF ListTypes, NetTypes
  <2> QED
    BY <2>1, TagOK
<1>2. /\ new \subseteq CallSet /\ IsFiniteSet(new)
      /\ \A c \in new : /\ c.op \in {"load", "detect"} /\ c.row.id = 0 /\ c.mine
                        /\ c.st = "sent" /\ c.rows = {} /\ c.seen = Nobody
                        /\ c.op = "detect" => list = "clients"
      /\ \E c \in new : c.op = "load"
      /\ list = "clients" => \E c \in new : c.op = "detect"
  BY <1>1, LoadsTyped
<1> HIDE DEF new
<1>3. SendAmong(others, new)
  BY DEF new
<1>4. disturbed' \in BOOLEAN
  BY <1>3, Zenon DEF SendAmong, ListTypes, NetTypes
<1>5. ASSUME ~disturbed', ~\A d \in others : ~d.mine /\ d.op \notin ListChanges
      PROVE  ~disturbed /\ \A d \in others : d.op \notin ListChanges
  <2>1. ~disturbed /\ ~\E c \in new, d \in others : Clash(c, d)
    BY <1>3, <1>5, Zenon DEF SendAmong
  <2>2. PICK c \in new : c.op = "load"
    BY <1>2
  <2> QED
    BY <2>1, <2>2 DEF Clash
<1>6. calls' = others \cup new
  BY <1>3 DEF SendAmong
<1> QED
  BY <1>2, <1>4, <1>5, <1>6

(* What is on the screen has its type when it stays.                         *)
LEMMA ScreenStays ==
    ASSUME ListTypes, UNCHANGED <<open, loading, shown, detected, running, timers, last>>
    PROVE  ScreenTypes'
  BY DEF ListTypes, ScreenTypes, Given

(* A load leaves the types alone. *)
LEMMA LoadTypes ==
    ASSUME ListTypes, NEW others \in SUBSET calls, SendAmong(others, Loads(Tag(others))),
           UNCHANGED <<last, stored, runs, queried>>
    PROVE  NetTypes' /\ ServerTypes'
<1>1. PICK new \in SUBSET CallSet :
        /\ IsFiniteSet(new) /\ calls' = others \cup new /\ disturbed' \in BOOLEAN
        /\ \A c \in new : c.op \in {"load", "detect"} /\ c.row.id = 0 /\ c.rows = {}
  BY LoadSends
<1>2. \A c \in new : c.row.id <= last /\ c.op # "add" /\ HasRow(c)
  BY <1>1, AddsCounted DEF HasRow
<1> QED
  BY <1>1, <1>2, SendTypes

(* So does any other request. *)
LEMMA AskTypes ==
    ASSUME ListTypes, NEW op \in {"add", "delete", "toggle", "run"}, NEW row \in AnyRow, SendCall(op, row),
           row.id <= last, op # "add" => row.id # 0, op = "add" => last + Cardinality(SentAdds) < MaxId,
           UNCHANGED <<last, stored, runs, queried>>
    PROVE  NetTypes' /\ ServerTypes'
<1>1. PICK x \in CallSet :
        /\ calls' = calls \cup {x}
        /\ x.op = op /\ x.row = row /\ x.mine /\ x.st = "sent"
        /\ x.rows = {} /\ x.seen = Nobody
        /\ disturbed' = (disturbed \/ \E d \in calls : Clash(x, d))
  BY AskSends
<1>2. IsFiniteSet({x}) /\ disturbed' \in BOOLEAN
  <2>1. (disturbed \/ \E d \in calls : Clash(x, d)) \in BOOLEAN
    OBVIOUS
  <2>2. disturbed' \in BOOLEAN
    BY <1>1, <2>1, Zenon
  <2> QED
    BY <2>2, FS_Singleton
<1> DEFINE new == {x}
<1>3. calls' = calls \cup new /\ new \subseteq CallSet /\ IsFiniteSet(new) /\ \E y : new = {y}
  BY <1>1, <1>2
<1>4. \A c \in new : c.row.id <= last /\ c.rows = {} /\ c.op = op /\ HasRow(c)
  BY <1>1 DEF HasRow
<1> HIDE DEF new
<1>5. calls \in SUBSET calls
  OBVIOUS
<1> QED
  BY <1>2, <1>3, <1>4, <1>5, SendTypes

(* The steps of the user and of the timers keep the types. *)
LEMMA UserTypes ==
    ASSUME ListTypes, ListUser \/ TimerFires
    PROVE  ListTypes'
<1> USE DEF Acts, serverVars
<1>0. /\ calls \in SUBSET calls /\ last \in Nat
      /\ open \in BOOLEAN /\ loading \in BOOLEAN /\ timers \in Nat
  BY AddsCounted DEF ListTypes, ScreenTypes
<1>1. ASSUME SendLoad, loading' \in BOOLEAN, open' \in BOOLEAN, timers' \in Nat,
             UNCHANGED <<shown, detected, running>>, UNCHANGED serverVars
      PROVE  ListTypes'
  <2>1. NetTypes' /\ ServerTypes'
    BY <1>0, <1>1, LoadTypes DEF SendLoad
  <2> QED
    BY <1>1, <2>1 DEF ListTypes, ScreenTypes, Given
<1>2. ASSUME OpenTab
      PROVE  ListTypes'
  <2>1. open' = TRUE /\ UNCHANGED <<shown, detected, running, timers>> /\ UNCHANGED serverVars
    BY <1>2 DEF OpenTab
  <2>2. CASE list \in TabLists
    BY <1>0, <1>1, <1>2, <2>1, <2>2 DEF OpenTab
  <2>3. CASE list \notin TabLists
    <3>1. UNCHANGED <<loading, calls, disturbed>>
      BY <1>2, <2>3 DEF OpenTab, netVars
    <3>2. NetTypes' /\ ServerTypes'
      BY <2>1, <3>1 DEF ListTypes, NetTypes, ServerTypes, NumbersLeft, SentAdds, Given, HasRow
    <3> QED
      BY <1>0, <2>1, <3>1, <3>2 DEF ListTypes, ScreenTypes, Given
  <2> QED
    BY <2>2, <2>3
<1>3. ASSUME LeaveTab
      PROVE  ListTypes'
  <2>1. open' = FALSE /\ UNCHANGED detected /\ UNCHANGED serverVars
    BY <1>3 DEF LeaveTab
  <2>2. CASE list \in TabLists
    <3>1. /\ shown' = <<>> /\ loading' = FALSE /\ running' = {} /\ timers' = 0 /\ disturbed' = TRUE
          /\ calls' = {[c EXCEPT !.mine = FALSE] : c \in calls}
      BY <1>3, <2>2 DEF LeaveTab
    <3>2. ScreenTypes'
      <4>1. shown' \in Seq(ListRow) /\ ToSet(shown') = {}
        BY <3>1 DEF ToSet
      <4> QED
        BY <2>1, <3>1, <4>1, FS_EmptySet DEF ListTypes, ScreenTypes, Given
    <3> DEFINE away(c) == [c EXCEPT !.mine = FALSE]
    <3>3. \A c \in calls : /\ away(c) \in CallSet /\ away(c).op = c.op /\ away(c).st = c.st
                           /\ away(c).row = c.row /\ away(c).rows = c.rows
      BY MineTyped DEF ListTypes, NetTypes
    <3>4. calls' = {away(c) : c \in calls}
      BY <3>1
    <3> HIDE DEF away
    <3>5. IsFiniteSet(calls')
      <4> DEFINE f == [c \in calls |-> away(c)]
      <4>1. f \in [calls -> calls'] /\ \A d \in calls' : \E c \in calls : f[c] = d
        BY <3>4
      <4>2. IsFiniteSet(calls)
        BY DEF ListTypes, NetTypes
      <4> HIDE DEF f
      <4> QED
        BY <4>1, <4>2, Covered
    <3>6. NetTypes'
      BY <2>1, <3>1, <3>3, <3>4, <3>5 DEF ListTypes, NetTypes, Given, HasRow
    <3>7. Cardinality(SentAdds') \in Nat /\ Cardinality(SentAdds') <= Cardinality(SentAdds)
      <4> DEFINE f == [c \in SentAdds |-> away(c)]
                 T == SentAdds'
      <4>1. f \in [SentAdds -> T] /\ \A d \in T : \E c \in SentAdds : f[c] = d
        BY <3>3, <3>4 DEF SentAdds
      <4>2. IsFiniteSet(SentAdds)
        BY AddsCounted
      <4> HIDE DEF f, T
      <4>3. Cardinality(T) \in Nat /\ Cardinality(T) <= Cardinality(SentAdds)
        BY <4>1, <4>2, Covered
      <4> QED
        BY <4>3 DEF T
    <3>8. NumbersLeft'
      BY <2>1, <3>7, AddsCounted DEF ListTypes, ServerTypes, NumbersLeft
    <3> QED
      BY <2>1, <3>2, <3>6, <3>8 DEF ListTypes, ServerTypes, Given
  <2>3. CASE list \notin TabLists
    <3>1. UNCHANGED <<shown, loading, running, timers, calls, disturbed>>
      BY <1>3, <2>3 DEF LeaveTab
    <3>2. NetTypes' /\ ServerTypes'
      BY <2>1, <3>1 DEF ListTypes, NetTypes, ServerTypes, NumbersLeft, SentAdds, Given, HasRow
    <3> QED
      BY <2>1, <3>1, <3>2 DEF ListTypes, ScreenTypes, Given
  <2> QED
    BY <2>2, <2>3
<1>4. ASSUME RefreshList
      PROVE  ListTypes'
  <2>1. loading' = (list \in TabLists) /\ SendLoad /\ UNCHANGED <<open, shown, detected, running, timers>>
        /\ UNCHANGED serverVars
    BY <1>4 DEF RefreshList
  <2>2. loading' \in BOOLEAN
    <3>1. (list \in TabLists) \in BOOLEAN
      OBVIOUS
    <3>2. loading' = (list \in TabLists)
      BY <1>4, Zenon DEF RefreshList
    <3> QED
      BY <3>1, <3>2, Zenon
  <2> QED
    BY <1>0, <1>1, <2>1, <2>2
<1>5. ASSUME NEW op, NEW row, Asked(op, row), UNCHANGED tabVars
      PROVE  ListTypes'
  <2>1. UNCHANGED serverVars /\ SendCall(op, row) /\ row \in AnyRow /\ row.id <= last
        /\ op \in {"add", "delete", "toggle", "run"}
        /\ (op # "add" => row.id # 0) /\ (op = "add" => last + Cardinality(SentAdds) < MaxId)
    BY <1>5 DEF Asked
  <2>2. NetTypes' /\ ServerTypes'
    BY <2>1, AskTypes
  <2> QED
    BY <1>5, <2>1, <2>2, ScreenStays DEF tabVars, ListTypes
<1>6. ASSUME NEW r, HandleRunSub(r)
      PROVE  ListTypes'
  <2>1. /\ OnScreen(r) /\ running' = running \cup {r.id} /\ SendCall("run", r)
        /\ UNCHANGED <<open, shown, detected, loading, timers>> /\ UNCHANGED serverVars
    BY <1>6 DEF HandleRunSub
  <2>2. r \in AnyRow /\ r.id <= last /\ r.id \in 1 .. last /\ r.id # 0
    BY <2>1, OnScreenOK
  <2>3. NetTypes' /\ ServerTypes'
    BY <2>1, <2>2, AskTypes
  <2> QED
    BY <2>1, <2>2, <2>3 DEF ListTypes, ScreenTypes, Given
<1>7. ASSUME NEW r, EditBranding(r)
      PROVE  ListTypes'
  <2> DEFINE t == [r EXCEPT !.on = ~r.on]
  <2>1. /\ OnScreen(r) /\ shown' = <<t>> /\ disturbed' = TRUE
        /\ UNCHANGED <<open, detected, loading, running, timers, calls>> /\ UNCHANGED serverVars
    BY <1>7 DEF EditBranding
  <2>2. t \in ListRow /\ t.id <= last
    BY <2>1, OnScreenOK
  <2> HIDE DEF t
  <2>3. shown' \in Seq(ListRow) /\ ToSet(shown') = {t}
    BY <2>1, <2>2 DEF ToSet
  <2>4. Given(ToSet(shown))'
    BY <2>1, <2>2, <2>3, FS_Singleton DEF Given
  <2>5. NetTypes' /\ ServerTypes'
    BY <2>1 DEF ListTypes, NetTypes, ServerTypes, NumbersLeft, SentAdds, Given, HasRow
  <2> QED
    BY <2>1, <2>3, <2>4, <2>5 DEF ListTypes, ScreenTypes
<1>8. ASSUME NEW r, HandleSaveBranding(r)
      PROVE  ListTypes'
  <2> DEFINE x == Call(Tag(calls), "save", r)
             new == {x}
  <2>1. /\ OnScreen(r) /\ running' = {r.id} /\ calls' = calls \cup new /\ disturbed' = (calls # {})
        /\ UNCHANGED <<open, shown, detected, loading, timers>> /\ UNCHANGED serverVars
    BY <1>8 DEF HandleSaveBranding
  <2>2. r \in AnyRow /\ r.id <= last /\ r.id \in 1 .. last /\ r.id # 0
    BY <2>1, OnScreenOK
  <2>3. x \in CallSet /\ x.op = "save" /\ x.row = r /\ x.rows = {}
    <3>1. Tag(calls) \in Nat
      BY TagOK DEF ListTypes, NetTypes
    <3> QED
      BY <2>2, <3>1, CallTyped DEF ListChanges
  <2>4. IsFiniteSet(new)
    BY FS_Singleton
  <2> HIDE DEF x
  <2>5. /\ new \subseteq CallSet /\ \A c \in new : c.row.id <= last /\ c.rows = {} /\ HasRow(c)
        /\ \A c \in new : c.op # "add"
    BY <2>2, <2>3 DEF HasRow
  <2>6. disturbed' \in BOOLEAN
    BY <2>1, Zenon
  <2> HIDE DEF new
  <2>7. NetTypes' /\ ServerTypes'
    BY <1>0, <2>1, <2>4, <2>5, <2>6, SendTypes
  <2> QED
    BY <2>1, <2>2, <2>7 DEF ListTypes, ScreenTypes, Given
<1>9. ASSUME TimerFires
      PROVE  ListTypes'
  <2>1. timers > 0 /\ timers' = timers - 1 /\ loading' = TRUE /\ SendLoad
        /\ UNCHANGED <<open, shown, detected, running>> /\ UNCHANGED serverVars
    BY <1>9 DEF TimerFires
  <2>2. timers' \in Nat
    BY <1>0, <2>1
  <2> QED
    BY <1>0, <1>1, <2>1, <2>2
<1> QED
  BY <1>2, <1>3, <1>4, <1>5, <1>6, <1>7, <1>8, <1>9, UserAsks, Zenon

(* The steps of the server keep the types, and so does what fails. *)
LEMMA ServerKeepsTypes ==
    ASSUME ListTypes, ServeCall \/ RunEnds \/ RefuseCall \/ LoseCall \/ ChangeElsewhere
    PROVE  ListTypes'
<1>0. /\ last \in Nat /\ last \in Id /\ disturbed \in BOOLEAN
      /\ \A c \in calls : c \in CallSet /\ c.row.id <= last /\ Given(c.rows) /\ HasRow(c) /\ c.row.id \in Nat
  <2>1. \A c \in calls : c \in CallSet /\ c.row \in AnyRow
    BY CallParts DEF ListTypes, NetTypes
  <2> QED
    BY <2>1, AddsCounted DEF ListTypes, NetTypes, ServerTypes, AnyRow
<1>1. ASSUME NEW c \in calls, NEW d \in CallSet, Answered(c, d), d.row.id <= last, Given(d.rows), HasRow(d), d.st # "sent",
             disturbed' \in BOOLEAN, UNCHANGED <<last, queried, tabVars>>,
             Given(stored'), runs' \subseteq ListRow, \A r \in runs' : r.id <= last
      PROVE  ListTypes'
  <2>1. NetTypes'
    <3>1. Given(d.rows)' /\ d.row.id <= last' /\ last <= last' /\ last' \in Id
      BY <1>0, <1>1 DEF Given, ListTypes, ServerTypes
    <3> QED
      BY <1>1, <3>1, AnsweredTypes
  <2>2. SentAdds' \subseteq SentAdds
    BY <1>1, AnsweredAdds
  <2>3. Cardinality(SentAdds') \in Nat /\ Cardinality(SentAdds') <= Cardinality(SentAdds)
    BY <2>2, AddsCounted
  <2>4. NumbersLeft'
    BY <1>1, <2>3, AddsCounted DEF ListTypes, ServerTypes, NumbersLeft
  <2>5. ServerTypes'
    BY <1>0, <1>1, <2>4 DEF ListTypes, ServerTypes, Given
  <2>6. ScreenTypes'
    BY <1>1, ScreenStays DEF tabVars
  <2> QED
    BY <2>1, <2>5, <2>6 DEF ListTypes
<1>2. Given(stored) /\ runs \subseteq ListRow /\ (\A r \in runs : r.id <= last)
      /\ \A S \in SUBSET stored : Given(S) /\ S \subseteq ListRow /\ \A r \in S : r.id <= last
  BY FS_Subset DEF ListTypes, ServerTypes, Given
<1>3. ASSUME NEW c \in calls, NEW st \in {"done", "failed"}, Answered(c, [c EXCEPT !.st = st]),
             st = "done" => c.op # "add", disturbed' \in BOOLEAN, UNCHANGED <<last, queried, tabVars>>,
             Given(stored'), runs' \subseteq ListRow, \A r \in runs' : r.id <= last
      PROVE  ListTypes'
  <2> DEFINE d == [c EXCEPT !.st = st]
  <2>1. d \in CallSet /\ d.row = c.row /\ d.rows = c.rows /\ d.st = st /\ d.op = c.op
    BY <1>0, StTyped
  <2>2. Answered(c, d)
    BY <1>3
  <2> HIDE DEF d
  <2>3. d.row.id <= last /\ Given(d.rows) /\ HasRow(d) /\ d.st # "sent"
    BY <1>0, <1>3, <2>1 DEF HasRow
  <2> QED
    BY <1>1, <1>3, <2>1, <2>2, <2>3
<1>4. ASSUME NEW i, NEW r \in ListRow, r.id <= last
      PROVE  Given(RowsWithout(i)) /\ Given(RowsWithout(i) \cup {r})
  <2>1. Given(RowsWithout(i))
    BY <1>2 DEF RowsWithout
  <2>2. IsFiniteSet(RowsWithout(i) \cup {r})
    BY <2>1, FS_AddElement DEF Given
  <2> QED
    BY <1>4, <2>1, <2>2 DEF Given
<1>5. ASSUME ServeCall
      PROVE  ListTypes'
  <2>1. PICK c \in calls :
          /\ c.st = "sent"
          /\ ServeLoad(c) \/ ServeDetect(c) \/ ServeAdd(c) \/ ServePut(c) \/ ServeDelete(c) \/ ServeRun(c)
          /\ UNCHANGED <<list, tabVars, disturbed, done, mishaps>>
    BY <1>5, Zenon DEF ServeCall
  <2>2. UNCHANGED tabVars /\ disturbed' \in BOOLEAN
    BY <1>0, <2>1
  <2> DEFINE f == Finished(c)
  <2>3. /\ f \in CallSet /\ f.row = c.row /\ f.rows = c.rows /\ f.st = "done" /\ f.op = c.op
        /\ f.row.id <= last /\ Given(f.rows)
        /\ c \in CallSet /\ f = [c EXCEPT !.st = "done"]
    BY <1>0, StTyped DEF Finished
  <2> HIDE DEF f
  <2>4. CASE ServeLoad(c)
    <3> DEFINE d == [f EXCEPT !.rows = stored]
    <3>1. Answered(c, d) /\ UNCHANGED serverVars /\ c.op = "load"
      BY <2>4, Zenon DEF ServeLoad, f
    <3>2. f \in CallSet /\ stored \in SUBSET ListRow
      BY <1>2, <2>3 DEF Given
    <3>3. d \in CallSet /\ d.rows = stored /\ d.st = f.st /\ d.row = f.row /\ d.op = f.op
      <4>1. \A y : y = [f EXCEPT !.rows = stored] =>
                    y \in CallSet /\ y.rows = stored /\ y.st = f.st /\ y.row = f.row /\ y.op = f.op
        BY <3>2, RowsTyped
      <4> QED
        BY <4>1
    <3> HIDE DEF d
    <3>4. d.row.id <= last /\ Given(d.rows) /\ HasRow(d) /\ d.st # "sent"
      BY <1>2, <2>3, <3>1, <3>3 DEF HasRow
    <3> QED
      BY <1>1, <1>2, <2>2, <3>1, <3>3, <3>4 DEF serverVars
  <2>5. CASE ServeDetect(c)
    <3> DEFINE new == queried \ KeysOf(stored)
               x == [isNull |-> new = {}, ips |-> new]
               d == [f EXCEPT !.seen = x]
    <3>1. x \in Seen
      <4>1. new \subseteq Keys /\ (new = {}) \in BOOLEAN
        BY DEF ListTypes, ServerTypes
      <4> HIDE DEF new
      <4> QED
        BY <4>1 DEF Seen
    <3>2. Answered(c, d) /\ UNCHANGED serverVars /\ c.op = "detect"
      BY <2>5, Zenon DEF ServeDetect, f
    <3> HIDE DEF x
    <3>3. f \in CallSet
      BY <2>3
    <3>4. d \in CallSet /\ d.rows = f.rows /\ d.st = f.st /\ d.row = f.row /\ d.op = f.op
      <4>1. \A y : y = [f EXCEPT !.seen = x] =>
                    y \in CallSet /\ y.rows = f.rows /\ y.st = f.st /\ y.row = f.row /\ y.op = f.op
        BY <3>1, <3>3, SeenTyped
      <4> QED
        BY <4>1
    <3> HIDE DEF d
    <3>5. d.row.id <= last /\ Given(d.rows) /\ HasRow(d) /\ d.st # "sent"
      BY <2>3, <3>2, <3>4 DEF HasRow
    <3> QED
      BY <1>1, <1>2, <2>2, <3>2, <3>4, <3>5 DEF serverVars
  <2>6. CASE ServePut(c)
    <3>1. UNCHANGED <<last, queried, runs>>
      BY <2>6 DEF ServePut
    <3>2. CASE c.row.id \notin NumbersOf(stored)
      <4>1. Answered(c, [c EXCEPT !.st = "failed"]) /\ UNCHANGED stored
        BY <2>6, <3>2 DEF ServePut
      <4> QED
        BY <1>2, <1>3, <2>2, <3>1, <4>1
    <3>3. CASE c.row.id \in NumbersOf(stored)
      <4>1. Answered(c, [c EXCEPT !.st = "done"]) /\ stored' = RowsWithout(c.row.id) \cup {c.row}
        BY <2>6, <3>3 DEF ServePut, Finished
      <4>a. c.op # "add"
        BY <2>6 DEF ServePut
      <4>2. c.row \in ListRow
        <5>1. c.row.id \in Id
          BY <3>3, <1>2 DEF NumbersOf, ListRow
        <5>2. c.row \in AnyRow
          BY <2>3, CallParts
        <5> QED
          BY <5>1, <5>2 DEF AnyRow, ListRow
      <4>3. Given(stored')
        BY <1>0, <1>4, <4>1, <4>2
      <4> QED
        BY <1>2, <1>3, <2>2, <3>1, <4>1, <4>3, <4>a
    <3> QED
      BY <3>2, <3>3
  <2>7. CASE ServeDelete(c)
    <3>1. UNCHANGED <<last, queried, runs>> /\ stored' = RowsWithout(c.row.id)
          /\ Answered(c, [c EXCEPT !.st = "done"]) /\ c.op # "add"
      BY <2>7 DEF ServeDelete, Finished
    <3>2. Given(stored')
      BY <1>2, <3>1 DEF RowsWithout
    <3> QED
      BY <1>2, <1>3, <2>2, <3>1, <3>2
  <2>8. CASE ServeRun(c)
    <3>1. UNCHANGED <<stored, last, queried>> /\ runs' = runs \cup {r \in stored : r.id = c.row.id}
          /\ Answered(c, [c EXCEPT !.st = "done"]) /\ c.op # "add"
      BY <2>8 DEF ServeRun, Finished
    <3>2. runs' \subseteq ListRow /\ \A r \in runs' : r.id <= last
      BY <1>2, <3>1
    <3> QED
      BY <1>2, <1>3, <2>2, <3>1, <3>2
  <2>9. CASE ServeAdd(c)
    <3>1. c.op = "add"
      BY <2>9 DEF ServeAdd
    <3>2. CASE UniqueKeys /\ c.row.key \in KeysOf(stored)
      <4>1. Answered(c, [c EXCEPT !.st = "failed"]) /\ UNCHANGED serverVars
        BY <2>9, <3>2 DEF ServeAdd
      <4> QED
        BY <1>2, <1>3, <2>2, <4>1 DEF serverVars
    <3>3. CASE ~(UniqueKeys /\ c.row.key \in KeysOf(stored))
      <4> DEFINE r == New(last + 1, c.row.key)
                 d == [f EXCEPT !.row = r]
      <4>1. /\ stored' = stored \cup {r} /\ Answered(c, d)
            /\ last' = last + 1 /\ UNCHANGED <<queried, runs>>
        BY <2>9, <3>3, Zenon DEF ServeAdd, f
      <4>2. /\ SentAdds' = SentAdds \ {c} /\ Cardinality(SentAdds) \in Nat \ {0}
            /\ Cardinality(SentAdds') = Cardinality(SentAdds) - 1
        <5>1. c \in SentAdds /\ IsFiniteSet(SentAdds)
          BY <2>1, <3>1, AddsCounted DEF SentAdds
        <5>2. f.st # "sent" /\ f \in CallSet
          BY <2>3
        <5>3. r \in AnyRow \/ r \notin AnyRow
          OBVIOUS
        <5>4. d.st = f.st
          BY <5>2, Zenon DEF CallSet
        <5>5. SentAdds' = SentAdds \ {c}
          BY <4>1, <5>2, <5>4, AnsweredAdds
        <5>6. Cardinality(SentAdds \ {c}) = Cardinality(SentAdds) - 1 /\ Cardinality(SentAdds) # 0
          BY <5>1, FS_RemoveElement, FS_EmptySet
        <5> QED
          BY <5>5, <5>6, AddsCounted
      <4>3. last + 1 \in Id /\ last + 1 + Cardinality(SentAdds') <= MaxId
        BY <4>2, AddsCounted DEF ListTypes, ServerTypes, NumbersLeft, Id
      <4>4. r \in ListRow /\ r \in AnyRow /\ r.id = last + 1
        BY <2>3, <4>3, RowTyped, CallParts DEF AnyRow
      <4> HIDE DEF r
      <4>5. f \in CallSet
        BY <2>3
      <4>6. d \in CallSet /\ d.rows = f.rows /\ d.st = f.st /\ d.row = r /\ d.op = f.op
        <5>1. \A y : y = [f EXCEPT !.row = r] =>
                      y \in CallSet /\ y.rows = f.rows /\ y.st = f.st /\ y.row = r /\ y.op = f.op
          BY <4>4, <4>5, RowOfTyped
        <5> QED
          BY <5>1
      <4> HIDE DEF d
      <4>7. \A i : i \in Nat /\ i <= last => i <= last'
        BY <1>0, <4>1
      <4>8. /\ d.row.id <= last' /\ HasRow(d) /\ last <= last' /\ last' \in Id
            /\ \A S : Given(S) => Given(S)'
        <5>1. \A q \in ListRow : q.id \in Nat
          BY ListBounds DEF ListRow, Id
        <5> QED
          BY <1>0, <4>1, <4>3, <4>4, <4>6, <4>7, <5>1 DEF HasRow, Given
      <4>9. NetTypes'
        BY <2>2, <2>3, <4>1, <4>6, <4>8, AnsweredTypes
      <4>10. Given(stored)'
        <5>1. IsFiniteSet(stored \cup {r})
          BY <1>2, FS_AddElement DEF Given
        <5>2. Given(stored)
          BY <1>2
        <5> QED
          BY <4>1, <4>4, <4>6, <4>8, <5>1, <5>2 DEF Given
      <4>11. ServerTypes'
        <5>1. \A q \in runs : q.id <= last'
          <6>1. \A q \in runs : q.id \in Nat /\ q.id <= last
            BY <1>2, RowTyped DEF AnyRow
          <6> QED
            BY <4>7, <6>1
        <5> QED
          BY <1>2, <4>1, <4>3, <4>8, <4>10, <5>1 DEF ListTypes, ServerTypes, NumbersLeft
      <4>12. ScreenTypes'
        <5>1. running \subseteq 1 .. last' /\ Given(ToSet(shown))'
          BY <1>0, <2>2, <4>1, <4>8 DEF ListTypes, ScreenTypes, tabVars, Given
        <5> QED
          BY <2>2, <5>1 DEF ListTypes, ScreenTypes, tabVars, Given
      <4> QED
        BY <4>9, <4>11, <4>12 DEF ListTypes
    <3> QED
      BY <3>2, <3>3
  <2> QED
    BY <2>1, <2>4, <2>5, <2>6, <2>7, <2>8, <2>9
<1>6. ASSUME RunEnds
      PROVE  ListTypes'
  <2>1. PICK r \in runs : /\ runs' = runs \ {r}
                          /\ stored' = RowsWithout(r.id) \cup {[r EXCEPT !.ran = TRUE]}
                          /\ disturbed' = TRUE
                          /\ UNCHANGED <<list, tabVars, calls, last, queried, done, mishaps>>
    BY <1>6, Zenon DEF RunEnds
  <2> DEFINE t == [r EXCEPT !.ran = TRUE]
  <2>2. t \in ListRow /\ t.id <= last
    BY <1>2, <2>1, RowTyped
  <2>3. stored' = RowsWithout(r.id) \cup {t}
    BY <2>1
  <2> HIDE DEF t
  <2>4. Given(stored')
    BY <1>4, <2>2, <2>3
  <2>5. ScreenTypes' /\ NetTypes'
    BY <2>1, ScreenStays DEF tabVars, ListTypes, NetTypes, Given
  <2>6. NumbersLeft'
    BY <2>1 DEF ListTypes, ServerTypes, NumbersLeft, SentAdds
  <2>7. ServerTypes'
    BY <1>0, <1>2, <2>1, <2>4, <2>6 DEF ListTypes, ServerTypes, Given
  <2> QED
    BY <2>5, <2>7 DEF ListTypes
<1>7. ASSUME RefuseCall \/ LoseCall
      PROVE  ListTypes'
  <2>1. PICK c \in calls : Answered(c, [c EXCEPT !.st = "failed"])
    BY <1>7, Zenon DEF RefuseCall, LoseCall
  <2>2. UNCHANGED tabVars /\ UNCHANGED serverVars /\ disturbed' \in BOOLEAN
    BY <1>0, <1>7 DEF RefuseCall, LoseCall, Mishap
  <2> QED
    BY <1>2, <1>3, <2>1, <2>2 DEF serverVars
<1>8. ASSUME ChangeElsewhere
      PROVE  ListTypes'
  <2>1. /\ Given(stored') /\ runs' \subseteq ListRow /\ \A r \in runs' : r.id <= last
        /\ disturbed' = TRUE /\ UNCHANGED <<list, tabVars, calls, last, queried>>
    BY <1>2, <1>8 DEF ChangeElsewhere, Mishap, RowsWithout
  <2>2. ScreenTypes' /\ NetTypes'
    BY <2>1, ScreenStays DEF tabVars, ListTypes, NetTypes, Given
  <2>3. NumbersLeft'
    BY <2>1 DEF ListTypes, ServerTypes, NumbersLeft, SentAdds
  <2>4. ServerTypes'
    BY <1>0, <2>1, <2>3 DEF ListTypes, ServerTypes, Given
  <2> QED
    BY <2>2, <2>4 DEF ListTypes
<1> QED
  BY <1>5, <1>6, <1>7, <1>8

(* The row of a request about a row, or of one that has added it, is a row.  *)
LEMMA RealRow ==
    ASSUME ListTypes, NEW c \in calls,
           c.op \in {"delete", "toggle", "save", "run"} \/ (c.op = "add" /\ c.st = "done")
    PROVE  c.row \in ListRow /\ c.row.id <= last /\ c.row.id \in 1 .. last
<1>1. c \in CallSet /\ c.row.id <= last /\ c.row.id # 0 /\ c.row \in AnyRow
  BY CallParts DEF ListTypes, NetTypes, HasRow
<1>2. c.row.id \in Nat /\ last \in 1 .. MaxId /\ MaxId \in Nat
  BY <1>1, AddsCounted DEF AnyRow
<1>3. c.row.id \in Id /\ c.row.id \in 1 .. last
  BY <1>1, <1>2 DEF Id
<1> QED
  BY <1>1, <1>3 DEF AnyRow, ListRow

(* The rows on the screen are the type's when they are rows with numbers     *)
(* that were given out.                                                      *)
LEMMA ShownTypes ==
    ASSUME ListTypes, shown' \in Seq(ListRow), \A r \in ToSet(shown') : r \in ToSet(shown) \/ r.id <= last,
           open' = open, loading' \in BOOLEAN, detected' \in Seen, running' \subseteq running,
           timers' \in Nat, UNCHANGED last
    PROVE  ScreenTypes'
<1>1. Len(shown') \in Nat /\ DOMAIN shown' = 1 .. Len(shown') /\ ToSet(shown') \subseteq ListRow
  BY RowsOfSeq
<1>2. IsFiniteSet(ToSet(shown'))
  <2> DEFINE S == 1 .. Len(shown')
             T == ToSet(shown')
             f == [i \in S |-> shown'[i]]
  <2>1. f \in [S -> T] /\ \A t \in T : \E i \in S : f[i] = t
    BY <1>1 DEF ToSet
  <2>2. IsFiniteSet(S)
    BY <1>1, FS_Interval
  <2> HIDE DEF f, S, T
  <2>3. IsFiniteSet(T)
    BY <2>1, <2>2, Covered
  <2> QED
    BY <2>3 DEF T
<1>3. \A r \in ToSet(shown') : r.id <= last
  BY DEF ListTypes, ScreenTypes, Given
<1> QED
  BY <1>1, <1>2, <1>3 DEF ListTypes, ScreenTypes, Given

(* So do the answers. *)
LEMMA AnswersTypes ==
    ASSUME ListTypes, ListAnswers
    PROVE  ListTypes'
<1>1. PICK c \in calls :
        \/ Unheard(c) \/ ListArrives(c) \/ DetectedArrive(c) \/ AddArrives(c) \/ ReloadingArrives(c)
        \/ DeleteArrives(c) \/ ToggleAnswered(c) \/ RunAnswered(c) \/ SaveAnswered(c) \/ CallFails(c)
  BY Zenon DEF ListAnswers
<1>2. /\ c \in CallSet /\ c.seen \in Seen /\ Given(c.rows)
      /\ shown \in Seq(ListRow) /\ \A r \in ToSet(shown) : r.id <= last
      /\ loading \in BOOLEAN /\ detected \in Seen /\ timers \in Nat /\ disturbed \in BOOLEAN
  BY CallParts DEF ListTypes, ScreenTypes, NetTypes, Given
<1>3. ASSUME Drop(c), UNCHANGED serverVars, UNCHANGED open,
             shown' \in Seq(ListRow), \A r \in ToSet(shown') : r \in ToSet(shown) \/ r.id <= last,
             loading' \in BOOLEAN, detected' \in Seen, running' \subseteq running, timers' \in Nat
      PROVE  ListTypes'
  <2>1. NetTypes' /\ ServerTypes'
    BY <1>2, <1>3, DropTypes DEF Drop, serverVars
  <2>2. ScreenTypes'
    BY <1>3, ShownTypes DEF serverVars
  <2> QED
    BY <2>1, <2>2 DEF ListTypes
<1>4. CASE Unheard(c)
  <2>1. Drop(c) /\ UNCHANGED serverVars /\ UNCHANGED tabVars
    BY <1>4 DEF Unheard, Drop
  <2> QED
    BY <1>2, <1>3, <2>1 DEF tabVars
<1>5. CASE ListArrives(c)
  <2>1. PICK s \in SetToSeqs(c.rows) : shown' = s
    BY <1>5, Zenon DEF ListArrives
  <2>2. c.rows \in SUBSET ListRow /\ IsFiniteSet(c.rows) /\ \A r \in c.rows : r.id <= last
    BY <1>2 DEF Given
  <2>3. shown' \in Seq(ListRow) /\ ToSet(shown') = c.rows
    BY <2>1, <2>2, OrderedRows
  <2>4. Drop(c) /\ UNCHANGED serverVars /\ loading' = FALSE /\ UNCHANGED <<open, detected, running, timers>>
    BY <1>5 DEF ListArrives, Heard
  <2> QED
    BY <1>2, <1>3, <2>2, <2>3, <2>4
<1>6. CASE DetectedArrive(c)
  <2>1. Drop(c) /\ UNCHANGED serverVars /\ detected' = c.seen /\ UNCHANGED <<open, shown, loading, running, timers>>
    BY <1>6 DEF DetectedArrive, Heard
  <2> QED
    BY <1>2, <1>3, <2>1
<1>7. CASE AddArrives(c)
  <2>1. /\ Drop(c) /\ UNCHANGED serverVars /\ UNCHANGED <<open, loading, running, timers>>
        /\ shown' = Patched(c) /\ c.op = "add" /\ c.st = "done"
        /\ detected' = [detected EXCEPT !.ips = @ \ {c.row.key}]
    BY <1>7 DEF AddArrives, Heard
  <2>2. c.row \in ListRow /\ c.row.id <= last
    BY <2>1, RealRow
  <2>3. shown' \in Seq(ListRow) /\ ToSet(shown') = ToSet(shown) \cup {c.row}
    BY <1>2, <2>1, <2>2, AppendRow, PrependRow DEF Patched
  <2>4. detected' \in Seen
    BY <1>2, <2>1 DEF Seen
  <2> QED
    BY <1>2, <1>3, <2>1, <2>2, <2>3, <2>4
<1>8. CASE ReloadingArrives(c)
  <2>1. /\ UNCHANGED serverVars /\ loading' = TRUE /\ UNCHANGED <<open, shown, detected, timers>>
        /\ SendAmong(calls \ {c}, Loads(Tag(calls \ {c})))
        /\ running' \subseteq running
    BY <1>8 DEF ReloadingArrives, Heard
  <2>2. NetTypes' /\ ServerTypes'
    BY <2>1, LoadTypes DEF serverVars
  <2>3. ScreenTypes'
    BY <1>2, <2>1, ShownTypes DEF serverVars
  <2> QED
    BY <2>2, <2>3 DEF ListTypes
<1>9. CASE DeleteArrives(c)
  <2>1. Drop(c) /\ UNCHANGED serverVars /\ UNCHANGED <<open, detected, loading, running, timers>>
        /\ shown' = Without(shown, c.row.id)
    BY <1>9 DEF DeleteArrives, Heard
  <2>2. shown' \in Seq(ListRow) /\ ToSet(shown') \subseteq ToSet(shown)
    BY <1>2, <2>1, FilterRows
  <2> QED
    BY <1>2, <1>3, <2>1, <2>2
<1>10. CASE ToggleAnswered(c)
  <2>1. Drop(c) /\ UNCHANGED serverVars /\ UNCHANGED <<open, detected, loading, running, timers>>
        /\ shown' = Mapped(shown, c.row)
        /\ c.op = "toggle"
    BY <1>10 DEF ToggleAnswered, Heard, Mapped
  <2>2. c.row \in ListRow /\ c.row.id <= last
    BY <2>1, RealRow
  <2>3. shown' \in Seq(ListRow)
        /\ ToSet(shown') = {r \in ToSet(shown) : r.id # c.row.id}
                           \cup (IF c.row.id \in NumbersOf(ToSet(shown)) THEN {c.row} ELSE {})
    BY <1>2, <2>1, <2>2, MapRow
  <2> QED
    BY <1>2, <1>3, <2>1, <2>2, <2>3
<1>11. CASE RunAnswered(c)
  <2>1. Drop(c) /\ UNCHANGED serverVars /\ UNCHANGED <<open, shown, detected, loading, running>>
        /\ timers' = timers + 1
    BY <1>11 DEF RunAnswered, Heard
  <2> QED
    BY <1>2, <1>3, <2>1
<1>12. CASE SaveAnswered(c)
  <2>1. Drop(c) /\ UNCHANGED serverVars /\ UNCHANGED <<open, shown, detected, loading, timers>>
        /\ running' = {}
    BY <1>12 DEF SaveAnswered, Heard
  <2> QED
    BY <1>2, <1>3, <2>1
<1>13. CASE CallFails(c)
  <2>1. /\ calls' = calls \ {c} /\ UNCHANGED serverVars /\ UNCHANGED <<open, shown, detected, timers>>
        /\ loading' \in BOOLEAN /\ running' \subseteq running
    BY <1>2, <1>13 DEF CallFails, Heard
  <2>2. disturbed' \in BOOLEAN
    <3>1. (disturbed \/ c.op \in {"load", "detect", "save"}) \in BOOLEAN
      OBVIOUS
    <3>2. disturbed' = (disturbed \/ c.op \in {"load", "detect", "save"})
      BY <1>13, Zenon DEF CallFails
    <3> QED
      BY <3>1, <3>2, Zenon
  <2>3. NetTypes' /\ ServerTypes'
    BY <2>1, <2>2, DropTypes DEF serverVars
  <2>4. ScreenTypes'
    BY <1>2, <2>1, ShownTypes DEF serverVars
  <2> QED
    BY <2>3, <2>4 DEF ListTypes
<1> QED
  BY <1>1, <1>4, <1>5, <1>6, <1>7, <1>8, <1>9, <1>10, <1>11, <1>12, <1>13, Zenon

(* The types hold at first. *)
LEMMA TypesAtFirst ==
    ASSUME ListInit
    PROVE  ListTypes
<1>1. /\ open = FALSE /\ loading = FALSE /\ shown = <<>> /\ detected = Nobody /\ running = {} /\ timers = 0
      /\ last = 1 /\ runs = {} /\ calls = IF list \in PageLists THEN Loads(1) ELSE {}
      /\ disturbed \in BOOLEAN /\ queried \subseteq Keys
  <2>1. (list \in TabLists) \in BOOLEAN
    OBVIOUS
  <2>2. disturbed \in BOOLEAN
    BY <2>1, Zenon DEF ListInit
  <2> QED
    BY <2>2 DEF ListInit
<1>2. 1 \in Id /\ 1 <= MaxId /\ MaxId \in Nat /\ 1 \in Nat
  BY ListBounds DEF Id
<1>3. Given(stored)
  <2>1. CASE stored = {}
    BY <2>1, FS_EmptySet DEF Given
  <2>2. CASE \E k \in Keys : stored = {New(1, k)}
    <3>1. PICK k \in Keys : stored = {New(1, k)}
      BY <2>2
    <3>2. New(1, k) \in ListRow /\ New(1, k).id = 1
      BY <1>2, RowTyped
    <3> DEFINE r == New(1, k)
    <3>3. stored = {r} /\ r \in ListRow /\ r.id = 1
      BY <3>1, <3>2
    <3> HIDE DEF r
    <3>4. IsFiniteSet({r})
      BY FS_Singleton
    <3> QED
      BY <1>1, <3>3, <3>4 DEF Given
  <2>3. stored \in {{}} \cup {{New(1, k)} : k \in Keys}
    BY DEF ListInit
  <2> QED
    BY <2>1, <2>2, <2>3, Zenon
<1>4. calls \subseteq CallSet /\ IsFiniteSet(calls) /\ \A c \in calls : c.op # "add" /\ c.row.id <= last /\ Given(c.rows) /\ HasRow(c)
  <2>1. Loads(1) \subseteq CallSet /\ IsFiniteSet(Loads(1))
        /\ \A c \in Loads(1) : c.op \in {"load", "detect"} /\ c.row.id = 0 /\ c.rows = {}
    BY <1>2, LoadsTyped
  <2>2. IsFiniteSet({})
    BY FS_EmptySet
  <2>3. Given({})
    BY <2>2 DEF Given
  <2>4. \A c \in Loads(1) : c.op # "add" /\ c.row.id <= last /\ Given(c.rows) /\ HasRow(c)
    <3>1. SUFFICES ASSUME NEW c \in Loads(1)
                   PROVE  c.op # "add" /\ c.row.id <= last /\ Given(c.rows) /\ HasRow(c)
      OBVIOUS
    <3>2. c.op \in {"load", "detect"} /\ c.row.id = 0 /\ c.rows = {}
      BY <2>1
    <3> QED
      BY <1>1, <2>3, <3>2 DEF HasRow
  <2> QED
    BY <1>1, <2>1, <2>2, <2>4
<1>5. NumbersLeft
  <2>1. SentAdds = {}
    BY <1>4 DEF SentAdds
  <2> QED
    BY <1>1, <1>2, <2>1, FS_EmptySet DEF NumbersLeft
<1>6. ScreenTypes
  <2>1. ToSet(shown) = {} /\ shown \in Seq(ListRow)
    BY <1>1 DEF ToSet
  <2> QED
    BY <1>1, <2>1, BlankOK, FS_EmptySet DEF ScreenTypes, Given
<1> QED
  BY <1>1, <1>2, <1>3, <1>4, <1>5, <1>6 DEF ListTypes, NetTypes, ServerTypes

(* The types are kept by whatever happens to the list. *)
LEMMA TypesKept ==
    ASSUME ListTypes, ListNext \/ UNCHANGED listVars
    PROVE  ListTypes'
<1>1. CASE UNCHANGED listVars
  BY <1>1 DEF listVars, tabVars, netVars, serverVars, ListTypes, ScreenTypes, NetTypes, ServerTypes,
              NumbersLeft, SentAdds, Given, HasRow
<1> QED
  BY <1>1, UserTypes, ServerKeepsTypes, AnswersTypes DEF ListNext

(* They are what the runs check, and more. *)
LEMMA TypesEnough ==
    ASSUME ListTypes
    PROVE  ListTypeOK
<1>1. last \in Nat
  BY AddsCounted
<1>2. ASSUME NEW c \in calls
      PROVE  CallOK(c)
  <2>1. c \in CallSet /\ c.row.id <= last
    BY DEF ListTypes, NetTypes
  <2> QED
    BY <1>1, <2>1 DEF CallOK, CallSet, AnyRow, Seen
<1> QED
  BY <1>2 DEF ListTypes, ListTypeOK, ScreenTypes, NetTypes, ServerTypes, Given, Seen
=================================================================================
