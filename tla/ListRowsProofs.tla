----------------------------- MODULE ListRowsProofs -----------------------------
(* Proofs about ListTabs for any rows and bounds: the list of someone who    *)
(* waits for each answer is the server's, and no detected category is one    *)
(* that is already managed.                                                  *)
EXTENDS ListTabsProofs


------------------------------------------------------------------------------
(* The rows on the screen and those of the server.                           *)

(* Which list makes which requests, and whose they are. *)
OpsOfLists ==
    /\ list \in PageLists \cup TabLists \cup {"off"}
    /\ list = "branding" => runs = {} /\ \A c \in calls : c.op \in {"load", "save"}
    /\ \A c \in calls : /\ c.op = "toggle" => list = "subscriptions"
                        /\ c.op = "save" => list = "branding"
                        /\ c.op = "detect" => list = "clients"
    /\ list \in PageLists => \A c \in calls : c.mine

(* The branding form is a list of one row. *)
OneRow(S) == \E r \in S : S = {r}
BrandingIsOne == list = "branding" =>
    /\ OneRow(stored)
    /\ Len(shown) <= 1
    /\ \A c \in calls : c.op = "load" /\ c.st = "done" => OneRow(c.rows)

ListBasics == OpsOfLists /\ Unique(stored) /\ BrandingIsOne

(* A request in place of another one is of the same list and mount. *)
LEMMA SameOps ==
    ASSUME OpsOfLists, NEW c \in calls, NEW d, Answered(c, d), d.op = c.op, d.mine = c.mine,
           list' = list, list = "branding" => runs' = {}
    PROVE  OpsOfLists'
<1>1. \A e \in calls' : e \in calls \/ (e.op = c.op /\ e.mine = c.mine)
  BY DEF Answered
<1> QED
  BY <1>1 DEF OpsOfLists

(* So are those that are left when one is dropped. *)
LEMMA FewerOps ==
    ASSUME OpsOfLists, \A e \in calls' : e \in calls, list' = list, list = "branding" => runs' = {}
    PROVE  OpsOfLists'
  BY DEF OpsOfLists

(* An order of one row is of length one. *)
LEMMA OneInOrder ==
    ASSUME NEW S, OneRow(S), NEW s \in SetToSeqs(S)
    PROVE  Len(s) <= 1
<1>1. PICK r \in S : S = {r}
  BY DEF OneRow
<1>2. Cardinality(S) = 1
  BY <1>1, FS_Singleton
<1>3. PICK n \in Nat : n = 1 /\ Cardinality(S) = n
  BY <1>2
<1>4. s \in [1 .. n -> S]
  BY <1>3 DEF SetToSeqs
<1>5. Len(s) = n
  BY <1>3, <1>4
<1> QED
  BY <1>3, <1>5

(* The steps of the user and the timers keep this. *)
LEMMA UserKeepsBasics ==
    ASSUME ListTypes, ListBasics, ListUser \/ TimerFires
    PROVE  ListBasics'
<1> USE DEF Acts, serverVars
<1>1. ASSUME SendLoad, UNCHANGED <<list, shown, stored, runs>>
      PROVE  ListBasics'
  <2>1. PICK new \in SUBSET CallSet :
          /\ calls' = calls \cup new
          /\ \A c \in new : /\ c.op \in {"load", "detect"} /\ c.mine /\ c.st = "sent"
                            /\ c.op = "detect" => list = "clients"
    <3>1. calls \in SUBSET calls
      OBVIOUS
    <3> QED
      BY <1>1, <3>1, LoadSends DEF SendLoad
  <2>2. OpsOfLists'
    BY <1>1, <2>1 DEF ListBasics, OpsOfLists, PageLists
  <2> QED
    BY <1>1, <2>1, <2>2 DEF ListBasics, BrandingIsOne, Unique, OneRow
<1>2. ASSUME NEW op \in {"add", "delete", "toggle", "run"}, NEW row \in AnyRow, SendCall(op, row),
             op = "toggle" => list = "subscriptions", list # "branding",
             UNCHANGED <<list, shown, stored, runs>>
      PROVE  ListBasics'
  <2>1. PICK x \in CallSet : /\ calls' = calls \cup {x} /\ x.op = op /\ x.mine /\ x.st = "sent"
    BY <1>2, AskSends
  <2>2. OpsOfLists'
    BY <1>2, <2>1 DEF ListBasics, OpsOfLists
  <2> QED
    BY <1>2, <2>1, <2>2 DEF ListBasics, BrandingIsOne, Unique, OneRow
<1>3. ASSUME UNCHANGED <<list, shown, stored, runs, calls>>
      PROVE  ListBasics'
  BY <1>3 DEF ListBasics, OpsOfLists, BrandingIsOne, Unique, OneRow
<1>4. ASSUME OpenTab
      PROVE  ListBasics'
  BY <1>1, <1>3, <1>4 DEF OpenTab, netVars
<1>5. ASSUME LeaveTab
      PROVE  ListBasics'
  <2>1. CASE list \in TabLists
    <3>1. /\ shown' = <<>> /\ UNCHANGED <<list, stored, runs>>
          /\ calls' = {[c EXCEPT !.mine = FALSE] : c \in calls}
      BY <1>5, <2>1 DEF LeaveTab
    <3> DEFINE away(c) == [c EXCEPT !.mine = FALSE]
    <3>2. \A c \in calls : away(c).op = c.op /\ away(c).st = c.st /\ away(c).rows = c.rows
      BY MineTyped DEF ListTypes, NetTypes
    <3>3. calls' = {away(c) : c \in calls}
      BY <3>1
    <3> HIDE DEF away
    <3>4. list \notin PageLists
      BY <2>1 DEF TabLists, PageLists
    <3>5. OpsOfLists'
      BY <3>1, <3>2, <3>3, <3>4 DEF ListBasics, OpsOfLists
    <3>6. Len(shown') <= 1
      BY <3>1
    <3> QED
      BY <3>1, <3>2, <3>3, <3>5, <3>6 DEF ListBasics, BrandingIsOne, Unique, OneRow
  <2>2. CASE list \notin TabLists
    BY <1>3, <1>5, <2>2 DEF LeaveTab
  <2> QED
    BY <2>1, <2>2
<1>6. ASSUME RefreshList
      PROVE  ListBasics'
  BY <1>1, <1>6 DEF RefreshList
<1>7. ASSUME NEW op, NEW row, Asked(op, row), UNCHANGED tabVars
      PROVE  ListBasics'
  <2>1. /\ op \in {"add", "delete", "toggle", "run"} /\ row \in AnyRow /\ SendCall(op, row)
        /\ op = "toggle" => list = "subscriptions"
        /\ list # "branding" /\ UNCHANGED <<list, shown, stored, runs>>
    BY <1>7 DEF Asked, tabVars
  <2> QED
    BY <1>2, <2>1
<1>8. ASSUME NEW r, HandleRunSub(r)
      PROVE  ListBasics'
  <2>1. /\ OnScreen(r) /\ SendCall("run", r) /\ list = "blocklists" /\ UNCHANGED <<list, shown, stored, runs>>
    BY <1>8 DEF HandleRunSub
  <2>2. r \in AnyRow
    BY <2>1, OnScreenOK
  <2> QED
    BY <1>2, <2>1, <2>2
<1>9. ASSUME NEW r, EditBranding(r)
      PROVE  ListBasics'
  <2>1. /\ shown' = <<[r EXCEPT !.on = ~r.on]>> /\ UNCHANGED <<list, stored, runs, calls>>
    BY <1>9 DEF EditBranding
  <2>2. Len(shown') <= 1
    BY <2>1
  <2> QED
    BY <2>1, <2>2 DEF ListBasics, OpsOfLists, BrandingIsOne, Unique, OneRow
<1>10. ASSUME NEW r, HandleSaveBranding(r)
      PROVE  ListBasics'
  <2> DEFINE x == Call(Tag(calls), "save", r)
  <2>1. /\ OnScreen(r) /\ calls' = calls \cup {x} /\ UNCHANGED <<list, shown, stored, runs>> /\ list = "branding"
    BY <1>10 DEF HandleSaveBranding
  <2>2. x.op = "save" /\ x.mine
    BY DEF Call
  <2> HIDE DEF x
  <2>3. OpsOfLists'
    BY <2>1, <2>2 DEF ListBasics, OpsOfLists
  <2> QED
    BY <2>1, <2>2, <2>3 DEF ListBasics, BrandingIsOne, Unique, OneRow
<1>11. ASSUME TimerFires
      PROVE  ListBasics'
  BY <1>1, <1>11 DEF TimerFires
<1> QED
  BY <1>4, <1>5, <1>6, <1>7, <1>8, <1>9, <1>10, <1>11, UserAsks, Zenon

(* A row is written over the one with its number, or next to the others.     *)
LEMMA UniqueWith ==
    ASSUME Unique(stored), NEW r
    PROVE  /\ Unique(RowsWithout(r.id)) /\ Unique(RowsWithout(r.id) \cup {r})
           /\ r.id \notin NumbersOf(stored) => Unique(stored \cup {r})
           /\ OneRow(stored) /\ r.id \in NumbersOf(stored) => RowsWithout(r.id) \cup {r} = {r}
  BY DEF Unique, RowsWithout, NumbersOf, OneRow

(* The next number is nobody's. *)
LEMMA NextNumber ==
    ASSUME ListTypes
    PROVE  /\ last + 1 \notin NumbersOf(stored) /\ last + 1 \notin NumbersOf(ToSet(shown))
           /\ \A c \in calls : c.row.id # last + 1
<1>1. last \in Nat /\ \A r \in ListRow : r.id \in Nat
  BY AddsCounted, RowTyped DEF AnyRow
<1>2. /\ \A r \in stored : r \in ListRow /\ r.id <= last
      /\ \A r \in ToSet(shown) : r \in ListRow /\ r.id <= last
  BY DEF ListTypes, ScreenTypes, ServerTypes, Given
<1>3. \A c \in calls : c.row.id \in Nat /\ c.row.id <= last
  BY CallParts DEF ListTypes, NetTypes, AnyRow
<1> QED
  BY <1>1, <1>2, <1>3 DEF NumbersOf

(* What the server does to a request. *)
LEMMA ServedCall ==
    ASSUME ListTypes, NEW c \in calls,
           ServeLoad(c) \/ ServeDetect(c) \/ ServeAdd(c) \/ ServePut(c) \/ ServeDelete(c) \/ ServeRun(c)
    PROVE  \E d \in CallSet :
             /\ Answered(c, d) /\ d.op = c.op /\ d.mine = c.mine
             /\ d.st \in {"done", "failed"} /\ (d.st = "failed" => stored' = stored)
             /\ c.op # "detect" => d.seen = c.seen
             /\ ~(c.op = "add" /\ d.st = "done") => d.row = c.row
             /\ \/ c.op = "load" /\ d.rows = stored /\ d.st = "done"
                \/ c.op = "detect" /\ d.st = "done"
                   /\ d.seen = [isNull |-> queried \ KeysOf(stored) = {}, ips |-> queried \ KeysOf(stored)]
                \/ c.op = "run" /\ d.st = "done"
                \/ c.op = "add" /\ (d.st = "done" => d.row.id = last + 1 /\ stored' = stored \cup {d.row})
                \/ c.op \in {"toggle", "save"}
                   /\ (d.st = "done" => /\ c.row.id \in NumbersOf(stored)
                                        /\ stored' = RowsWithout(c.row.id) \cup {c.row})
                \/ c.op = "delete" /\ d.st = "done" /\ stored' = RowsWithout(c.row.id)
             /\ c.op \in {"load", "detect", "run"} => stored' = stored
             /\ c.op # "run" => runs' = runs
<1>1. c \in CallSet /\ c.row.id \in Nat /\ last \in Nat
  BY CallParts, AddsCounted DEF ListTypes, NetTypes, AnyRow
<1> DEFINE f == Finished(c)
<1>2. /\ f \in CallSet /\ f.row = c.row /\ f.rows = c.rows /\ f.st = "done" /\ f.op = c.op
      /\ f.seen = c.seen /\ f.mine = c.mine
  BY <1>1, StTyped DEF Finished
<1>3. PICK g \in CallSet : /\ g = [c EXCEPT !.st = "failed"] /\ g.st = "failed"
                           /\ g.row = c.row /\ g.op = c.op /\ g.seen = c.seen /\ g.mine = c.mine
  BY <1>1, StTyped
<1>4. CASE ServeLoad(c)
  <2>1. Answered(c, [f EXCEPT !.rows = stored]) /\ UNCHANGED serverVars /\ c.op = "load"
    BY <1>4, Zenon DEF ServeLoad, f
  <2> HIDE DEF f
  <2>2. stored \in SUBSET ListRow
    BY DEF ListTypes, ServerTypes, Given
  <2>a. PICK d : d = [f EXCEPT !.rows = stored]
    OBVIOUS
  <2>3. /\ d \in CallSet /\ d.rows = stored /\ d.st = f.st
        /\ d.row = f.row /\ d.op = f.op /\ d.seen = f.seen /\ d.mine = f.mine
    BY <1>2, <2>2, <2>a, RowsTyped
  <2> QED
    BY <1>2, <2>1, <2>a, <2>3 DEF serverVars
<1>5. CASE ServeDetect(c)
  <2> DEFINE x == [isNull |-> queried \ KeysOf(stored) = {}, ips |-> queried \ KeysOf(stored)]
  <2>1. Answered(c, [f EXCEPT !.seen = x]) /\ UNCHANGED serverVars /\ c.op = "detect"
    BY <1>5, Zenon DEF ServeDetect, f
  <2> HIDE DEF f
  <2>2. x \in Seen
    <3> DEFINE new == queried \ KeysOf(stored)
    <3>1. new \subseteq Keys /\ (new = {}) \in BOOLEAN
      BY DEF ListTypes, ServerTypes
    <3>2. x = [isNull |-> new = {}, ips |-> new]
      OBVIOUS
    <3> HIDE DEF new, x
    <3> QED
      BY <3>1, <3>2 DEF Seen
  <2> HIDE DEF x
  <2>a. PICK d : d = [f EXCEPT !.seen = x]
    OBVIOUS
  <2>3. /\ d \in CallSet /\ d.seen = x /\ d.st = f.st
        /\ d.row = f.row /\ d.op = f.op /\ d.mine = f.mine
    BY <1>2, <2>2, <2>a, SeenTyped
  <2>4. Answered(c, d) /\ d.op = c.op /\ d.mine = c.mine /\ d.st = "done" /\ d.row = c.row /\ d.seen = x
    BY <1>2, <2>1, <2>a, <2>3
  <2>5. UNCHANGED <<stored, runs>>
    BY <2>1 DEF serverVars
  <2> QED
    BY <2>1, <2>3, <2>4, <2>5, Zenon DEF x
<1>6. CASE ServeAdd(c)
  <2>1. c.op = "add"
    BY <1>6 DEF ServeAdd
  <2>2. CASE UniqueKeys /\ c.row.key \in KeysOf(stored)
    <3>1. Answered(c, g) /\ UNCHANGED serverVars
      BY <1>3, <1>6, <2>2 DEF ServeAdd
    <3> QED
      BY <1>3, <2>1, <3>1 DEF serverVars
  <2>3. CASE ~(UniqueKeys /\ c.row.key \in KeysOf(stored))
    <3> DEFINE r == New(last + 1, c.row.key)
    <3>1. /\ stored' = stored \cup {r} /\ Answered(c, [f EXCEPT !.row = r])
          /\ UNCHANGED runs
      BY <1>6, <2>3, Zenon DEF ServeAdd, f
    <3>2. r \in AnyRow /\ r.id = last + 1
      BY <1>1, CallParts DEF New, AnyRow
    <3> HIDE DEF r, f
    <3>a. PICK d : d = [f EXCEPT !.row = r]
      OBVIOUS
    <3>3. /\ d \in CallSet /\ d.row = r /\ d.st = f.st
          /\ d.op = f.op /\ d.seen = f.seen /\ d.mine = f.mine
      BY <1>2, <3>2, <3>a, RowOfTyped
    <3> QED
      BY <1>2, <2>1, <3>1, <3>2, <3>a, <3>3
  <2> QED
    BY <2>2, <2>3
<1>7. CASE ServePut(c)
  <2>1. c.op \in {"toggle", "save"} /\ UNCHANGED runs
    BY <1>7 DEF ServePut
  <2>2. CASE c.row.id \notin NumbersOf(stored)
    <3>1. Answered(c, g) /\ UNCHANGED stored
      BY <1>3, <1>7, <2>2 DEF ServePut
    <3> QED
      BY <1>3, <2>1, <3>1
  <2>3. CASE c.row.id \in NumbersOf(stored)
    <3>1. Answered(c, f) /\ stored' = RowsWithout(c.row.id) \cup {c.row}
      BY <1>7, <2>3 DEF ServePut
    <3> HIDE DEF f
    <3> QED
      BY <1>2, <2>1, <2>3, <3>1
  <2> QED
    BY <2>2, <2>3
<1>8. CASE ServeDelete(c)
  <2>1. Answered(c, f) /\ stored' = RowsWithout(c.row.id) /\ c.op = "delete" /\ UNCHANGED runs
    BY <1>8 DEF ServeDelete
  <2> HIDE DEF f
  <2> QED
    BY <1>2, <2>1
<1>9. CASE ServeRun(c)
  <2>1. Answered(c, f) /\ UNCHANGED stored /\ c.op = "run"
    BY <1>9 DEF ServeRun
  <2> HIDE DEF f
  <2> QED
    BY <1>2, <2>1
<1> QED
  BY <1>4, <1>5, <1>6, <1>7, <1>8, <1>9

(* The steps of the server, and what fails, keep this. *)
LEMMA ServerKeepsBasics ==
    ASSUME ListTypes, ListBasics, ServeCall \/ RunEnds \/ RefuseCall \/ LoseCall \/ ChangeElsewhere
    PROVE  ListBasics'
<1>1. OpsOfLists /\ Unique(stored) /\ BrandingIsOne
  BY DEF ListBasics
<1>2. ASSUME ServeCall
      PROVE  ListBasics'
  <2>1. PICK c \in calls :
          /\ ServeLoad(c) \/ ServeDetect(c) \/ ServeAdd(c) \/ ServePut(c) \/ ServeDelete(c) \/ ServeRun(c)
          /\ UNCHANGED <<list, tabVars, disturbed, done, mishaps>>
    BY <1>2, Zenon DEF ServeCall
  <2>2. UNCHANGED <<list, shown>>
    BY <2>1 DEF tabVars
  <2>3. PICK d \in CallSet :
             /\ Answered(c, d) /\ d.op = c.op /\ d.mine = c.mine
             /\ d.st \in {"done", "failed"} /\ (d.st = "failed" => stored' = stored)
             /\ c.op # "detect" => d.seen = c.seen
             /\ ~(c.op = "add" /\ d.st = "done") => d.row = c.row
             /\ \/ c.op = "load" /\ d.rows = stored /\ d.st = "done"
                \/ c.op = "detect" /\ d.st = "done"
                   /\ d.seen = [isNull |-> queried \ KeysOf(stored) = {}, ips |-> queried \ KeysOf(stored)]
                \/ c.op = "run" /\ d.st = "done"
                \/ c.op = "add" /\ (d.st = "done" => d.row.id = last + 1 /\ stored' = stored \cup {d.row})
                \/ c.op \in {"toggle", "save"}
                   /\ (d.st = "done" => /\ c.row.id \in NumbersOf(stored)
                                        /\ stored' = RowsWithout(c.row.id) \cup {c.row})
                \/ c.op = "delete" /\ d.st = "done" /\ stored' = RowsWithout(c.row.id)
             /\ c.op \in {"load", "detect", "run"} => stored' = stored
             /\ c.op # "run" => runs' = runs
    BY <2>1, ServedCall
  <2>4. list = "branding" => c.op \in {"load", "save"} /\ runs' = {}
    BY <1>1, <2>3 DEF OpsOfLists
  <2>5. OpsOfLists'
    BY <1>1, <2>2, <2>3, <2>4, SameOps
  <2>6. Unique(stored')
    <3>1. CASE stored' = stored
      BY <1>1, <3>1
    <3>2. CASE c.op = "add" /\ d.row.id = last + 1 /\ stored' = stored \cup {d.row}
      BY <1>1, <3>2, NextNumber, UniqueWith
    <3>3. CASE stored' = RowsWithout(c.row.id) \cup {c.row}
      BY <1>1, <3>3, UniqueWith
    <3>4. CASE stored' = RowsWithout(c.row.id)
      BY <1>1, <3>4, UniqueWith
    <3> QED
      BY <2>3, <3>1, <3>2, <3>3, <3>4
  <2>7. ASSUME list = "branding"
        PROVE  OneRow(stored')
    <3>1. OneRow(stored)
      BY <1>1, <2>7 DEF BrandingIsOne
    <3>2. CASE stored' = stored
      BY <3>1, <3>2
    <3>3. CASE c.row.id \in NumbersOf(stored) /\ stored' = RowsWithout(c.row.id) \cup {c.row}
      <4>1. stored' = {c.row}
        BY <1>1, <3>1, <3>3, UniqueWith
      <4> QED
        BY <4>1 DEF OneRow
    <3> QED
      BY <2>3, <2>4, <2>7, <3>2, <3>3
  <2>8. ASSUME list = "branding", NEW e \in calls', e.op = "load", e.st = "done"
        PROVE  OneRow(e.rows)
    <3>1. CASE e \in calls
      BY <1>1, <2>8, <3>1 DEF BrandingIsOne
    <3>2. CASE e = d
      <4>1. e.rows = stored
        BY <2>3, <2>8, <3>2
      <4> QED
        BY <1>1, <2>8, <4>1 DEF BrandingIsOne
    <3> QED
      BY <2>3, <3>1, <3>2 DEF Answered
  <2>9. BrandingIsOne'
    BY <1>1, <2>2, <2>7, <2>8 DEF BrandingIsOne, OneRow
  <2> QED
    BY <2>5, <2>6, <2>9 DEF ListBasics, Unique
<1>3. ASSUME RunEnds
      PROVE  ListBasics'
  <2>1. PICK r \in runs : /\ runs' = runs \ {r}
                          /\ stored' = RowsWithout(r.id) \cup {[r EXCEPT !.ran = TRUE]}
                          /\ UNCHANGED <<list, tabVars, calls>>
    BY <1>3 DEF RunEnds
  <2> DEFINE t == [r EXCEPT !.ran = TRUE]
  <2>2. t.id = r.id
    BY <2>1, RowTyped DEF ListTypes, ServerTypes
  <2>3. stored' = RowsWithout(t.id) \cup {t} /\ list # "branding"
    BY <1>1, <2>1, <2>2 DEF OpsOfLists
  <2> HIDE DEF t
  <2>4. Unique(stored')
    BY <1>1, <2>3, UniqueWith
  <2>5. OpsOfLists' /\ BrandingIsOne'
    BY <1>1, <2>1, <2>3 DEF OpsOfLists, BrandingIsOne
  <2> QED
    BY <2>4, <2>5 DEF ListBasics, Unique
<1>4. ASSUME RefuseCall \/ LoseCall
      PROVE  ListBasics'
  <2>1. PICK c \in calls : Answered(c, [c EXCEPT !.st = "failed"])
    BY <1>4, Zenon DEF RefuseCall, LoseCall
  <2>2. UNCHANGED tabVars /\ UNCHANGED serverVars /\ UNCHANGED list
    BY <1>4 DEF RefuseCall, LoseCall, Mishap
  <2>3. PICK d : d = [c EXCEPT !.st = "failed"] /\ d.op = c.op /\ d.mine = c.mine /\ d.st = "failed"
    BY StTyped DEF ListTypes, NetTypes
  <2>4. OpsOfLists'
    BY <1>1, <2>1, <2>2, <2>3, SameOps DEF OpsOfLists, serverVars
  <2>5. \A e \in calls' : e \in calls \/ e.st # "done"
    BY <2>1, <2>3 DEF Answered
  <2> QED
    BY <1>1, <2>2, <2>4, <2>5 DEF ListBasics, BrandingIsOne, Unique, OneRow, serverVars, tabVars
<1>5. ASSUME ChangeElsewhere
      PROVE  ListBasics'
  <2>1. /\ stored' \subseteq stored /\ list # "branding" /\ UNCHANGED <<list, tabVars, calls>>
    BY <1>5 DEF ChangeElsewhere, Mishap, RowsWithout
  <2> QED
    BY <1>1, <2>1 DEF ListBasics, OpsOfLists, BrandingIsOne, Unique
<1> QED
  BY <1>2, <1>3, <1>4, <1>5

(* So do the answers. *)
LEMMA AnswersKeepBasics ==
    ASSUME ListTypes, ListBasics, ListAnswers
    PROVE  ListBasics'
<1>1. OpsOfLists /\ Unique(stored) /\ BrandingIsOne
  BY DEF ListBasics
<1>2. PICK c \in calls :
        \/ Unheard(c) \/ ListArrives(c) \/ DetectedArrive(c) \/ AddArrives(c) \/ ReloadingArrives(c)
        \/ DeleteArrives(c) \/ ToggleAnswered(c) \/ RunAnswered(c) \/ SaveAnswered(c) \/ CallFails(c)
  BY Zenon DEF ListAnswers
<1>3. ASSUME calls' = calls \ {c}, UNCHANGED <<list, stored, runs>>, list = "branding" => Len(shown') <= 1
      PROVE  ListBasics'
  <2>1. OpsOfLists'
    BY <1>1, <1>3, FewerOps DEF OpsOfLists
  <2> QED
    BY <1>1, <1>3, <2>1 DEF ListBasics, BrandingIsOne, Unique, OneRow
<1>4. CASE Unheard(c) \/ DetectedArrive(c) \/ RunAnswered(c) \/ SaveAnswered(c) \/ CallFails(c)
  <2>1. calls' = calls \ {c} /\ UNCHANGED <<list, stored, runs, shown>>
    BY <1>4, Zenon DEF Unheard, DetectedArrive, RunAnswered, SaveAnswered, CallFails, Heard, Drop, serverVars, tabVars
  <2> QED
    BY <1>1, <1>3, <2>1 DEF BrandingIsOne
<1>5. CASE AddArrives(c) \/ DeleteArrives(c) \/ ToggleAnswered(c)
  <2>1. calls' = calls \ {c} /\ UNCHANGED <<list, stored, runs>> /\ c.op \in {"add", "delete", "toggle"}
    BY <1>5 DEF AddArrives, DeleteArrives, ToggleAnswered, Heard, Drop, serverVars
  <2> QED
    BY <1>1, <1>3, <2>1 DEF OpsOfLists
<1>6. CASE ListArrives(c)
  <2>1. calls' = calls \ {c} /\ UNCHANGED <<list, stored, runs>> /\ c.op = "load" /\ c.st = "done"
    BY <1>6 DEF ListArrives, Heard, Drop, serverVars
  <2>2. PICK s \in SetToSeqs(c.rows) : shown' = s
    BY <1>6, Zenon DEF ListArrives
  <2>3. list = "branding" => Len(shown') <= 1
    BY <1>1, <2>1, <2>2, OneInOrder DEF BrandingIsOne
  <2> QED
    BY <1>3, <2>1, <2>3
<1>7. CASE ReloadingArrives(c)
  <2>1. /\ SendAmong(calls \ {c}, Loads(Tag(calls \ {c}))) /\ UNCHANGED <<list, shown, stored, runs>>
        /\ list = "blocklists"
    BY <1>7 DEF ReloadingArrives, Heard, serverVars
  <2>2. PICK new \in SUBSET CallSet :
          /\ calls' = (calls \ {c}) \cup new
          /\ \A d \in new : /\ d.op \in {"load", "detect"} /\ d.mine
                            /\ d.op = "detect" => list = "clients"
    BY <2>1, LoadSends
  <2>3. OpsOfLists'
    BY <1>1, <2>1, <2>2 DEF OpsOfLists
  <2> QED
    BY <1>1, <2>1, <2>3 DEF ListBasics, BrandingIsOne, Unique
<1> QED
  BY <1>2, <1>4, <1>5, <1>6, <1>7, Zenon

(* It holds at first. *)
LEMMA BasicsAtFirst ==
    ASSUME ListInit
    PROVE  ListBasics
<1>1. /\ shown = <<>> /\ runs = {} /\ calls = IF list \in PageLists THEN Loads(1) ELSE {}
      /\ list = "branding" => stored # {}
      /\ stored \in {{}} \cup {{New(1, k)} : k \in Keys}
      /\ list \in PageLists \cup TabLists \cup {"off"}
  BY ListTabsAssumption DEF ListInit
<1>2. \A c \in Loads(1) : c.op \in {"load", "detect"} /\ c.mine /\ (c.op = "detect" => list = "clients")
  <2>1. 1 \in Nat
    OBVIOUS
  <2> QED
    BY <2>1, LoadsTyped
<1>3. OpsOfLists
  BY <1>1, <1>2 DEF OpsOfLists, PageLists
<1>4. stored = {} \/ \E r : stored = {r}
  BY <1>1, Zenon
<1>5. Len(shown) <= 1
  BY <1>1
<1>6. list = "branding" => calls = {}
  BY <1>1 DEF PageLists
<1> QED
  BY <1>1, <1>3, <1>4, <1>5, <1>6 DEF ListBasics, BrandingIsOne, Unique, OneRow

(* Whatever happens to the list keeps it. *)
LEMMA BasicsKept ==
    ASSUME ListTypes, ListBasics, ListNext \/ UNCHANGED listVars
    PROVE  ListBasics'
<1>1. CASE UNCHANGED listVars
  BY <1>1 DEF listVars, tabVars, netVars, serverVars, ListBasics, OpsOfLists, Unique, BrandingIsOne, OneRow
<1> QED
  BY <1>1, UserKeepsBasics, ServerKeepsBasics, AnswersKeepBasics DEF ListNext

------------------------------------------------------------------------------
(* What the screen owes the server.  While nothing has disturbed the list,   *)
(* the edits that are out commute with all that is out with them (Calm), and *)
(* when no load is out either, the rows of the server are those on the       *)
(* screen with the edits that the server has done and the screen has not     *)
(* heard of (Follows).                                                       *)

IsEdit(c) == c.op \in ListChanges
EditsDone == {c \in calls : IsEdit(c) /\ c.st = "done"}
Edited == {c.row.id : c \in {d \in EditsDone : d.op # "add"}}
Written == {c.row : c \in {d \in EditsDone : d.op # "delete"}}

Calm ==
    /\ \A c \in calls : IsEdit(c) => c.mine
    /\ \A c, d \in calls : d.op \in {"load", "detect"} => ~IsEdit(c)
    /\ \A c \in calls : c.op = "load" /\ c.mine /\ c.st = "done" => c.rows = stored
    /\ \A c, d \in calls :
         c # d /\ IsEdit(c) /\ IsEdit(d) /\ c.op # "add" /\ d.op # "add" => c.row.id # d.row.id
    /\ \A c \in calls : c.op = "save" => shown = <<c.row>>

Follows ==
    /\ Distinct(shown)
    /\ \A r : r \in stored <=> (r \in ToSet(shown) /\ r.id \notin Edited) \/ r \in Written
    /\ \A c \in EditsDone : c.op = "add" => c.row.id \notin NumbersOf(ToSet(shown))
    /\ \A c, d \in EditsDone : c.op = "add" /\ d.op = "add" /\ c.row.id = d.row.id => c = d
    /\ \A c \in calls : IsEdit(c) /\ c.op # "add" => c.row.id \in NumbersOf(ToSet(shown))

(* The list is on the screen, or the page keeps it; no load of it is out;    *)
(* and what is saved has been answered.                                      *)
Here == (list \in PageLists \/ open) /\ ~Crashed
NoLoad == \A c \in calls : ~(c.op = "load" /\ c.mine)
NoSave == \A c \in calls : c.op = "save" => c.st = "done"

Keeps == ~disturbed => Calm /\ (Here /\ NoLoad /\ NoSave => Follows)

(* Nothing is claimed of a list that is disturbed. *)
LEMMA DisturbedKeeps ==
    ASSUME disturbed' = TRUE
    PROVE  Keeps'
  BY DEF Keeps

(* The list is loaded with no edit out. *)
LEMMA LoadKeepsRows ==
    ASSUME ListTypes, Keeps, NEW others \in SUBSET calls, SendAmong(others, Loads(Tag(others))),
           UNCHANGED <<stored, shown>>
    PROVE  Keeps'
<1>1. PICK new \in SUBSET CallSet :
        /\ calls' = others \cup new
        /\ \A c \in new : /\ c.op \in {"load", "detect"} /\ c.mine /\ c.st = "sent"
        /\ \E c \in new : c.op = "load"
        /\ ~disturbed' =>
             \/ \A d \in others : ~d.mine /\ d.op \notin ListChanges
             \/ ~disturbed /\ \A d \in others : d.op \notin ListChanges
  BY LoadSends
<1>2. ~NoLoad'
  BY <1>1 DEF NoLoad
<1>3. ASSUME ~disturbed'
      PROVE  Calm'
  <2>1. \A d \in calls' : d.op \notin ListChanges
    BY <1>1, <1>3 DEF ListChanges
  <2>2. ASSUME NEW c \in calls', c.op = "load", c.mine, c.st = "done"
        PROVE  c.rows = stored'
    <3>1. c \in others /\ ~disturbed
      BY <1>1, <1>3, <2>2
    <3> QED
      BY <2>2, <3>1 DEF Keeps, Calm
  <2>3. \A d \in calls' : ~IsEdit(d) /\ d.op # "save"
    BY <2>1 DEF IsEdit, ListChanges
  <2> QED
    BY <2>2, <2>3 DEF Calm, IsEdit
<1> QED
  BY <1>2, <1>3 DEF Keeps

(* An edit is asked for, or a run.                                           *)
LEMMA AskKeeps ==
    ASSUME ListTypes, Keeps, NEW op \in {"add", "delete", "toggle", "run"}, NEW row \in AnyRow, SendCall(op, row),
           \/ op = "add" /\ row.id = 0
           \/ row.id # 0 /\ row.id \in NumbersOf(ToSet(shown)),
           UNCHANGED <<list, open, detected, stored, shown>>
    PROVE  Keeps'
<1>1. PICK x \in CallSet : /\ calls' = calls \cup {x}
                           /\ x.op = op /\ x.row = row /\ x.mine /\ x.st = "sent"
                           /\ disturbed' = (disturbed \/ \E d \in calls : Clash(x, d))
  BY AskSends
<1>2. SUFFICES ASSUME ~disturbed'
               PROVE  Calm' /\ (Here' /\ NoLoad' /\ NoSave' => Follows')
  BY DEF Keeps
<1>3. ~disturbed /\ \A d \in calls : ~Clash(x, d)
  BY <1>1, <1>2
<1>4. Calm /\ (Here /\ NoLoad /\ NoSave => Follows)
  BY <1>3 DEF Keeps
<1>5. \A d \in calls : /\ IsEdit(x) => d.op \notin {"load", "detect"}
                       /\ IsEdit(x) /\ IsEdit(d) /\ op # "add" => x.row.id # d.row.id
  <2>1. op # "add" => x.row.id # 0
    BY <1>1
  <2> QED
    BY <1>1, <1>3, <2>1 DEF Clash, IsEdit
<1>6. x.op \notin {"load", "detect", "save"}
  BY <1>1
<1>7. Calm'
  <2>1. \A c \in calls' : c \in calls \/ c = x
    BY <1>1
  <2>2. \A c \in calls' : IsEdit(c) => c.mine
    BY <1>1, <1>4, <2>1 DEF Calm
  <2>3. \A c, d \in calls' : d.op \in {"load", "detect"} => ~IsEdit(c)
    BY <1>4, <1>5, <1>6, <2>1 DEF Calm
  <2>4. \A c \in calls' : c.op = "load" /\ c.mine /\ c.st = "done" => c.rows = stored'
    BY <1>4, <1>6, <2>1 DEF Calm
  <2>5. \A c, d \in calls' :
          c # d /\ IsEdit(c) /\ IsEdit(d) /\ c.op # "add" /\ d.op # "add" => c.row.id # d.row.id
    BY <1>1, <1>4, <1>5, <2>1 DEF Calm
  <2>6. \A c \in calls' : c.op = "save" => shown' = <<c.row>>
    BY <1>4, <1>6, <2>1 DEF Calm
  <2> QED
    BY <2>2, <2>3, <2>4, <2>5, <2>6 DEF Calm, IsEdit
<1>8. ASSUME Here', NoLoad', NoSave'
      PROVE  Follows'
  <2>1. Here /\ NoLoad /\ NoSave
    BY <1>1, <1>8 DEF Here, NoLoad, NoSave, Crashed
  <2>2. Follows
    BY <1>4, <2>1
  <2>3. EditsDone' = EditsDone
    BY <1>1 DEF EditsDone, IsEdit
  <2>4. Edited' = Edited /\ Written' = Written
    BY <2>3 DEF Edited, Written
  <2>5. \A c \in calls' : IsEdit(c) /\ c.op # "add" => c.row.id \in NumbersOf(ToSet(shown))
    BY <1>1, <2>2 DEF Follows, IsEdit
  <2> QED
    BY <2>2, <2>3, <2>4, <2>5 DEF Follows, IsEdit, NumbersOf
<1> QED
  BY <1>7, <1>8

(* The form of branding is saved when nothing else is out.                   *)
LEMMA SaveKeeps ==
    ASSUME ListTypes, ListBasics, NEW r, HandleSaveBranding(r)
    PROVE  Keeps'
<1> DEFINE x == Call(Tag(calls), "save", r)
<1>1. /\ OnScreen(r) /\ calls' = calls \cup {x} /\ disturbed' = (calls # {}) /\ UNCHANGED <<shown, stored>>
      /\ list = "branding"
  BY DEF HandleSaveBranding, Acts, serverVars
<1>2. x.op = "save" /\ x.mine /\ x.st = "sent" /\ x.row = r
  BY DEF Call
<1> HIDE DEF x
<1>3. shown = <<r>>
  <2>1. r \in ToSet(shown) /\ Len(shown) <= 1 /\ shown \in Seq(ListRow)
    BY <1>1 DEF OnScreen, ListBasics, BrandingIsOne, ListTypes, ScreenTypes
  <2>2. PICK i \in 1 .. Len(shown) : shown[i] = r
    BY <2>1, RowsOfSeq
  <2>3. Len(shown) \in Nat
    BY <2>1, RowsOfSeq
  <2>4. Len(shown) = 1 /\ i = 1
    <3>1. \A n \in Nat : \A j \in 1 .. n : n <= 1 => n = 1 /\ j = 1
      OBVIOUS
    <3>2. i \in 1 .. Len(shown) /\ Len(shown) <= 1
      BY <2>1, <2>2
    <3> QED
      BY <2>3, <3>1, <3>2, Zenon
  <2> QED
    BY <2>1, <2>2, <2>4
<1>4. SUFFICES ASSUME ~disturbed'
               PROVE  Calm' /\ ~NoSave'
  BY DEF Keeps
<1>5. calls' = {x}
  BY <1>1, <1>4
<1> QED
  BY <1>1, <1>2, <1>3, <1>5 DEF Calm, NoSave, IsEdit

(* The steps of the user and the timers keep the screen with the server. *)
LEMMA UserKeeps ==
    ASSUME ListTypes, ListBasics, Keeps, ListUser \/ TimerFires
    PROVE  Keeps'
<1> USE DEF Acts, serverVars
<1>0. calls \in SUBSET calls
  OBVIOUS
<1>1. ASSUME UNCHANGED <<list, shown, calls, disturbed, stored>>, Here' => Here
      PROVE  Keeps'
  BY <1>1 DEF Keeps, Calm, Follows, NoLoad, NoSave, EditsDone, Edited, Written, IsEdit, Distinct
<1>2. ASSUME OpenTab
      PROVE  Keeps'
  <2>1. CASE list \in TabLists
    BY <1>0, <1>2, <2>1, LoadKeepsRows DEF OpenTab, SendLoad
  <2>2. CASE list \notin TabLists
    <3>1. UNCHANGED <<list, shown, calls, disturbed, stored, detected>> /\ list # "off" /\ ~Crashed /\ ~open
      BY <1>2, <2>2 DEF OpenTab, netVars
    <3>2. list \in PageLists
      BY <2>2, <3>1 DEF ListBasics, OpsOfLists
    <3> QED
      BY <1>1, <3>1, <3>2 DEF Here
  <2> QED
    BY <2>1, <2>2
<1>3. ASSUME LeaveTab
      PROVE  Keeps'
  <2>1. CASE list \in TabLists
    BY <1>3, <2>1, DisturbedKeeps DEF LeaveTab
  <2>2. CASE list \notin TabLists
    BY <1>1, <1>3, <2>2 DEF LeaveTab, Here
  <2> QED
    BY <2>1, <2>2
<1>4. ASSUME RefreshList
      PROVE  Keeps'
  BY <1>0, <1>4, LoadKeepsRows DEF RefreshList, SendLoad
<1>5. ASSUME NEW op, NEW row, Asked(op, row), UNCHANGED tabVars
      PROVE  Keeps'
  <2>1. /\ op \in {"add", "delete", "toggle", "run"} /\ row \in AnyRow /\ SendCall(op, row)
        /\ (op = "add" /\ row.id = 0) \/ (row.id # 0 /\ row.id \in NumbersOf(ToSet(shown)))
        /\ UNCHANGED <<list, open, detected, shown, stored>>
    BY <1>5 DEF Asked, tabVars
  <2> QED
    BY <2>1, AskKeeps
<1>6. ASSUME NEW r, HandleRunSub(r)
      PROVE  Keeps'
  <2>1. /\ OnScreen(r) /\ SendCall("run", r) /\ UNCHANGED <<list, open, detected, shown, stored>>
    BY <1>6 DEF HandleRunSub
  <2>2. r \in AnyRow /\ r.id # 0 /\ r.id \in NumbersOf(ToSet(shown))
    BY <2>1, OnScreenOK
  <2> QED
    BY <2>1, <2>2, AskKeeps
<1>7. ASSUME NEW r, EditBranding(r)
      PROVE  Keeps'
  BY <1>7, DisturbedKeeps DEF EditBranding
<1>8. ASSUME TimerFires
      PROVE  Keeps'
  BY <1>0, <1>8, LoadKeepsRows DEF TimerFires, SendLoad
<1> QED
  BY <1>2, <1>3, <1>4, <1>5, <1>6, <1>7, <1>8, SaveKeeps, UserAsks, Zenon

(* A request is answered with no edit done: it fails, or it was none.        *)
LEMMA QuietKeeps ==
    ASSUME Keeps, NEW c \in calls, c.st = "sent", NEW d, Answered(c, d),
           d.op = c.op, d.row = c.row, d.mine = c.mine,
           d.st = "failed" \/ (d.st = "done" /\ ~IsEdit(c)),
           c.op = "load" /\ d.st = "done" => d.rows = stored,
           UNCHANGED <<list, open, detected, shown, stored, disturbed>>
    PROVE  Keeps'
<1>1. SUFFICES ASSUME ~disturbed, Calm
               PROVE  Calm' /\ (Here' /\ NoLoad' /\ NoSave' => Here /\ NoLoad /\ NoSave)
                      /\ (Follows => Follows')
  BY DEF Keeps
<1>2. \A e \in calls' : e = d \/ (e \in calls /\ e # c)
  BY DEF Answered
<1>3. /\ \A e \in calls : e = c \/ e \in calls'
      /\ d \in calls'
  BY DEF Answered
<1>4. Calm'
  <2>1. \A e \in calls' : IsEdit(e) => e.mine
    BY <1>1, <1>2 DEF Calm, IsEdit
  <2>2. \A e, f \in calls' : f.op \in {"load", "detect"} => ~IsEdit(e)
    BY <1>1, <1>2 DEF Calm, IsEdit
  <2>3. \A e \in calls' : e.op = "load" /\ e.mine /\ e.st = "done" => e.rows = stored
    BY <1>1, <1>2 DEF Calm
  <2>4. \A e, f \in calls' :
          e # f /\ IsEdit(e) /\ IsEdit(f) /\ e.op # "add" /\ f.op # "add" => e.row.id # f.row.id
    BY <1>1, <1>2 DEF Calm, IsEdit
  <2>5. \A e \in calls' : e.op = "save" => shown = <<e.row>>
    BY <1>1, <1>2 DEF Calm
  <2> QED
    BY <2>1, <2>2, <2>3, <2>4, <2>5 DEF Calm, IsEdit
<1>5. ASSUME Here', NoLoad', NoSave'
      PROVE  Here /\ NoLoad /\ NoSave
  <2>1. Here
    BY <1>5 DEF Here, Crashed
  <2>2. NoLoad
    BY <1>3, <1>5 DEF NoLoad
  <2>3. c.op # "save"
    BY <1>3, <1>5 DEF NoSave, IsEdit, ListChanges
  <2>4. NoSave
    BY <1>3, <1>5, <2>3 DEF NoSave
  <2> QED
    BY <2>1, <2>2, <2>4
<1>6. ASSUME Follows
      PROVE  Follows'
  <2>1. EditsDone' = EditsDone
    BY <1>2, <1>3 DEF EditsDone, IsEdit
  <2>2. Edited' = Edited /\ Written' = Written
    BY <2>1 DEF Edited, Written
  <2>3. \A e \in calls' : IsEdit(e) /\ e.op # "add" => e.row.id \in NumbersOf(ToSet(shown))
    BY <1>2, <1>6 DEF Follows, IsEdit
  <2> QED
    BY <1>6, <2>1, <2>2, <2>3 DEF Follows, IsEdit, NumbersOf
<1> QED
  BY <1>4, <1>5, <1>6

(* A row is added.                                                           *)
LEMMA AddKeeps ==
    ASSUME ListTypes, Keeps, NEW c \in calls, c.st = "sent", c.op = "add", NEW d, Answered(c, d),
           d.op = "add", d.mine = c.mine, d.st = "done",
           d.row.id = last + 1, stored' = stored \cup {d.row},
           UNCHANGED <<list, open, detected, shown, disturbed>>
    PROVE  Keeps'
<1>1. SUFFICES ASSUME ~disturbed, Calm
               PROVE  Calm' /\ (Here' /\ NoLoad' /\ NoSave' => Here /\ NoLoad /\ NoSave)
                      /\ (Follows => Follows')
  BY DEF Keeps
<1>2. \A e \in calls' : e = d \/ (e \in calls /\ e # c)
  BY DEF Answered
<1>3. d \in calls' /\ \A e \in calls : e = c \/ e \in calls'
  BY DEF Answered
<1>4. IsEdit(c) /\ IsEdit(d)
  BY DEF IsEdit, ListChanges
<1>5. \A e \in calls' : e.op \notin {"load", "detect"}
  BY <1>1, <1>2, <1>4 DEF Calm
<1>6. Calm'
  <2>1. \A e \in calls' : IsEdit(e) => e.mine
    BY <1>1, <1>2, <1>4 DEF Calm
  <2>2. \A e, f \in calls' :
          e # f /\ IsEdit(e) /\ IsEdit(f) /\ e.op # "add" /\ f.op # "add" => e.row.id # f.row.id
    BY <1>1, <1>2 DEF Calm
  <2>3. \A e \in calls' : e.op = "save" => shown = <<e.row>>
    BY <1>1, <1>2 DEF Calm
  <2> QED
    BY <1>5, <2>1, <2>2, <2>3 DEF Calm, IsEdit
<1>7. Here' /\ NoLoad' /\ NoSave' => Here /\ NoLoad /\ NoSave
  BY <1>3 DEF Here, Crashed, NoLoad, NoSave
<1>8. ASSUME Follows
      PROVE  Follows'
  <2>1. EditsDone' = EditsDone \cup {d}
    BY <1>2, <1>3, <1>4 DEF EditsDone, IsEdit
  <2>2. Edited' = Edited
    BY <2>1 DEF Edited
  <2>3. Written' = Written \cup {d.row}
    BY <2>1 DEF Written
  <2>4. d.row.id \notin NumbersOf(ToSet(shown)) /\ \A e \in EditsDone : e.row.id # d.row.id
    BY NextNumber DEF EditsDone
  <2>5. d.row.id \notin Edited
    BY <2>4 DEF Edited
  <2>6. \A r : r \in stored' <=> (r \in ToSet(shown) /\ r.id \notin Edited') \/ r \in Written'
    BY <1>8, <2>2, <2>3 DEF Follows
  <2>7. \A e \in EditsDone' : e.op = "add" => e.row.id \notin NumbersOf(ToSet(shown))
    BY <1>8, <2>1, <2>4 DEF Follows
  <2>8. \A e, f \in EditsDone' : e.op = "add" /\ f.op = "add" /\ e.row.id = f.row.id => e = f
    BY <1>8, <2>1, <2>4 DEF Follows
  <2>9. \A e \in calls' : IsEdit(e) /\ e.op # "add" => e.row.id \in NumbersOf(ToSet(shown))
    BY <1>2, <1>8 DEF Follows
  <2> QED
    BY <1>8, <2>6, <2>7, <2>8, <2>9 DEF Follows, IsEdit, NumbersOf
<1> QED
  BY <1>6, <1>7, <1>8

(* A row is written or deleted: of this row no other edit is out.            *)
LEMMA PutKeeps ==
    ASSUME ListTypes, ListBasics, Keeps, NEW c \in calls, c.st = "sent", c.op \in {"toggle", "save", "delete"},
           NEW d, Answered(c, d), d.op = c.op, d.row = c.row, d.mine = c.mine, d.st = "done",
           stored' = IF c.op = "delete" THEN RowsWithout(c.row.id) ELSE RowsWithout(c.row.id) \cup {c.row},
           c.op # "delete" => c.row.id \in NumbersOf(stored),
           UNCHANGED <<list, open, detected, shown, disturbed>>
    PROVE  Keeps'
<1>1. SUFFICES ASSUME ~disturbed, Calm
               PROVE  Calm' /\ (Here' /\ NoLoad' /\ NoSave' => Follows')
  BY DEF Keeps
<1>2. \A e \in calls' : e = d \/ (e \in calls /\ e # c)
  BY DEF Answered
<1>3. d \in calls' /\ \A e \in calls : e = c \/ e \in calls'
  BY DEF Answered
<1>4. IsEdit(c) /\ IsEdit(d) /\ c.op # "add" /\ d.op # "add"
  BY DEF IsEdit, ListChanges
<1>5. \A e \in calls' : e.op \notin {"load", "detect"}
  BY <1>1, <1>2, <1>4 DEF Calm
<1>6. \A e \in calls : e # c /\ IsEdit(e) /\ e.op # "add" => e.row.id # c.row.id
  BY <1>1, <1>4 DEF Calm
<1>7. Calm'
  <2>1. \A e \in calls' : IsEdit(e) => e.mine
    BY <1>1, <1>2, <1>4 DEF Calm
  <2>2. \A e, f \in calls' :
          e # f /\ IsEdit(e) /\ IsEdit(f) /\ e.op # "add" /\ f.op # "add" => e.row.id # f.row.id
    BY <1>1, <1>2, <1>6 DEF Calm
  <2>3. \A e \in calls' : e.op = "save" => shown = <<e.row>>
    BY <1>1, <1>2 DEF Calm
  <2> QED
    BY <1>5, <2>1, <2>2, <2>3 DEF Calm, IsEdit
<1>8. /\ EditsDone' = EditsDone \cup {d}
      /\ \A i : i \in Edited' <=> i \in Edited \/ i = c.row.id
      /\ \A r : r \in Written' <=> r \in Written \/ (c.op # "delete" /\ r = c.row)
  <2>1. EditsDone' = EditsDone \cup {d}
    BY <1>2, <1>3, <1>4 DEF EditsDone, IsEdit
  <2> QED
    BY <1>4, <2>1 DEF Edited, Written
<1>9. CASE c.op # "save"
  <2>1. SUFFICES ASSUME Here', NoLoad', NoSave'
                 PROVE  Follows'
    BY <1>7
  <2>2. Here /\ NoLoad /\ NoSave
    BY <1>3, <1>9, <2>1 DEF Here, Crashed, NoLoad, NoSave
  <2>3. Follows
    BY <1>1, <2>2 DEF Keeps
  <2>4. c.row.id \in NumbersOf(ToSet(shown)) /\ \A r \in Written : r.id # c.row.id
    <3>1. c.row.id \in NumbersOf(ToSet(shown))
      BY <1>4, <2>3 DEF Follows
    <3>2. \A e \in EditsDone : e.row.id # c.row.id
      BY <1>6, <2>3, <3>1 DEF Follows, EditsDone
    <3> QED
      BY <3>1, <3>2 DEF Written
  <2>5. \A r : r \in stored' <=> (r \in ToSet(shown) /\ r.id \notin Edited') \/ r \in Written'
    <3>1. \A r : r \in stored' <=> (r \in stored /\ r.id # c.row.id) \/ (c.op # "delete" /\ r = c.row)
      BY DEF RowsWithout
    <3>2. \A r : r \in stored <=> (r \in ToSet(shown) /\ r.id \notin Edited) \/ r \in Written
      BY <2>3 DEF Follows
    <3> QED
      BY <1>8, <2>4, <3>1, <3>2
  <2>6. \A e \in EditsDone' : e.op = "add" => e.row.id \notin NumbersOf(ToSet(shown))
    BY <1>4, <1>8, <2>3 DEF Follows
  <2>7. \A e, f \in EditsDone' : e.op = "add" /\ f.op = "add" /\ e.row.id = f.row.id => e = f
    BY <1>4, <1>8, <2>3 DEF Follows
  <2>8. \A e \in calls' : IsEdit(e) /\ e.op # "add" => e.row.id \in NumbersOf(ToSet(shown))
    BY <1>2, <2>3, <2>4 DEF Follows
  <2> QED
    BY <2>3, <2>5, <2>6, <2>7, <2>8 DEF Follows, IsEdit, NumbersOf
<1>10. CASE c.op = "save"
  <2>1. list = "branding" /\ OneRow(stored)
    BY <1>10 DEF ListBasics, OpsOfLists, BrandingIsOne
  <2>2. shown = <<c.row>>
    BY <1>1, <1>10 DEF Calm
  <2>3. \A e \in calls' : e = d
    <3>1. SUFFICES ASSUME NEW e \in calls, e # c
                   PROVE  FALSE
      BY <1>2
    <3>2. e.op = "save" /\ e \in calls
      BY <1>1, <1>4, <2>1 DEF ListBasics, OpsOfLists, Calm
    <3>3. shown = <<e.row>> /\ e.row.id # c.row.id
      BY <1>1, <1>6, <3>1, <3>2 DEF Calm, IsEdit, ListChanges
    <3> QED
      BY <2>2, <3>3
  <2>4. stored' = {c.row}
    BY <1>10, <2>1, UniqueWith DEF ListBasics
  <2>5. ToSet(shown) = {c.row} /\ Distinct(shown)
    BY <2>2 DEF ToSet, Distinct
  <2>6. EditsDone' = {d}
    BY <1>3, <1>4, <2>3 DEF EditsDone, IsEdit
  <2>7. (\A i : i \in Edited' <=> i = c.row.id) /\ (\A r : r \in Written' <=> r = c.row)
    BY <1>10, <2>6 DEF Edited, Written
  <2>8. \A r : r \in stored' <=> (r \in ToSet(shown) /\ r.id \notin Edited') \/ r \in Written'
    BY <2>4, <2>5, <2>7
  <2>9. \A e \in calls' : IsEdit(e) /\ e.op # "add" => e.row.id \in NumbersOf(ToSet(shown))
    BY <2>3, <2>5 DEF NumbersOf
  <2> QED
    BY <1>4, <1>7, <2>5, <2>6, <2>8, <2>9 DEF Follows, IsEdit, NumbersOf
<1> QED
  BY <1>9, <1>10

(* The steps of the server, and what fails, keep the screen with the server. *)
LEMMA ServerKeeps ==
    ASSUME ListTypes, ListBasics, Keeps, ServeCall \/ RunEnds \/ RefuseCall \/ LoseCall \/ ChangeElsewhere
    PROVE  Keeps'
<1>1. ASSUME ServeCall
      PROVE  Keeps'
  <2>1. PICK c \in calls :
          /\ c.st = "sent"
          /\ ServeLoad(c) \/ ServeDetect(c) \/ ServeAdd(c) \/ ServePut(c) \/ ServeDelete(c) \/ ServeRun(c)
          /\ UNCHANGED <<list, tabVars, disturbed, done, mishaps>>
    BY <1>1, Zenon DEF ServeCall
  <2>2. UNCHANGED <<list, open, detected, shown, disturbed>>
    BY <2>1 DEF tabVars
  <2>3. PICK d \in CallSet :
             /\ Answered(c, d) /\ d.op = c.op /\ d.mine = c.mine
             /\ d.st \in {"done", "failed"} /\ (d.st = "failed" => stored' = stored)
             /\ c.op # "detect" => d.seen = c.seen
             /\ ~(c.op = "add" /\ d.st = "done") => d.row = c.row
             /\ \/ c.op = "load" /\ d.rows = stored /\ d.st = "done"
                \/ c.op = "detect" /\ d.st = "done"
                   /\ d.seen = [isNull |-> queried \ KeysOf(stored) = {}, ips |-> queried \ KeysOf(stored)]
                \/ c.op = "run" /\ d.st = "done"
                \/ c.op = "add" /\ (d.st = "done" => d.row.id = last + 1 /\ stored' = stored \cup {d.row})
                \/ c.op \in {"toggle", "save"}
                   /\ (d.st = "done" => /\ c.row.id \in NumbersOf(stored)
                                        /\ stored' = RowsWithout(c.row.id) \cup {c.row})
                \/ c.op = "delete" /\ d.st = "done" /\ stored' = RowsWithout(c.row.id)
             /\ c.op \in {"load", "detect", "run"} => stored' = stored
             /\ c.op # "run" => runs' = runs
    BY <2>1, ServedCall
  <2>4. CASE d.st = "failed" \/ ~IsEdit(c)
    <3>1. stored' = stored /\ d.row = c.row /\ (c.op = "load" /\ d.st = "done" => d.rows = stored)
      BY <2>3, <2>4 DEF IsEdit, ListChanges
    <3> QED
      BY <2>1, <2>2, <2>3, <2>4, <3>1, QuietKeeps
  <2>5. CASE d.st = "done" /\ c.op = "add"
    BY <2>1, <2>2, <2>3, <2>5, AddKeeps
  <2>6. CASE d.st = "done" /\ c.op \in {"toggle", "save", "delete"}
    <3>1. /\ stored' = IF c.op = "delete" THEN RowsWithout(c.row.id) ELSE RowsWithout(c.row.id) \cup {c.row}
          /\ c.op # "delete" => c.row.id \in NumbersOf(stored)
          /\ d.row = c.row
      BY <2>3, <2>6
    <3> QED
      BY <2>1, <2>2, <2>3, <2>6, <3>1, PutKeeps
  <2> QED
    BY <2>3, <2>4, <2>5, <2>6 DEF IsEdit, ListChanges
<1>2. ASSUME RefuseCall
      PROVE  Keeps'
  <2>1. PICK c \in calls : c.st = "sent" /\ Answered(c, [c EXCEPT !.st = "failed"])
    BY <1>2, Zenon DEF RefuseCall
  <2>2. UNCHANGED <<list, open, detected, shown, stored, disturbed>>
    BY <1>2 DEF RefuseCall, Mishap, tabVars, serverVars
  <2>3. PICK d : /\ d = [c EXCEPT !.st = "failed"] /\ d.op = c.op /\ d.mine = c.mine /\ d.row = c.row
                 /\ d.st = "failed"
    BY StTyped DEF ListTypes, NetTypes
  <2> QED
    BY <2>1, <2>2, <2>3, QuietKeeps
<1> QED
  BY <1>1, <1>2, DisturbedKeeps DEF RunEnds, LoseCall, ChangeElsewhere

(* What is calm stays calm with one request less. *)
LEMMA CalmWithout ==
    ASSUME Calm, NEW c \in calls, calls' = calls \ {c}, stored' = stored,
           shown' = shown \/ \A e \in calls' : e.op # "save"
    PROVE  Calm'
  BY DEF Calm, IsEdit

(* A request is dropped that was no load, and no edit that is done.          *)
LEMMA DropKeeps ==
    ASSUME Keeps, NEW c \in calls, calls' = calls \ {c}, UNCHANGED <<shown, stored>>,
           ~disturbed' => ~disturbed,
           \/ disturbed'
           \/ ~(c.op = "load" /\ c.mine) /\ c.op # "save" /\ c \notin EditsDone,
           Here' => Here
    PROVE  Keeps'
<1>1. SUFFICES ASSUME ~disturbed, Calm, ~(c.op = "load" /\ c.mine), c.op # "save", c \notin EditsDone
               PROVE  Calm' /\ (Here' /\ NoLoad' /\ NoSave' => Here /\ NoLoad /\ NoSave)
                      /\ (Follows => Follows')
  BY DEF Keeps
<1>2. Calm'
  BY <1>1, CalmWithout
<1>3. Here' /\ NoLoad' /\ NoSave' => Here /\ NoLoad /\ NoSave
  BY <1>1 DEF NoLoad, NoSave
<1>4. ASSUME Follows
      PROVE  Follows'
  <2>1. EditsDone' = EditsDone
    BY <1>1 DEF EditsDone, IsEdit
  <2>2. Edited' = Edited /\ Written' = Written
    BY <2>1 DEF Edited, Written
  <2>3. \A e \in calls' : IsEdit(e) /\ e.op # "add" => e.row.id \in NumbersOf(ToSet(shown))
    BY <1>4 DEF Follows
  <2> QED
    BY <1>4, <2>1, <2>2, <2>3 DEF Follows, IsEdit, NumbersOf
<1> QED
  BY <1>2, <1>3, <1>4

(* The list arrives: the rows of the server, as no edit is out.              *)
LEMMA ListArrivesKeeps ==
    ASSUME ListTypes, ListBasics, Keeps, NEW c \in calls, ListArrives(c)
    PROVE  Keeps'
<1>1. /\ c.op = "load" /\ c.mine /\ c.st = "done" /\ calls' = calls \ {c}
      /\ UNCHANGED <<disturbed, stored>>
  BY DEF ListArrives, Heard, Drop, serverVars
<1>2. PICK s \in SetToSeqs(c.rows) : shown' = s
  BY Zenon DEF ListArrives
<1>3. SUFFICES ASSUME ~disturbed, Calm
               PROVE  Calm' /\ Follows'
  BY <1>1 DEF Keeps
<1>4. c.rows = stored /\ \A e \in calls : ~IsEdit(e) /\ e.op # "save"
  BY <1>1, <1>3 DEF Calm, IsEdit, ListChanges
<1>5. shown' \in Seq(ListRow) /\ ToSet(shown') = stored /\ Distinct(shown')
  <2>1. c.rows \in SUBSET ListRow /\ IsFiniteSet(c.rows) /\ Unique(c.rows)
    BY <1>4 DEF ListTypes, NetTypes, Given, ListBasics
  <2> QED
    BY <1>2, <1>4, <2>1, OrderedRows
<1>6. Calm'
  BY <1>1, <1>3, <1>4, CalmWithout
<1>7. EditsDone' = {} /\ \A e \in calls' : ~IsEdit(e)
  BY <1>1, <1>4 DEF EditsDone, IsEdit
<1>8. Edited' = {} /\ Written' = {}
  BY <1>7 DEF Edited, Written
<1>9. \A r : r \in stored' <=> (r \in ToSet(shown') /\ r.id \notin Edited') \/ r \in Written'
  BY <1>1, <1>5, <1>8
<1> QED
  BY <1>5, <1>6, <1>7, <1>9 DEF Follows, IsEdit

(* An edit that is done is heard of: before and after.                       *)
LEMMA EditHeard ==
    ASSUME Keeps, NEW c \in calls, c.st = "done", IsEdit(c), calls' = calls \ {c},
           ~disturbed, Here', ~Crashed, UNCHANGED <<list, open>>, NoLoad', NoSave'
    PROVE  /\ Calm /\ Follows /\ EditsDone' = EditsDone \ {c} /\ c \in EditsDone
           /\ \A e \in calls : e # c /\ IsEdit(e) /\ e.op # "add" /\ c.op # "add" => e.row.id # c.row.id
<1>1. Calm
  BY DEF Keeps
<1>2. Here
  BY DEF Here
<1>3. NoLoad
  BY DEF NoLoad, IsEdit, ListChanges
<1>4. NoSave
  BY DEF NoSave
<1>5. EditsDone' = EditsDone \ {c} /\ c \in EditsDone
  BY DEF EditsDone, IsEdit
<1> QED
  BY <1>1, <1>2, <1>3, <1>4, <1>5 DEF Keeps, Calm

(* A row that was added arrives. *)
LEMMA AddArrivesKeeps ==
    ASSUME ListTypes, ListBasics, Keeps, NEW c \in calls, AddArrives(c)
    PROVE  Keeps'
<1>1. /\ c.op = "add" /\ c.st = "done" /\ ~Crashed /\ calls' = calls \ {c} /\ IsEdit(c)
      /\ UNCHANGED <<list, open, disturbed, stored>> /\ shown' = Patched(c)
  BY DEF AddArrives, Heard, Drop, serverVars, IsEdit, ListChanges
<1>2. SUFFICES ASSUME ~disturbed
               PROVE  Calm' /\ (Here' /\ NoLoad' /\ NoSave' => Follows')
  BY <1>1 DEF Keeps
<1>3. Calm'
  <2>1. list # "branding"
    BY <1>1 DEF ListBasics, OpsOfLists
  <2>2. \A e \in calls : e.op # "save"
    BY <2>1 DEF ListBasics, OpsOfLists
  <2> QED
    BY <1>1, <1>2, <2>2, CalmWithout DEF Keeps
<1>4. ASSUME Here', NoLoad', NoSave'
      PROVE  Follows'
  <2>1. Follows /\ EditsDone' = EditsDone \ {c} /\ c \in EditsDone
    BY <1>1, <1>2, <1>4, EditHeard
  <2>2. c.row.id \notin NumbersOf(ToSet(shown))
    BY <1>1, <2>1 DEF Follows
  <2>3. ToSet(shown') = ToSet(shown) \cup {c.row} /\ Distinct(shown')
    <3>1. shown \in Seq(ListRow) /\ c.row \in ListRow
      BY <1>1, RealRow DEF ListTypes, ScreenTypes
    <3> QED
      BY <1>1, <2>1, <2>2, <3>1, AppendRow, PrependRow DEF Patched, Follows
  <2>4. Edited' = Edited
    BY <1>1, <2>1 DEF Edited
  <2>5. \A r : r \in Written <=> r \in Written' \/ r = c.row
    BY <1>1, <2>1 DEF Written
  <2>6. c.row.id \notin Edited
    BY <2>1, <2>2 DEF Follows, Edited, EditsDone
  <2>7. \A r : r \in stored' <=> (r \in ToSet(shown') /\ r.id \notin Edited') \/ r \in Written'
    BY <1>1, <2>1, <2>3, <2>4, <2>5, <2>6 DEF Follows
  <2>8. \A i : i \in NumbersOf(ToSet(shown')) <=> i \in NumbersOf(ToSet(shown)) \/ i = c.row.id
    BY <2>3 DEF NumbersOf
  <2>9. \A e \in EditsDone' : e.op = "add" => e.row.id \notin NumbersOf(ToSet(shown'))
    BY <1>1, <2>1, <2>8 DEF Follows
  <2>10. \A e, f \in EditsDone' : e.op = "add" /\ f.op = "add" /\ e.row.id = f.row.id => e = f
    BY <2>1 DEF Follows
  <2>11. \A e \in calls' : IsEdit(e) /\ e.op # "add" => e.row.id \in NumbersOf(ToSet(shown'))
    BY <1>1, <2>1, <2>8 DEF Follows
  <2> QED
    BY <2>3, <2>7, <2>9, <2>10, <2>11 DEF Follows, IsEdit, NumbersOf
<1> QED
  BY <1>3, <1>4

(* A row that was deleted leaves.                                            *)
LEMMA DeleteArrivesKeeps ==
    ASSUME ListTypes, ListBasics, Keeps, NEW c \in calls, DeleteArrives(c)
    PROVE  Keeps'
<1>1. /\ c.op = "delete" /\ c.st = "done" /\ ~Crashed /\ calls' = calls \ {c} /\ IsEdit(c)
      /\ UNCHANGED <<list, open, disturbed, stored>> /\ shown' = Without(shown, c.row.id)
  BY DEF DeleteArrives, Heard, Drop, serverVars, IsEdit, ListChanges
<1>2. SUFFICES ASSUME ~disturbed
               PROVE  Calm' /\ (Here' /\ NoLoad' /\ NoSave' => Follows')
  BY <1>1 DEF Keeps
<1>3. Calm'
  <2>1. list # "branding"
    BY <1>1 DEF ListBasics, OpsOfLists
  <2>2. \A e \in calls : e.op # "save"
    BY <2>1 DEF ListBasics, OpsOfLists
  <2> QED
    BY <1>1, <1>2, <2>2, CalmWithout DEF Keeps
<1>4. ASSUME Here', NoLoad', NoSave'
      PROVE  Follows'
  <2>1. /\ Follows /\ EditsDone' = EditsDone \ {c} /\ c \in EditsDone
        /\ \A e \in calls : e # c /\ IsEdit(e) /\ e.op # "add" => e.row.id # c.row.id
    BY <1>1, <1>2, <1>4, EditHeard
  <2>2. (\A r : r \in ToSet(shown') <=> r \in ToSet(shown) /\ r.id # c.row.id) /\ Distinct(shown')
    <3>1. shown \in Seq(ListRow)
      BY DEF ListTypes, ScreenTypes
    <3>2. ToSet(Without(shown, c.row.id)) = {r \in ToSet(shown) : r.id # c.row.id}
          /\ Distinct(Without(shown, c.row.id))
      BY <2>1, <3>1, FilterRows DEF Follows
    <3> QED
      BY <1>1, <3>2
  <2>3. \A i : i \in Edited <=> i \in Edited' \/ i = c.row.id
    BY <1>1, <2>1 DEF Edited
  <2>4. \A r : r \in Written <=> r \in Written'
    BY <1>1, <2>1 DEF Written
  <2>5. \A r : r \in stored' <=> (r \in ToSet(shown') /\ r.id \notin Edited') \/ r \in Written'
    BY <1>1, <2>1, <2>2, <2>3, <2>4 DEF Follows
  <2>6. \A i : i \in NumbersOf(ToSet(shown')) <=> i \in NumbersOf(ToSet(shown)) /\ i # c.row.id
    BY <2>2 DEF NumbersOf
  <2>7. \A e \in EditsDone' : e.op = "add" => e.row.id \notin NumbersOf(ToSet(shown'))
    BY <2>1, <2>6 DEF Follows
  <2>8. \A e, f \in EditsDone' : e.op = "add" /\ f.op = "add" /\ e.row.id = f.row.id => e = f
    BY <2>1 DEF Follows
  <2>9. \A e \in calls' : IsEdit(e) /\ e.op # "add" => e.row.id \in NumbersOf(ToSet(shown'))
    BY <1>1, <2>1, <2>6 DEF Follows
  <2> QED
    BY <2>2, <2>5, <2>7, <2>8, <2>9 DEF Follows, IsEdit, NumbersOf
<1> QED
  BY <1>3, <1>4

(* A row that was written takes the place of the one on the screen; the form *)
(* of branding shows it already.                                             *)
LEMMA PutArrivesKeeps ==
    ASSUME ListTypes, ListBasics, Keeps, NEW c \in calls, ToggleAnswered(c) \/ SaveAnswered(c)
    PROVE  Keeps'
<1>1. /\ c.op \in {"toggle", "save"} /\ c.st = "done" /\ ~Crashed /\ calls' = calls \ {c} /\ IsEdit(c)
      /\ UNCHANGED <<list, open, disturbed, stored>>
      /\ c.op = "toggle" => shown' = Mapped(shown, c.row)
      /\ c.op = "save" => shown' = shown
  BY DEF ToggleAnswered, SaveAnswered, Heard, Drop, serverVars, IsEdit, ListChanges, Mapped
<1>2. SUFFICES ASSUME ~disturbed, Calm
               PROVE  Calm' /\ (Here' /\ NoLoad' /\ NoSave' => Follows')
  BY <1>1 DEF Keeps
<1>3. Calm'
  <2>1. c.op = "toggle" => \A e \in calls : e.op # "save"
    BY DEF ListBasics, OpsOfLists
  <2> QED
    BY <1>1, <1>2, <2>1, CalmWithout
<1>4. ASSUME Here', NoLoad', NoSave'
      PROVE  Follows'
  <2>1. /\ Follows /\ EditsDone' = EditsDone \ {c} /\ c \in EditsDone
        /\ \A e \in calls : e # c /\ IsEdit(e) /\ e.op # "add" => e.row.id # c.row.id
    BY <1>1, <1>2, <1>4, EditHeard
  <2>2. c.row.id \in NumbersOf(ToSet(shown))
    BY <1>1, <2>1 DEF Follows
  <2>3. (\A r : r \in ToSet(shown') <=> (r \in ToSet(shown) /\ r.id # c.row.id) \/ r = c.row) /\ Distinct(shown')
    <3>1. CASE c.op = "toggle"
      <4>1. shown \in Seq(ListRow) /\ c.row \in ListRow
        BY <1>1, RealRow DEF ListTypes, ScreenTypes
      <4>2. ToSet(Mapped(shown, c.row)) = {r \in ToSet(shown) : r.id # c.row.id} \cup {c.row}
            /\ Distinct(Mapped(shown, c.row))
        BY <2>1, <2>2, <4>1, MapRow DEF Follows
      <4> QED
        BY <1>1, <3>1, <4>2
    <3>2. CASE c.op = "save"
      <4>1. shown' = shown /\ shown = <<c.row>>
        BY <1>1, <1>2, <3>2 DEF Calm
      <4>2. ToSet(shown) = {c.row} /\ Distinct(shown)
        BY <2>1, <4>1 DEF ToSet, Follows
      <4> QED
        BY <4>1, <4>2
    <3> QED
      BY <1>1, <3>1, <3>2
  <2>4. \A i : i \in Edited <=> i \in Edited' \/ i = c.row.id
    BY <1>1, <2>1 DEF Edited
  <2>5. c.row.id \notin Edited'
    BY <1>1, <2>1 DEF Edited, EditsDone
  <2>6. \A r : r \in Written <=> r \in Written' \/ r = c.row
    BY <1>1, <2>1 DEF Written
  <2>7. \A r : r \in stored' <=> (r \in ToSet(shown') /\ r.id \notin Edited') \/ r \in Written'
    BY <1>1, <2>1, <2>3, <2>4, <2>5, <2>6 DEF Follows
  <2>8. \A i : i \in NumbersOf(ToSet(shown')) <=> i \in NumbersOf(ToSet(shown))
    BY <2>2, <2>3 DEF NumbersOf
  <2>9. \A e \in EditsDone' : e.op = "add" => e.row.id \notin NumbersOf(ToSet(shown'))
    BY <2>1, <2>8 DEF Follows
  <2>10. \A e, f \in EditsDone' : e.op = "add" /\ f.op = "add" /\ e.row.id = f.row.id => e = f
    BY <2>1 DEF Follows
  <2>11. \A e \in calls' : IsEdit(e) /\ e.op # "add" => e.row.id \in NumbersOf(ToSet(shown'))
    BY <1>1, <2>1, <2>8 DEF Follows
  <2> QED
    BY <2>3, <2>7, <2>9, <2>10, <2>11 DEF Follows, IsEdit, NumbersOf
<1> QED
  BY <1>3, <1>4

(* The answers keep the screen with the server. *)
LEMMA AnswersKeep ==
    ASSUME ListTypes, ListBasics, Keeps, ListAnswers
    PROVE  Keeps'
<1>1. PICK c \in calls :
        \/ Unheard(c) \/ ListArrives(c) \/ DetectedArrive(c) \/ AddArrives(c) \/ ReloadingArrives(c)
        \/ DeleteArrives(c) \/ ToggleAnswered(c) \/ RunAnswered(c) \/ SaveAnswered(c) \/ CallFails(c)
  BY Zenon DEF ListAnswers
<1>2. CASE Unheard(c)
  <2>1. /\ calls' = calls \ {c} /\ UNCHANGED <<list, open, detected, shown, disturbed, stored>>
        /\ ~c.mine \/ Crashed
    BY <1>2 DEF Unheard, tabVars, serverVars
  <2>2. CASE Crashed
    <3>1. ~Here'
      BY <2>1, <2>2 DEF Here, Crashed
    <3> QED
      BY <2>1, <3>1, CalmWithout DEF Keeps
  <2>3. CASE ~c.mine
    <3>1. Here' => Here
      BY <2>1 DEF Here, Crashed
    <3>2. disturbed \/ (c.op # "save" /\ c \notin EditsDone)
      BY <2>3 DEF Keeps, Calm, IsEdit, EditsDone, ListChanges
    <3> QED
      BY <2>1, <2>3, <3>1, <3>2, DropKeeps
  <2> QED
    BY <2>1, <2>2, <2>3
<1>3. CASE DetectedArrive(c)
  <2>1. /\ calls' = calls \ {c} /\ UNCHANGED <<list, open, shown, disturbed, stored>>
        /\ c.op = "detect" /\ ~Crashed
    BY <1>3 DEF DetectedArrive, Heard, Drop, serverVars
  <2> QED
    BY <2>1, DropKeeps DEF Here, EditsDone, IsEdit, ListChanges
<1>4. CASE RunAnswered(c)
  <2>1. /\ calls' = calls \ {c} /\ UNCHANGED <<list, open, shown, disturbed, stored>>
        /\ c.op = "run" /\ ~Crashed
    BY <1>4 DEF RunAnswered, Heard, Drop, serverVars
  <2> QED
    BY <2>1, DropKeeps DEF Here, EditsDone, IsEdit, ListChanges
<1>5. CASE CallFails(c)
  <2>1. /\ calls' = calls \ {c} /\ UNCHANGED <<list, open, shown, stored>>
        /\ disturbed' = (disturbed \/ c.op \in {"load", "detect", "save"})
        /\ c.st = "failed" /\ ~Crashed
    BY <1>5 DEF CallFails, Heard, serverVars
  <2> QED
    BY <2>1, DropKeeps DEF Here, EditsDone
<1>6. CASE ReloadingArrives(c)
  <2>1. /\ SendAmong(calls \ {c}, Loads(Tag(calls \ {c}))) /\ UNCHANGED <<stored, shown>>
        /\ calls \ {c} \in SUBSET calls
    BY <1>6 DEF ReloadingArrives, Heard, serverVars
  <2> QED
    BY <2>1, LoadKeepsRows
<1> QED
  BY <1>1, <1>2, <1>3, <1>4, <1>5, <1>6, ListArrivesKeeps, AddArrivesKeeps, DeleteArrivesKeeps,
     PutArrivesKeeps, Zenon

(* The screen owes nothing at first. *)
LEMMA KeepsAtFirst ==
    ASSUME ListInit
    PROVE  Keeps
<1>1. /\ calls = (IF list \in PageLists THEN Loads(1) ELSE {}) /\ open = FALSE
      /\ shown = <<>> /\ disturbed = (list \in TabLists)
  BY DEF ListInit
<1>2. /\ \A c \in Loads(1) : c.op \in {"load", "detect"} /\ c.mine /\ c.st = "sent"
      /\ \E c \in Loads(1) : c.op = "load"
  <2>1. 1 \in Nat
    OBVIOUS
  <2> QED
    BY <2>1, LoadsTyped
<1>3. Calm
  BY <1>1, <1>2 DEF Calm, IsEdit, ListChanges
<1>4. list \in PageLists => ~NoLoad
  BY <1>1, <1>2 DEF NoLoad
<1>5. list \notin PageLists => ~Here
  BY <1>1 DEF Here
<1> QED
  BY <1>3, <1>4, <1>5 DEF Keeps

(* Whatever happens to the list keeps the screen with the server. *)
LEMMA KeepsKept ==
    ASSUME ListTypes, ListBasics, Keeps, ListNext \/ UNCHANGED listVars
    PROVE  Keeps'
<1>1. CASE UNCHANGED listVars
  BY <1>1 DEF listVars, tabVars, netVars, serverVars, Keeps, Calm, Follows, Here, Crashed, NoLoad, NoSave,
              EditsDone, Edited, Written, IsEdit, Distinct
<1> QED
  BY <1>1, UserKeeps, ServerKeeps, AnswersKeep DEF ListNext

(* So, when nothing is out, the screen shows the rows of the server.         *)
LEMMA KeepsEnough ==
    ASSUME ListTypes, Keeps
    PROVE  PatientSeesServer
<1>1. SUFFICES ASSUME list \in PageLists \/ open, calls = {}, ~disturbed, ~Crashed
               PROVE  ToSet(shown) = stored /\ Len(shown) = Cardinality(stored)
  BY DEF PatientSeesServer
<1>2. Follows
  BY <1>1 DEF Keeps, Here, NoLoad, NoSave
<1>3. Edited = {} /\ Written = {}
  BY <1>1 DEF Edited, Written, EditsDone
<1>4. ToSet(shown) = stored
  BY <1>2, <1>3 DEF Follows
<1>5. shown \in Seq(ListRow) /\ Distinct(shown)
  BY <1>2 DEF Follows, ListTypes, ScreenTypes
<1> QED
  BY <1>4, <1>5, CountedRows

------------------------------------------------------------------------------
(* The addresses seen without a client.  While nothing has disturbed the     *)
(* list, what has been asked for avoids the clients of the server, and what  *)
(* is on the screen those that the screen shows or is about to.              *)

LoadOut == \E c \in calls : c.op = "load"
DetectOut == \E c \in calls : c.op = "detect"
Avoids(ips, S) == \A r \in S : r.key \notin ips

Unmanaged ==
    /\ detected.isNull => detected.ips = {}
    /\ \A c \in calls : c.seen.isNull => c.seen.ips = {}
    /\ ~disturbed /\ list = "clients" =>
        /\ \A c \in calls : c.op = "detect" /\ c.st = "done" => Avoids(c.seen.ips, stored)
        /\ ~DetectOut /\ LoadOut => Avoids(detected.ips, stored)
        /\ ~DetectOut /\ ~LoadOut => Avoids(detected.ips, ToSet(shown))

(* A disturbed list, or one of no clients, need only have nobody in a null.  *)
LEMMA NothingUnmanaged ==
    ASSUME detected'.isNull => detected'.ips = {},
           \A c \in calls' : c.seen.isNull => c.seen.ips = {},
           disturbed' \/ list' # "clients"
    PROVE  Unmanaged'
  BY DEF Unmanaged

(* Requests are sent that have seen nobody yet. *)
LEMMA SentUnmanaged ==
    ASSUME Unmanaged, NEW new, calls' = calls \cup new,
           \A c \in new : c.st = "sent" /\ c.seen = Nobody,
           \/ (\E d \in new : d.op = "detect") /\ (~disturbed' => ~disturbed \/ calls = {})
           \/ (\A c \in new : c.op # "load") /\ (~disturbed' => ~disturbed),
           UNCHANGED <<list, detected, stored, shown>>
    PROVE  Unmanaged'
<1>1. \A c \in calls' : c.seen.isNull => c.seen.ips = {}
  BY DEF Unmanaged, Nobody
<1>2. ASSUME ~disturbed', list = "clients"
      PROVE  /\ \A c \in calls' : c.op = "detect" /\ c.st = "done" => Avoids(c.seen.ips, stored)
             /\ ~DetectOut' /\ LoadOut' => Avoids(detected.ips, stored)
             /\ ~DetectOut' /\ ~LoadOut' => Avoids(detected.ips, ToSet(shown))
  <2>1. CASE calls = {} /\ \E d \in new : d.op = "detect"
    BY <2>1 DEF DetectOut
  <2>2. CASE ~disturbed
    <3>1. \A c \in calls' : c.op = "detect" /\ c.st = "done" => Avoids(c.seen.ips, stored)
      BY <1>2, <2>2 DEF Unmanaged
    <3>2. ~DetectOut' => ~DetectOut /\ (LoadOut' <=> LoadOut)
      BY DEF DetectOut, LoadOut
    <3> QED
      BY <1>2, <2>2, <3>1, <3>2 DEF Unmanaged
  <2> QED
    BY <1>2, <2>1, <2>2
<1> QED
  BY <1>1, <1>2 DEF Unmanaged, Avoids

(* The list is loaded, with its addresses.                                   *)
LEMMA LoadUnmanaged ==
    ASSUME ListTypes, ListBasics, Unmanaged, NEW others \in SUBSET calls, SendAmong(others, Loads(Tag(others))),
           others = calls \/ list # "clients",
           UNCHANGED <<list, detected, stored, shown>>
    PROVE  Unmanaged'
<1>1. PICK new \in SUBSET CallSet :
        /\ calls' = others \cup new
        /\ \A c \in new : /\ c.op \in {"load", "detect"} /\ c.mine /\ c.st = "sent" /\ c.seen = Nobody
        /\ list = "clients" => \E c \in new : c.op = "detect"
        /\ ~disturbed' =>
             \/ \A d \in others : ~d.mine /\ d.op \notin ListChanges
             \/ ~disturbed /\ \A d \in others : d.op \notin ListChanges
  BY LoadSends
<1>2. CASE list # "clients"
  <2>1. \A c \in calls' : c.seen.isNull => c.seen.ips = {}
    BY <1>1 DEF Unmanaged, Nobody
  <2> QED
    BY <1>2, <2>1, NothingUnmanaged DEF Unmanaged
<1>3. CASE list = "clients"
  <2>1. \A c \in calls : c.mine
    BY <1>3 DEF ListBasics, OpsOfLists, PageLists
  <2>2. ~disturbed' => ~disturbed \/ calls = {}
    BY <1>1, <1>3, <2>1
  <2> QED
    BY <1>1, <1>3, <2>2, SentUnmanaged
<1> QED
  BY <1>2, <1>3

(* The steps of the user and the timers. *)
LEMMA UserKeepsUnmanaged ==
    ASSUME ListTypes, ListBasics, Unmanaged, ListUser \/ TimerFires
    PROVE  Unmanaged'
<1> USE DEF Acts, serverVars
<1>0. calls \in SUBSET calls
  OBVIOUS
<1>1. ASSUME UNCHANGED <<list, detected, calls, disturbed, stored, shown>>
      PROVE  Unmanaged'
  BY <1>1 DEF Unmanaged, LoadOut, DetectOut, Avoids
<1>2. ASSUME NEW op \in {"add", "delete", "toggle", "run"}, NEW row \in AnyRow, SendCall(op, row),
             UNCHANGED <<list, detected, stored, shown>>
      PROVE  Unmanaged'
  <2>1. PICK x \in CallSet : /\ calls' = calls \cup {x} /\ x.op = op /\ x.st = "sent" /\ x.seen = Nobody
                             /\ disturbed' = (disturbed \/ \E d \in calls : Clash(x, d))
    BY <1>2, AskSends
  <2>a. PICK new : new = {x}
    OBVIOUS
  <2>2. (\A c \in new : c.st = "sent" /\ c.seen = Nobody) /\ (\A c \in new : c.op # "load")
    BY <2>1, <2>a
  <2>3. calls' = calls \cup new /\ (~disturbed' => ~disturbed)
    BY <2>1, <2>a
  <2>4. UNCHANGED <<list, detected, stored, shown>>
    BY <1>2
  <2> QED
    BY <2>2, <2>3, <2>4, SentUnmanaged
<1>3. ASSUME OpenTab
      PROVE  Unmanaged'
  <2>1. CASE list \in TabLists
    BY <1>0, <1>3, <2>1, LoadUnmanaged DEF OpenTab, SendLoad
  <2>2. CASE list \notin TabLists
    BY <1>1, <1>3, <2>2 DEF OpenTab, netVars
  <2> QED
    BY <2>1, <2>2
<1>4. ASSUME LeaveTab
      PROVE  Unmanaged'
  <2>1. CASE list \in TabLists
    <3>1. /\ disturbed' = TRUE /\ UNCHANGED detected
          /\ calls' = {[c EXCEPT !.mine = FALSE] : c \in calls}
      BY <1>4, <2>1 DEF LeaveTab
    <3>2. \A c \in calls : [c EXCEPT !.mine = FALSE].seen = c.seen
      BY MineTyped DEF ListTypes, NetTypes
    <3>3. \A d \in calls' : \E c \in calls : d.seen = c.seen
      BY <3>1, <3>2
    <3> QED
      BY <3>1, <3>3, NothingUnmanaged DEF Unmanaged
  <2>2. CASE list \notin TabLists
    BY <1>1, <1>4, <2>2 DEF LeaveTab
  <2> QED
    BY <2>1, <2>2
<1>5. ASSUME RefreshList
      PROVE  Unmanaged'
  BY <1>0, <1>5, LoadUnmanaged DEF RefreshList, SendLoad
<1>6. ASSUME NEW op, NEW row, Asked(op, row), UNCHANGED tabVars
      PROVE  Unmanaged'
  <2>1. /\ op \in {"add", "delete", "toggle", "run"} /\ row \in AnyRow /\ SendCall(op, row)
        /\ UNCHANGED <<list, detected, shown, stored>>
    BY <1>6 DEF Asked, tabVars
  <2> QED
    BY <1>2, <2>1
<1>7. ASSUME NEW r, HandleRunSub(r)
      PROVE  Unmanaged'
  <2>1. OnScreen(r) /\ SendCall("run", r) /\ UNCHANGED <<list, detected, shown, stored>>
    BY <1>7 DEF HandleRunSub
  <2>2. r \in AnyRow
    BY <2>1, OnScreenOK
  <2> QED
    BY <1>2, <2>1, <2>2
<1>8. ASSUME NEW r, EditBranding(r)
      PROVE  Unmanaged'
  BY <1>8, NothingUnmanaged DEF EditBranding, Unmanaged
<1>9. ASSUME NEW r, HandleSaveBranding(r)
      PROVE  Unmanaged'
  <2> DEFINE x == Call(Tag(calls), "save", r)
  <2>1. calls' = calls \cup {x} /\ list = "branding" /\ UNCHANGED <<list, detected>>
    BY <1>9 DEF HandleSaveBranding
  <2>2. x.seen = Nobody
    BY DEF Call
  <2> HIDE DEF x
  <2>3. \A c \in calls' : c.seen.isNull => c.seen.ips = {}
    BY <2>1, <2>2 DEF Unmanaged, Nobody
  <2> QED
    BY <2>1, <2>3, NothingUnmanaged DEF Unmanaged
<1>10. ASSUME TimerFires
      PROVE  Unmanaged'
  BY <1>0, <1>10, LoadUnmanaged DEF TimerFires, SendLoad
<1> QED
  BY <1>3, <1>4, <1>5, <1>6, <1>7, <1>8, <1>9, <1>10, UserAsks, Zenon

(* The steps of the server, and what fails.  When a row is edited no         *)
(* addresses are out.                                                        *)
LEMMA ServerKeepsUnmanaged ==
    ASSUME ListTypes, Keeps, Unmanaged,
           ServeCall \/ RunEnds \/ RefuseCall \/ LoseCall \/ ChangeElsewhere
    PROVE  Unmanaged'
<1>1. ASSUME NEW c \in calls, NEW d, Answered(c, d), d.op = c.op, d.seen.isNull => d.seen.ips = {},
             UNCHANGED <<list, detected, shown>>, disturbed' \/ ~disturbed,
             stored' = stored \/ IsEdit(c),
             disturbed' \/ ~(c.op = "detect" /\ d.st = "done") \/ Avoids(d.seen.ips, stored)
      PROVE  Unmanaged'
  <2>1. \A e \in calls' : e = d \/ e \in calls
    BY <1>1 DEF Answered
  <2>2. \A e \in calls' : e.seen.isNull => e.seen.ips = {}
    BY <1>1, <2>1 DEF Unmanaged
  <2>3. (LoadOut' <=> LoadOut) /\ (DetectOut' <=> DetectOut)
    BY <1>1 DEF Answered, LoadOut, DetectOut
  <2>4. ASSUME ~disturbed', list = "clients", stored' = stored
        PROVE  Unmanaged'
    <3>1. \A e \in calls' : e.op = "detect" /\ e.st = "done" => Avoids(e.seen.ips, stored)
      BY <1>1, <2>1, <2>4 DEF Unmanaged
    <3> QED
      BY <1>1, <2>2, <2>3, <2>4, <3>1 DEF Unmanaged, Avoids
  <2>5. ASSUME ~disturbed', list = "clients", IsEdit(c)
        PROVE  Unmanaged'
    <3>1. \A e \in calls : e.op \notin {"load", "detect"}
      BY <1>1, <2>5 DEF Keeps, Calm
    <3>2. (\A e \in calls' : e.op # "detect") /\ ~LoadOut /\ ~DetectOut
      BY <1>1, <2>1, <3>1 DEF LoadOut, DetectOut
    <3>3. Avoids(detected.ips, ToSet(shown))
      BY <1>1, <2>5, <3>2 DEF Unmanaged
    <3> QED
      BY <1>1, <2>2, <2>3, <3>2, <3>3 DEF Unmanaged, Avoids
  <2> QED
    BY <1>1, <2>2, <2>4, <2>5, NothingUnmanaged DEF Unmanaged
<1>2. ASSUME ServeCall
      PROVE  Unmanaged'
  <2>1. PICK c \in calls :
          /\ ServeLoad(c) \/ ServeDetect(c) \/ ServeAdd(c) \/ ServePut(c) \/ ServeDelete(c) \/ ServeRun(c)
          /\ UNCHANGED <<list, tabVars, disturbed, done, mishaps>>
    BY <1>2, Zenon DEF ServeCall
  <2>2. UNCHANGED <<list, detected, shown, disturbed>>
    BY <2>1 DEF tabVars
  <2>3. PICK d \in CallSet :
             /\ Answered(c, d) /\ d.op = c.op /\ d.mine = c.mine
             /\ d.st \in {"done", "failed"} /\ (d.st = "failed" => stored' = stored)
             /\ c.op # "detect" => d.seen = c.seen
             /\ ~(c.op = "add" /\ d.st = "done") => d.row = c.row
             /\ \/ c.op = "load" /\ d.rows = stored /\ d.st = "done"
                \/ c.op = "detect" /\ d.st = "done"
                   /\ d.seen = [isNull |-> queried \ KeysOf(stored) = {}, ips |-> queried \ KeysOf(stored)]
                \/ c.op = "run" /\ d.st = "done"
                \/ c.op = "add" /\ (d.st = "done" => d.row.id = last + 1 /\ stored' = stored \cup {d.row})
                \/ c.op \in {"toggle", "save"}
                   /\ (d.st = "done" => /\ c.row.id \in NumbersOf(stored)
                                        /\ stored' = RowsWithout(c.row.id) \cup {c.row})
                \/ c.op = "delete" /\ d.st = "done" /\ stored' = RowsWithout(c.row.id)
             /\ c.op \in {"load", "detect", "run"} => stored' = stored
             /\ c.op # "run" => runs' = runs
    BY <2>1, ServedCall
  <2>4. stored' = stored \/ IsEdit(c)
    BY <2>3 DEF IsEdit, ListChanges
  <2>5. CASE c.op # "detect"
    BY <1>1, <2>2, <2>3, <2>4, <2>5 DEF Unmanaged
  <2>6. CASE c.op = "detect"
    <3>1. d.seen = [isNull |-> queried \ KeysOf(stored) = {}, ips |-> queried \ KeysOf(stored)]
      BY <2>3, <2>6
    <3> DEFINE new == queried \ KeysOf(stored)
    <3>2. d.seen.isNull => d.seen.ips = {}
      <4>1. d.seen = [isNull |-> new = {}, ips |-> new]
        BY <3>1
      <4> HIDE DEF new
      <4>2. CASE new = {}
        BY <4>1, <4>2
      <4>3. CASE new # {}
        <5>1. (new = {}) = FALSE
          BY <4>3
        <5>2. d.seen = [isNull |-> FALSE, ips |-> new]
          BY <4>1, <5>1, Zenon
        <5> QED
          BY <5>2
      <4> QED
        BY <4>2, <4>3
    <3>3. Avoids(d.seen.ips, stored)
      <4>1. d.seen.ips = new
        BY <3>1
      <4> QED
        BY <4>1 DEF Avoids, KeysOf
    <3> HIDE DEF new
    <3> QED
      BY <1>1, <2>2, <2>3, <2>4, <3>2, <3>3
  <2> QED
    BY <2>5, <2>6
<1>3. ASSUME RefuseCall \/ LoseCall
      PROVE  Unmanaged'
  <2>1. PICK c \in calls : Answered(c, [c EXCEPT !.st = "failed"])
    BY <1>3, Zenon DEF RefuseCall, LoseCall
  <2>2. UNCHANGED <<list, detected, shown, stored>> /\ (disturbed' \/ ~disturbed)
    <3>1. CASE RefuseCall
      <4>1. UNCHANGED <<list, detected, shown, stored>> /\ disturbed' = disturbed
        BY <3>1 DEF RefuseCall, Mishap, tabVars, serverVars
      <4>2. disturbed' \/ ~disturbed
        BY <4>1, Zenon
      <4> QED
        BY <4>1, <4>2
    <3>2. CASE LoseCall
      BY <3>2 DEF LoseCall, Mishap, tabVars, serverVars
    <3> QED
      BY <1>3, <3>1, <3>2
  <2>3. PICK d : /\ d = [c EXCEPT !.st = "failed"] /\ d.op = c.op /\ d.seen = c.seen /\ d.st = "failed"
    BY StTyped DEF ListTypes, NetTypes
  <2> QED
    BY <1>1, <2>1, <2>2, <2>3 DEF Unmanaged
<1>4. ASSUME RunEnds \/ ChangeElsewhere
      PROVE  Unmanaged'
  <2>1. disturbed' = TRUE /\ calls' = calls /\ detected' = detected
    BY <1>4 DEF RunEnds, ChangeElsewhere, Mishap, tabVars
  <2> QED
    BY <2>1, NothingUnmanaged DEF Unmanaged
<1> QED
  BY <1>2, <1>3, <1>4

(* The answers. *)
LEMMA AnswersKeepUnmanaged ==
    ASSUME ListTypes, ListBasics, Keeps, Unmanaged, ListAnswers
    PROVE  Unmanaged'
<1>1. PICK c \in calls :
        \/ Unheard(c) \/ ListArrives(c) \/ DetectedArrive(c) \/ AddArrives(c) \/ ReloadingArrives(c)
        \/ DeleteArrives(c) \/ ToggleAnswered(c) \/ RunAnswered(c) \/ SaveAnswered(c) \/ CallFails(c)
  BY Zenon DEF ListAnswers
<1>2. c \in CallSet
  BY DEF ListTypes, NetTypes
<1>3. ASSUME calls' = calls \ {c}, UNCHANGED <<list, stored>>, disturbed' \/ ~disturbed,
             detected'.isNull => detected'.ips = {},
             ~disturbed' /\ list = "clients" =>
               /\ ~DetectOut' /\ LoadOut' => Avoids(detected'.ips, stored)
               /\ ~DetectOut' /\ ~LoadOut' => Avoids(detected'.ips, ToSet(shown'))
      PROVE  Unmanaged'
  BY <1>3 DEF Unmanaged, Avoids
<1>4. CASE Unheard(c)
  <2>1. calls' = calls \ {c} /\ UNCHANGED <<list, open, detected, shown, disturbed, stored>> /\ (~c.mine \/ Crashed)
    BY <1>4 DEF Unheard, tabVars, serverVars
  <2>2. list = "clients" => Crashed
    BY <2>1 DEF ListBasics, OpsOfLists, PageLists
  <2>3. Crashed => detected.ips = {}
    BY DEF Crashed, Unmanaged
  <2>4. list = "clients" => Avoids(detected'.ips, stored) /\ Avoids(detected'.ips, ToSet(shown'))
    BY <2>1, <2>2, <2>3 DEF Avoids
  <2> QED
    BY <1>3, <2>1, <2>4 DEF Unmanaged
<1>5. CASE ListArrives(c)
  <2>1. /\ c.op = "load" /\ c.mine /\ c.st = "done" /\ calls' = calls \ {c}
        /\ UNCHANGED <<list, disturbed, stored, detected>>
    BY <1>5 DEF ListArrives, Heard, Drop, serverVars
  <2>2. PICK s \in SetToSeqs(c.rows) : shown' = s
    BY <1>5, Zenon DEF ListArrives
  <2>3. ASSUME ~disturbed, list = "clients"
        PROVE  /\ ~DetectOut' => Avoids(detected.ips, stored)
               /\ ToSet(shown') = stored
    <3>1. c.rows = stored
      BY <2>1, <2>3 DEF Keeps, Calm
    <3>2. c.rows \in SUBSET ListRow /\ IsFiniteSet(c.rows)
      BY DEF ListTypes, NetTypes, Given
    <3>3. ToSet(shown') = stored
      BY <2>2, <3>1, <3>2, OrderedRows
    <3>4. LoadOut /\ (~DetectOut' => ~DetectOut)
      BY <2>1 DEF LoadOut, DetectOut
    <3> QED
      BY <2>3, <3>3, <3>4 DEF Unmanaged
  <2> QED
    BY <1>3, <2>1, <2>3 DEF Unmanaged
<1>6. CASE DetectedArrive(c)
  <2>1. /\ c.op = "detect" /\ c.mine /\ c.st = "done" /\ calls' = calls \ {c} /\ ~Crashed
        /\ UNCHANGED <<list, disturbed, stored, shown>> /\ detected' = c.seen
    BY <1>6 DEF DetectedArrive, Heard, Drop, serverVars
  <2>2. ASSUME ~disturbed, list = "clients"
        PROVE  Avoids(detected'.ips, stored) /\ (~LoadOut' => Avoids(detected'.ips, ToSet(shown)))
    <3>1. Avoids(c.seen.ips, stored)
      BY <2>1, <2>2 DEF Unmanaged
    <3>2. ASSUME ~LoadOut'
          PROVE  ToSet(shown) = stored
      <4>1. Calm /\ \A e \in calls : ~IsEdit(e)
        BY <2>1, <2>2 DEF Keeps, Calm
      <4>2. NoLoad
        BY <2>1, <3>2 DEF LoadOut, NoLoad
      <4>3. NoSave
        BY <4>1 DEF NoSave, IsEdit, ListChanges
      <4>4. Here
        BY <2>1, <2>2 DEF Here, PageLists
      <4>5. Follows
        BY <2>2, <4>2, <4>3, <4>4 DEF Keeps
      <4>6. Edited = {} /\ Written = {}
        BY <4>1 DEF Edited, Written, EditsDone
      <4> QED
        BY <4>5, <4>6 DEF Follows
    <3> QED
      BY <2>1, <3>1, <3>2
  <2>3. detected'.isNull => detected'.ips = {}
    BY <2>1 DEF Unmanaged
  <2> QED
    BY <1>3, <2>1, <2>2, <2>3
<1>7. ASSUME ~disturbed, IsEdit(c), calls' = calls \ {c}, UNCHANGED list, list = "clients"
      PROVE  ~LoadOut' /\ Avoids(detected.ips, ToSet(shown))
  <2>1. \A e \in calls : e.op \notin {"load", "detect"}
    BY <1>7 DEF Keeps, Calm
  <2>2. ~LoadOut /\ ~DetectOut /\ ~LoadOut'
    BY <1>7, <2>1 DEF LoadOut, DetectOut
  <2> QED
    BY <1>7, <2>2 DEF Unmanaged
<1>8. CASE AddArrives(c)
  <2>1. /\ c.op = "add" /\ c.st = "done" /\ calls' = calls \ {c} /\ IsEdit(c)
        /\ UNCHANGED <<list, disturbed, stored>>
        /\ shown' = Patched(c) /\ detected' = [detected EXCEPT !.ips = @ \ {c.row.key}]
    BY <1>8 DEF AddArrives, Heard, Drop, serverVars, IsEdit, ListChanges
  <2>2. detected'.isNull = detected.isNull /\ detected'.ips = detected.ips \ {c.row.key}
    BY <2>1 DEF ListTypes, ScreenTypes, Seen
  <2>3. ToSet(shown') = ToSet(shown) \cup {c.row}
    <3>1. shown \in Seq(ListRow) /\ c.row \in ListRow
      BY <2>1, RealRow DEF ListTypes, ScreenTypes
    <3> QED
      BY <2>1, <3>1, AppendRow, PrependRow DEF Patched
  <2>4. ~disturbed' /\ list = "clients" => ~LoadOut' /\ Avoids(detected'.ips, ToSet(shown'))
    BY <1>7, <2>1, <2>2, <2>3 DEF Avoids
  <2>5. detected'.isNull => detected'.ips = {}
    BY <2>2 DEF Unmanaged
  <2> QED
    BY <1>3, <2>1, <2>4, <2>5
<1>9. CASE DeleteArrives(c)
  <2>1. /\ c.op = "delete" /\ c.st = "done" /\ calls' = calls \ {c} /\ IsEdit(c)
        /\ UNCHANGED <<list, disturbed, stored, detected>> /\ shown' = Without(shown, c.row.id)
    BY <1>9 DEF DeleteArrives, Heard, Drop, serverVars, IsEdit, ListChanges
  <2>2. \A r \in ToSet(shown') : r \in ToSet(shown)
    <3>1. shown \in Seq(ListRow)
      BY DEF ListTypes, ScreenTypes
    <3> QED
      BY <2>1, <3>1, FilterRows
  <2>3. ~disturbed' /\ list = "clients" => ~LoadOut' /\ Avoids(detected'.ips, ToSet(shown'))
    BY <1>7, <2>1, <2>2 DEF Avoids
  <2> QED
    BY <1>3, <2>1, <2>3 DEF Unmanaged
<1>10. CASE ToggleAnswered(c) \/ SaveAnswered(c)
  <2>1. /\ calls' = calls \ {c} /\ UNCHANGED <<list, disturbed, stored, detected>> /\ list # "clients"
    BY <1>10 DEF ToggleAnswered, SaveAnswered, Heard, Drop, serverVars, ListBasics, OpsOfLists
  <2> QED
    BY <1>3, <2>1 DEF Unmanaged
<1>11. CASE RunAnswered(c) \/ ReloadingArrives(c)
  <2>1. list # "clients" /\ UNCHANGED <<list, detected, stored, shown>>
    BY <1>11 DEF RunAnswered, ReloadingArrives, Heard, serverVars
  <2>2. CASE RunAnswered(c)
    BY <1>3, <2>1, <2>2 DEF RunAnswered, Drop, Unmanaged
  <2>3. CASE ReloadingArrives(c)
    <3>1. calls \ {c} \in SUBSET calls /\ SendAmong(calls \ {c}, Loads(Tag(calls \ {c})))
      BY <2>3 DEF ReloadingArrives
    <3> QED
      BY <2>1, <3>1, LoadUnmanaged
  <2> QED
    BY <1>11, <2>2, <2>3
<1>12. CASE CallFails(c)
  <2>1. /\ calls' = calls \ {c} /\ UNCHANGED <<list, stored, shown, detected>>
        /\ disturbed' = (disturbed \/ c.op \in {"load", "detect", "save"})
    BY <1>12 DEF CallFails, Heard, serverVars
  <2>2. ~disturbed' => ~disturbed /\ (DetectOut' <=> DetectOut) /\ (LoadOut' <=> LoadOut)
    BY <2>1 DEF DetectOut, LoadOut
  <2> QED
    BY <1>3, <2>1, <2>2 DEF Unmanaged
<1> QED
  BY <1>1, <1>4, <1>5, <1>6, <1>8, <1>9, <1>10, <1>11, <1>12, Zenon

(* At first nobody has been seen. *)
LEMMA UnmanagedAtFirst ==
    ASSUME ListInit
    PROVE  Unmanaged
<1>1. /\ detected = Nobody /\ shown = <<>>
      /\ calls = (IF list \in PageLists THEN Loads(1) ELSE {})
  BY DEF ListInit
<1>2. /\ \A c \in Loads(1) : c.st = "sent" /\ c.seen = Nobody
      /\ list = "clients" => \E c \in Loads(1) : c.op = "detect"
  <2>1. 1 \in Nat
    OBVIOUS
  <2> QED
    BY <2>1, LoadsTyped
<1>3. list = "clients" => DetectOut
  BY <1>1, <1>2 DEF DetectOut, PageLists
<1> QED
  BY <1>1, <1>2, <1>3 DEF Unmanaged, Nobody

(* Whatever happens to the list keeps this. *)
LEMMA UnmanagedKept ==
    ASSUME ListTypes, ListBasics, Keeps, Unmanaged, ListNext \/ UNCHANGED listVars
    PROVE  Unmanaged'
<1>1. CASE UNCHANGED listVars
  BY <1>1 DEF listVars, tabVars, netVars, serverVars, Unmanaged, LoadOut, DetectOut, Avoids
<1> QED
  BY <1>1, UserKeepsUnmanaged, ServerKeepsUnmanaged, AnswersKeepUnmanaged DEF ListNext

(* So no address is offered that is in the table below it.                   *)
LEMMA UnmanagedEnough ==
    ASSUME Unmanaged
    PROVE  DetectedAreUnmanaged
  BY DEF Unmanaged, DetectedAreUnmanaged, LoadOut, DetectOut, Avoids, KeysOf
=================================================================================
