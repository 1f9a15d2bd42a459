---------------------------- MODULE AdminPageProofs ----------------------------
(* Proofs about AdminPage for any rows, filters, pages, settings and bounds: *)
(* what an effect brings is of the view on the screen, the DNS form shows    *)
(* the server's settings or the user's, requests are bounded by acts, the    *)
(* tables show the server's rows at rest, and everything has its type.       *)
EXTENDS AdminPage, TLAPS, FiniteSetTheorems

------------------------------------------------------------------------------
(* The inductive invariant.                                                  *)

Fields == {"n", "op", "kind", "view", "by", "row", "val", "st", "ans", "fresh"}

(* A request has the fields of Request, a number that was given out, and is  *)
(* about the settings exactly when it reads or saves them.                   *)
Whole(r) == DOMAIN r = Fields
Kept(r) == Whole(r) /\ r.n \in 0 .. sends /\ (r.kind = "config" <=> r.op \in {"config", "save"})

Shapes ==
    /\ sends \in Nat
    /\ \A r \in out : Kept(r)
    /\ asked \in [Kinds -> 0 .. sends]
    /\ DOMAIN view = Kinds
    /\ DOMAIN table = Kinds
    /\ \A k \in Kinds : DOMAIN table[k] = {"rows", "total", "n", "by", "view", "fresh"}
                        /\ table[k].n \in 0 .. sends
    /\ DOMAIN form = {"val", "typed", "fresh"}

(* An answer about the settings that nothing has overtaken has the settings. *)
AnswersAreNews ==
    \A r \in out : r.kind = "config" /\ r.st = "done" /\ r.fresh => r.val = settings

(* The form has the settings, unless a save is on its way back.              *)
FormIsKept ==
    form.fresh /\ form.val # "none" =>
        \/ form.typed \/ form.val = settings
        \/ \E r \in out : r.op = "save" /\ r.st = "done"

PageInv == Shapes /\ EffectsFollowTheControls /\ AnswersAreNews /\ FormIsKept

(* The same request, as far as who asked for what. *)
Same(q, r) == q.n = r.n /\ q.op = r.op /\ q.kind = r.kind /\ q.view = r.view /\ q.by = r.by

------------------------------------------------------------------------------
(* Requests.                                                                 *)

(* A new request is whole. *)
LEMMA NewRequest ==
    ASSUME NEW n, NEW op, NEW kind, NEW v, NEW by, NEW row, NEW val
    PROVE  LET r == Request(n, op, kind, v, by, row, val)
           IN  /\ Whole(r) /\ r.n = n /\ r.op = op /\ r.kind = kind /\ r.view = v /\ r.by = by
               /\ r.st = "sent"
  BY DEF Request, Whole, Fields

(* The server and the network change what they change of it. *)
LEMMA EditedRequest ==
    ASSUME NEW r, Whole(r), NEW x
    PROVE  /\ LET q == [r EXCEPT !.st = x]
              IN  Whole(q) /\ Same(q, r) /\ q.st = x /\ q.val = r.val /\ q.fresh = r.fresh
           /\ LET q == [r EXCEPT !.ans = x]
              IN  Whole(q) /\ Same(q, r) /\ q.st = r.st /\ q.val = r.val /\ q.fresh = r.fresh
           /\ LET q == [r EXCEPT !.val = x]
              IN  Whole(q) /\ Same(q, r) /\ q.st = r.st /\ q.val = x /\ q.fresh = r.fresh
           /\ LET q == [r EXCEPT !.fresh = x]
              IN  Whole(q) /\ Same(q, r) /\ q.st = r.st /\ q.val = r.val /\ q.fresh = x
  BY Zenon DEF Whole, Same, Fields

(* Sending one request that is not for rows leaves the newest ones. *)
LEMMA SendOne ==
    ASSUME NEW r, r.op # "rows", Send({r}), asked \in [Kinds -> 0 .. sends]
    PROVE  out' = out \cup {r} /\ sends' = sends + 1 /\ asked' = asked
<1>1. Cardinality({r}) = 1
  BY FS_Singleton
<1>2. asked' = [k \in Kinds |-> asked[k]]
  BY DEF Send
<1> QED
  BY <1>1, <1>2 DEF Send

------------------------------------------------------------------------------
(* Kinds of steps.                                                           *)

(* A request of a handler or of loadAll is sent, not for rows.               *)
LEMMA AskStep ==
    ASSUME PageInv, NEW r, Whole(r), r.n = sends + 1, r.st = "sent", r.by # "effect", r.op # "rows",
           r.kind = "config" <=> r.op \in {"config", "save"},
           Send({r}), UNCHANGED <<view, table, form, settings>>
    PROVE  PageInv'
<1>1. out' = out \cup {r} /\ sends' = sends + 1 /\ asked' = asked
  BY SendOne DEF PageInv, Shapes
<1>2. sends \in Nat /\ asked \in [Kinds -> 0 .. sends] /\ \A q \in out : Kept(q)
  BY DEF PageInv, Shapes
<1>3. 0 .. sends \subseteq 0 .. sends' /\ sends' \in Nat /\ sends + 1 \in 0 .. sends'
  BY <1>1, <1>2
<1>4. \A q \in out' : Kept(q)'
  BY <1>1, <1>2, <1>3 DEF Kept, Whole
<1>5. asked' \in [Kinds -> 0 .. sends']
  BY <1>1, <1>2, <1>3
<1>6. Shapes'
  BY <1>3, <1>4, <1>5 DEF PageInv, Shapes
<1>7. EffectsFollowTheControls'
  BY <1>1 DEF PageInv, EffectsFollowTheControls
<1>8. AnswersAreNews' /\ FormIsKept'
  BY <1>1 DEF PageInv, AnswersAreNews, FormIsKept
<1> QED
  BY <1>6, <1>7, <1>8 DEF PageInv

(* Requests end or are changed on their way; what was asked for stays.       *)
LEMMA RelabelShapes ==
    ASSUME PageInv, \A q \in out' : Whole(q) /\ \E r \in out : Same(q, r),
           UNCHANGED <<sends, asked, view>>
    PROVE  /\ \A q \in out' : Kept(q)'
           /\ \A k \in Kinds : \A q \in out' :
                q.n = asked'[k] /\ q.by = "effect" => q.view = view'[k]
<1>1. \A q \in out' : Kept(q)'
  BY DEF PageInv, Shapes, Kept, Same, Whole
<1>2. \A k \in Kinds : \A q \in out' : q.n = asked'[k] /\ q.by = "effect" => q.view = view'[k]
  BY DEF PageInv, EffectsFollowTheControls, Same
<1> QED
  BY <1>1, <1>2

(* ... and so does what is shown, but for the rows and their freshness.      *)
LEMMA RelabelStep ==
    ASSUME PageInv, \A q \in out' : Whole(q) /\ \E r \in out : Same(q, r),
           UNCHANGED <<sends, asked, view>>,
           DOMAIN table' = Kinds,
           \A k \in Kinds : /\ DOMAIN table'[k] = DOMAIN table[k] /\ table'[k].n = table[k].n
                            /\ table'[k].by = table[k].by /\ table'[k].view = table[k].view,
           DOMAIN form' = {"val", "typed", "fresh"}, AnswersAreNews', FormIsKept'
    PROVE  PageInv'
<1>1. Shapes'
  BY RelabelShapes DEF PageInv, Shapes
<1>2. EffectsFollowTheControls'
  BY RelabelShapes DEF PageInv, EffectsFollowTheControls
<1> QED
  BY <1>1, <1>2 DEF PageInv

(* Nothing the invariant speaks of changes. *)
LEMMA StayStep ==
    ASSUME PageInv, UNCHANGED <<out, sends, asked, view, table, form, settings>>
    PROVE  PageInv'
<1>1. \A q \in out' : Kept(q)'
  BY DEF PageInv, Shapes, Kept, Whole
<1>2. Shapes'
  BY <1>1 DEF PageInv, Shapes
<1> QED
  BY <1>2 DEF PageInv, EffectsFollowTheControls, AnswersAreNews, FormIsKept

------------------------------------------------------------------------------
(* The user.                                                                 *)

(* A page is turned, a filter chosen: two requests are sent. *)
LEMMA LookSends ==
    ASSUME NEW k, NEW v, ChangeView(k, v), sends \in Nat
    PROVE  LET all == GetConfig(sends + 1)
               mine == GetRows(sends + 2, k, v, "effect")
           IN  /\ Whole(all) /\ all.n = sends + 1 /\ all.op = "config" /\ all.kind = "config"
               /\ all.st = "sent" /\ all.by = "all"
               /\ Whole(mine) /\ mine.n = sends + 2 /\ mine.op = "rows" /\ mine.kind = k
               /\ mine.st = "sent" /\ mine.by = "effect" /\ mine.view = v
               /\ out' = out \cup {all, mine} /\ sends' = sends + 2 /\ acts' = acts + 1
<1> DEFINE all == GetConfig(sends + 1)
           mine == GetRows(sends + 2, k, v, "effect")
           S == {all, mine}
<1>1. /\ Whole(all) /\ all.n = sends + 1 /\ all.op = "config" /\ all.kind = "config"
      /\ all.st = "sent" /\ all.by = "all"
  BY NewRequest DEF GetConfig
<1>2. /\ Whole(mine) /\ mine.n = sends + 2 /\ mine.op = "rows" /\ mine.kind = k
      /\ mine.st = "sent" /\ mine.by = "effect" /\ mine.view = v
  BY NewRequest DEF GetRows
<1>3. Send(S) /\ acts' = acts + 1
  BY DEF ChangeView, Acts
<1> HIDE DEF all, mine
<1>4. Cardinality(S) = 2
  <2>1. all # mine
    BY <1>1, <1>2
  <2>2. Cardinality({all}) = 1 /\ IsFiniteSet({all})
    BY FS_Singleton
  <2>3. Cardinality({all} \cup {mine}) = Cardinality({all}) + 1
    BY <2>1, <2>2, FS_AddElement
  <2>4. S = {all} \cup {mine}
    OBVIOUS
  <2> QED
    BY <2>2, <2>3, <2>4
<1>5. out' = out \cup S /\ sends' = sends + 2
  BY <1>3, <1>4 DEF Send
<1> QED
  BY <1>1, <1>2, <1>3, <1>5 DEF all, mine

(* The effect's is the newest.                                               *)
LEMMA ChangeViewStep ==
    ASSUME PageInv, NEW k \in Kinds, NEW v, ChangeView(k, v)
    PROVE  PageInv'
<1> DEFINE all == GetConfig(sends + 1)
           mine == GetRows(sends + 2, k, v, "effect")
           S == {all, mine}
<1>0. sends \in Nat
  BY DEF PageInv, Shapes
<1>1. /\ Whole(all) /\ all.n = sends + 1 /\ all.op = "config" /\ all.kind = "config"
      /\ all.st = "sent" /\ all.by = "all"
  BY <1>0, LookSends
<1>2. /\ Whole(mine) /\ mine.n = sends + 2 /\ mine.op = "rows" /\ mine.kind = k
      /\ mine.st = "sent" /\ mine.by = "effect" /\ mine.view = v
  BY <1>0, LookSends
<1>3. view' = [view EXCEPT ![k] = v] /\ UNCHANGED <<table, form, settings>> /\ Send(S)
  BY DEF ChangeView, Acts, server
<1>6. out' = out \cup S /\ sends' = sends + 2
  BY <1>0, LookSends
<1> HIDE DEF all, mine
<1>4. sends \in Nat /\ asked \in [Kinds -> 0 .. sends] /\ (\A q \in out : Kept(q)) /\ k # "config"
  BY DEF PageInv, Shapes, Kinds
<1>7. asked' = [asked EXCEPT ![k] = sends + 2]
  <2>1. \A j \in Kinds : \A r \in S : r.op = "rows" /\ r.kind = j <=> r = mine /\ j = k
    BY <1>1, <1>2
  <2>2. (CHOOSE r \in S : r.op = "rows" /\ r.kind = k) = mine
    BY <2>1
  <2>3. asked' = [j \in Kinds |->
                    IF \E r \in S : r.op = "rows" /\ r.kind = j
                    THEN (CHOOSE r \in S : r.op = "rows" /\ r.kind = j).n ELSE asked[j]]
    BY <1>3, Zenon DEF Send
  <2>4. \A j \in Kinds : asked'[j] = IF j = k THEN sends + 2 ELSE asked[j]
    <3> TAKE j \in Kinds
    <3>1. CASE j = k
      BY <1>2, <2>1, <2>2, <2>3, <3>1
    <3>2. CASE j # k
      <4>1. ~\E r \in S : r.op = "rows" /\ r.kind = j
        BY <2>1, <3>2
      <4> QED
        BY <2>3, <3>2, <4>1
    <3> QED
      BY <3>1, <3>2
  <2> QED
    BY <1>4, <2>3, <2>4
<1>8. \A q \in out' : Kept(q)'
  BY <1>1, <1>2, <1>4, <1>6 DEF Kept, Whole
<1>9. Shapes'
  <2>1. asked' \in [Kinds -> 0 .. sends'] /\ sends' \in Nat /\ 0 .. sends \subseteq 0 .. sends'
    BY <1>4, <1>6, <1>7
  <2>2. DOMAIN view' = Kinds
    BY <1>3, Zenon DEF PageInv, Shapes
  <2> QED
    BY <1>3, <1>8, <2>1, <2>2 DEF PageInv, Shapes
<1>10. EffectsFollowTheControls'
  <2>1. \A j \in Kinds : view'[j] = IF j = k THEN v ELSE view[j]
    BY <1>3 DEF PageInv, Shapes
  <2>2. ASSUME NEW j \in Kinds, NEW q \in out', q.n = asked'[j], q.by = "effect"
        PROVE  q.view = view'[j]
    <3>1. CASE q \in out
      <4>1. q.n \in 0 .. sends
        BY <1>4, <3>1 DEF Kept
      <4>2. j # k /\ q.n = asked[j]
        BY <1>4, <1>7, <2>2, <4>1
      <4> QED
        BY <2>1, <2>2, <3>1, <4>2 DEF PageInv, EffectsFollowTheControls
    <3>2. CASE q = all
      BY <1>1, <2>2, <3>2
    <3>3. CASE q = mine
      <4>1. j = k
        BY <1>2, <1>4, <1>7, <2>2, <3>3
      <4> QED
        BY <1>2, <2>1, <3>3, <4>1
    <3> QED
      BY <1>6, <3>1, <3>2, <3>3
  <2>3. ASSUME NEW j \in Kinds, table'[j].n = asked'[j], table'[j].by = "effect"
        PROVE  table'[j].view = view'[j]
    <3>1. table[j].n \in 0 .. sends
      BY DEF PageInv, Shapes
    <3>2. j # k /\ table[j].n = asked[j]
      BY <1>3, <1>4, <1>7, <2>3, <3>1
    <3> QED
      BY <1>3, <2>1, <2>3, <3>2 DEF PageInv, EffectsFollowTheControls
  <2> QED
    BY <2>2, <2>3 DEF EffectsFollowTheControls
<1>11. AnswersAreNews' /\ FormIsKept'
  BY <1>1, <1>2, <1>3, <1>6 DEF PageInv, AnswersAreNews, FormIsKept
<1> QED
  BY <1>9, <1>10, <1>11 DEF PageInv

(* A handler sends its request. *)
LEMMA EditStep ==
    ASSUME PageInv, NEW op, NEW k, NEW v, NEW row, op \notin {"rows", "config", "save"}, k # "config",
           Starts(Edit(sends + 1, op, k, v, row)), UNCHANGED <<view, table, form>>
    PROVE  PageInv'
<1> DEFINE r == Edit(sends + 1, op, k, v, row)
<1>1. Whole(r) /\ r.n = sends + 1 /\ r.op = op /\ r.kind = k /\ r.st = "sent" /\ r.by = "handler"
  BY NewRequest DEF Edit
<1>2. Send({r}) /\ UNCHANGED settings
  BY DEF Starts, Acts, server
<1> HIDE DEF r
<1> QED
  BY <1>1, <1>2, AskStep

(* So do Refresh, SaveDNS and HandleChangePw. *)
LEMMA OtherAskStep ==
    ASSUME PageInv, Refresh \/ SaveDNS \/ HandleChangePw
    PROVE  PageInv'
<1>1. UNCHANGED <<view, table, form, settings>>
  BY DEF Refresh, SaveDNS, HandleChangePw, Starts, Acts, server, page
<1>2. PICK r : /\ r \in {GetConfig(sends + 1), PutConfig(sends + 1, form.val), ChangePassword(sends + 1)}
               /\ Send({r})
  BY Zenon DEF Refresh, SaveDNS, HandleChangePw, Starts
<1>3. CASE r = GetConfig(sends + 1)
  <2>1. Whole(r) /\ r.n = sends + 1 /\ r.op = "config" /\ r.kind = "config" /\ r.st = "sent" /\ r.by = "all"
    BY <1>3, NewRequest DEF GetConfig
  <2> QED
    BY <1>1, <1>2, <2>1, AskStep
<1>4. CASE r = PutConfig(sends + 1, form.val)
  <2>1. Whole(r) /\ r.n = sends + 1 /\ r.op = "save" /\ r.kind = "config" /\ r.st = "sent" /\ r.by = "handler"
    BY <1>4, NewRequest DEF PutConfig
  <2> QED
    BY <1>1, <1>2, <2>1, AskStep
<1>5. CASE r = ChangePassword(sends + 1)
  <2>1. Whole(r) /\ r.n = sends + 1 /\ r.op = "password" /\ r.kind = "auth" /\ r.st = "sent" /\ r.by = "handler"
    BY <1>5, NewRequest DEF ChangePassword
  <2> QED
    BY <1>1, <1>2, <2>1, AskStep
<1> QED
  BY <1>2, <1>3, <1>4, <1>5

(* Boxes are ticked, fields typed in. *)
LEMMA TypeStep ==
    ASSUME PageInv, SelectAll \/ (\E i \in Ids : SelectOne(i)) \/ (\E x \in Settings : EditDNS(x))
    PROVE  PageInv'
<1>1. UNCHANGED <<out, sends, asked, view, table, settings>>
  BY DEF SelectAll, SelectOne, EditDNS, Acts, net, server
<1>2. CASE SelectAll \/ \E i \in Ids : SelectOne(i)
  BY <1>1, <1>2, StayStep DEF SelectAll, SelectOne
<1>3. ASSUME NEW x \in Settings, EditDNS(x)
      PROVE  PageInv'
  <2>1. form' = [form EXCEPT !.val = x, !.typed = TRUE]
    BY <1>3 DEF EditDNS
  <2>2. DOMAIN form' = {"val", "typed", "fresh"} /\ form'.typed
    <3>1. DOMAIN form = {"val", "typed", "fresh"}
      BY DEF PageInv, Shapes
    <3> QED
      BY <2>1, <3>1, Zenon
  <2>3. FormIsKept'
    BY <2>2 DEF FormIsKept
  <2>4. AnswersAreNews'
    BY <1>1 DEF PageInv, AnswersAreNews
  <2>5. \A q \in out' : Kept(q)'
    BY <1>1 DEF PageInv, Shapes, Kept, Whole
  <2>6. Shapes'
    BY <1>1, <2>2, <2>5 DEF PageInv, Shapes
  <2> QED
    BY <1>1, <2>3, <2>4, <2>6 DEF PageInv, EffectsFollowTheControls
<1> QED
  BY <1>2, <1>3

(* What the user does: look, edit, type, or ask for something else. *)
Looking == \E k, v : k \in Kinds /\ ChangeView(k, v)
Editing ==
    \E op, k, v, row :
        /\ op \notin {"rows", "config", "save"} /\ k # "config"
        /\ Starts(Edit(sends + 1, op, k, v, row))
        /\ UNCHANGED <<view, table, form>>
Typing == SelectAll \/ (\E i \in Ids : SelectOne(i)) \/ (\E x \in Settings : EditDNS(x))
Asking == Refresh \/ SaveDNS \/ HandleChangePw

(* Every step of the user is one of these. *)
LEMMA UserCases ==
    ASSUME User
    PROVE  Looking \/ Editing \/ Typing \/ Asking
<1>1. "domains" \in Kinds /\ "records" \in Kinds
  BY DEF Kinds
<1>2. ASSUME NEW k \in Kinds, NEW x, Search(k, x) \/ Choose(k, x) \/ Turn(k, x)
      PROVE  Looking
  BY <1>2, Zenon DEF Looking, Search, Choose, Turn
<1>3. ASSUME NEW k \in Kinds, TurnBack(k) \/ TurnOn(k)
      PROVE  Looking
  BY <1>2, <1>3, Zenon DEF TurnBack, TurnOn
<1>4. ASSUME NEW k \in Kinds, NEW x, Add(k, x) \/ Delete(k, x) \/ Toggle(k, x)
      PROVE  Editing
  <2>1. UNCHANGED <<view, table, form>>
    BY <1>4 DEF Add, Delete, Toggle, page
  <2>2. \E op, v, row : op \notin {"rows", "config", "save"} /\ Starts(Edit(sends + 1, op, k, v, row))
    <3>1. "add" \notin {"rows", "config", "save"} /\ "delete" \notin {"rows", "config", "save"}
          /\ "toggle" \notin {"rows", "config", "save"}
      OBVIOUS
    <3> QED
      BY <1>4, <3>1, Zenon DEF Add, Delete, Toggle
  <2>3. k # "config"
    BY DEF Kinds
  <2> QED
    BY <2>1, <2>2, <2>3, Zenon DEF Editing
<1>5. ASSUME HandleImport \/ HandleBulkDelete
      PROVE  Editing
  <2>1. UNCHANGED <<view, table, form>>
    BY <1>5 DEF HandleImport, HandleBulkDelete
  <2>2. "import" \notin {"rows", "config", "save"} /\ "bulk" \notin {"rows", "config", "save"} /\ "domains" # "config"
    OBVIOUS
  <2> QED
    BY <1>5, <2>1, <2>2, Zenon DEF Editing, HandleImport, HandleBulkDelete
<1>6. ASSUME DomainsToolbar \/ RecordsToolbar
      PROVE  Looking \/ Editing
  BY <1>1, <1>2, <1>5, <1>6, Zenon
  DEF DomainsToolbar, RecordsToolbar, DomainSearch, DomainCatFilter, RecordSearch, RecordTypeFilter
<1>7. ASSUME DomainPager \/ RecordPager
      PROVE  Looking
  BY <1>1, <1>3, <1>7, Zenon DEF DomainPager, RecordPager
<1>8. ASSUME DomainsTable \/ RecordsTable \/ AddDomainForm \/ AddRecordForm \/ ImportForm
      PROVE  Editing \/ Typing
  BY <1>1, <1>4, <1>5, <1>8, Zenon
  DEF Typing, DomainsTable, RecordsTable, AddDomainForm, AddRecordForm, ImportForm, ToggleDomain,
      HandleDeleteDomain, HandleAddDomain, ToggleRecord, HandleDeleteRecord, HandleAddRecord
<1>9. ASSUME Header \/ Notice \/ DNSTab \/ SecurityTab
      PROVE  Asking \/ Typing
  BY <1>9, Zenon DEF Asking, Typing, Header, Notice, DNSTab, SecurityTab
<1> QED
  BY <1>6, <1>7, <1>8, <1>9, Zenon DEF User

(* The user keeps the invariant. *)
LEMMA UserStep ==
    ASSUME PageInv, User
    PROVE  PageInv'
  BY UserCases, ChangeViewStep, EditStep, TypeStep, OtherAskStep, Zenon
  DEF Looking, Editing, Typing, Asking

------------------------------------------------------------------------------
(* The server and the network.                                               *)

(* Marking answers as overtaken changes nothing else, and leaves none of     *)
(* this kind that is news.                                                   *)
LEMMA OutdatedOK ==
    ASSUME NEW S, \A r \in S : Whole(r), NEW kind
    PROVE  \A q \in Outdated(S, kind) :
              /\ Whole(q)
              /\ \E r \in S : /\ Same(q, r) /\ q.st = r.st /\ q.val = r.val
                              /\ q.fresh = r.fresh \/ ~q.fresh
              /\ q.kind = kind /\ q.st = "done" => ~q.fresh
<1> TAKE q \in Outdated(S, kind)
<1>1. PICK r \in S : q = IF r.kind = kind /\ r.st = "done" THEN [r EXCEPT !.fresh = FALSE] ELSE r
  BY Zenon DEF Outdated
<1>2. Whole(r)
  OBVIOUS
<1>3. CASE r.kind = kind /\ r.st = "done"
  <2>1. q = [r EXCEPT !.fresh = FALSE]
    BY <1>1, <1>3, Zenon
  <2>2. LET x == [r EXCEPT !.fresh = FALSE]
        IN  Whole(x) /\ Same(x, r) /\ x.st = r.st /\ x.val = r.val
    BY <1>2, EditedRequest, Zenon
  <2>3. ~[r EXCEPT !.fresh = FALSE].fresh
    BY <1>2, Zenon DEF Whole, Fields
  <2> QED
    BY <2>1, <2>2, <2>3, Zenon
<1>4. CASE ~(r.kind = kind /\ r.st = "done")
  BY <1>1, <1>2, <1>4 DEF Same
<1> QED
  BY <1>3, <1>4

(* None is lost by it. *)
LEMMA OutdatedHas ==
    ASSUME NEW S, \A r \in S : Whole(r), NEW kind, NEW r \in S
    PROVE  \E q \in Outdated(S, kind) : Same(q, r) /\ q.st = r.st
<1> DEFINE q == IF r.kind = kind /\ r.st = "done" THEN [r EXCEPT !.fresh = FALSE] ELSE r
<1>1. q \in Outdated(S, kind)
  BY Zenon DEF Outdated
<1>2. Same(q, r) /\ q.st = r.st
  <2>1. CASE r.kind = kind /\ r.st = "done"
    <3>1. q = [r EXCEPT !.fresh = FALSE]
      BY <2>1, Zenon
    <3>2. LET x == [r EXCEPT !.fresh = FALSE] IN Same(x, r) /\ x.st = r.st
      BY EditedRequest, Zenon
    <3> QED
      BY <3>1, <3>2, Zenon
  <2>2. CASE ~(r.kind = kind /\ r.st = "done")
    BY <2>2 DEF Same
  <2> QED
    BY <2>1, <2>2
<1> QED
  BY <1>1, <1>2, Zenon
(* What the server does with a request. *)
LEMMA ServeCases ==
    ASSUME PageInv, NEW r, Serve(r)
    PROVE  /\ r \in out /\ r.st = "sent" /\ UNCHANGED <<sends, asked, view, table, form>>
           /\ \/ \E q : /\ Whole(q) /\ Same(q, r)
                        /\ out' = (out \ {r}) \cup {q} /\ settings' = settings
                        /\ r.op = "config" /\ q.st = "done" => q.val = settings
                        /\ r.op = "save" => q.st = "failed"
              \/ \E q, kind : /\ Whole(q) /\ Same(q, r) /\ q.st = "done" /\ q.val = r.val
                              /\ out' = Outdated(out \ {r}, kind) \cup {q}
                              /\ \/ r.op = "save" /\ kind = "config" /\ settings' = r.val
                                 \/ r.op \in Edits /\ settings' = settings
<1> DEFINE done == [r EXCEPT !.st = "done"]
           failed == [r EXCEPT !.st = "failed"]
           listed == [done EXCEPT !.ans = Listed(rows[r.kind], r.view)]
           told == [done EXCEPT !.val = settings]
           Simply(q) == out' = (out \ {r}) \cup {q} /\ settings' = settings
           Marking(kind) == out' = Outdated(out \ {r}, kind) \cup {done}
<1>1. r \in out /\ r.st = "sent" /\ UNCHANGED <<sends, asked, view, table, form>>
  BY DEF Serve, page
<1>2. Whole(r)
  BY <1>1 DEF PageInv, Shapes, Kept
<1>3. Whole(done) /\ Same(done, r) /\ done.st = "done" /\ done.val = r.val
  BY <1>2, EditedRequest, Zenon
<1>4. Whole(failed) /\ Same(failed, r) /\ failed.st = "failed"
  BY <1>2, EditedRequest, Zenon
<1>5. Whole(listed) /\ Same(listed, done)
  BY <1>3, EditedRequest, Zenon
<1>6. Whole(told) /\ Same(told, done) /\ told.val = settings
  <2> HIDE DEF done
  <2>1. Whole(told) /\ Same(told, done)
    BY <1>3, EditedRequest, Zenon
  <2>2. told.val = settings
    BY <1>3, Zenon DEF Whole, Fields
  <2> QED
    BY <2>1, <2>2
<1>7. \/ Simply(failed)
      \/ r.op = "rows" /\ Simply(listed)
      \/ r.op = "config" /\ Simply(told)
      \/ r.op = "save" /\ Marking("config") /\ settings' = r.val
      \/ r.op \in Edits /\ Marking(r.kind) /\ settings' = settings
      \/ r.op \notin {"rows", "config", "save"} /\ Simply(done)
  <2>1. server' = server => settings' = settings
    BY DEF server
  <2>2. CASE Rejected(r)
    BY <2>1, <2>2 DEF Serve
  <2>3. CASE ~Rejected(r) /\ r.op = "rows"
    BY <2>1, <2>3 DEF Serve
  <2>4. CASE ~Rejected(r) /\ r.op = "config"
    BY <2>1, <2>4 DEF Serve
  <2>5. CASE ~Rejected(r) /\ r.op = "save"
    BY <2>5 DEF Serve, Edits
  <2>6. CASE ~Rejected(r) /\ r.op \in Edits
    BY <2>6 DEF Serve, Edits
  <2>7. CASE ~Rejected(r) /\ r.op \notin {"rows", "config", "save"} \cup Edits
    BY <2>1, <2>7 DEF Serve, Edits
  <2> QED
    BY <2>2, <2>3, <2>4, <2>5, <2>6, <2>7
<1> HIDE DEF done, failed, listed, told
<1> QED
  BY <1>1, <1>3, <1>4, <1>5, <1>6, <1>7, Zenon DEF Same
(* What is shown keeps its shape and its origin if it does not change. *)
LEMMA ShownStays ==
    ASSUME PageInv, UNCHANGED <<table, form>>
    PROVE  /\ DOMAIN table' = Kinds
           /\ \A k \in Kinds : /\ DOMAIN table'[k] = DOMAIN table[k] /\ table'[k].n = table[k].n
                               /\ table'[k].by = table[k].by /\ table'[k].view = table[k].view
           /\ DOMAIN form' = {"val", "typed", "fresh"}
  BY DEF PageInv, Shapes

(* The server does its part. *)
LEMMA ServeStep ==
    ASSUME PageInv, NEW r, Serve(r)
    PROVE  PageInv'
<1>1. r \in out /\ r.st = "sent" /\ UNCHANGED <<sends, asked, view, table, form>>
  BY ServeCases
<1>2. \A x \in out : Whole(x) /\ (x.kind = "config" <=> x.op \in {"config", "save"})
  BY DEF PageInv, Shapes, Kept
<1>3. ASSUME NEW q, Whole(q), Same(q, r), out' = (out \ {r}) \cup {q}, settings' = settings,
             r.op = "config" /\ q.st = "done" => q.val = settings,
             r.op = "save" => q.st = "failed"
      PROVE  PageInv'
  <2>1. \A x \in out' : Whole(x) /\ \E y \in out : Same(x, y)
    BY <1>1, <1>2, <1>3 DEF Same
  <2>2. AnswersAreNews'
    <3>1. q.kind = "config" /\ q.st = "done" => q.val = settings
      BY <1>1, <1>2, <1>3 DEF Same
    <3> QED
      BY <1>3, <3>1 DEF PageInv, AnswersAreNews
  <2>3. FormIsKept'
    BY <1>1, <1>3 DEF PageInv, FormIsKept
  <2> QED
    BY <1>1, <2>1, <2>2, <2>3, RelabelStep, ShownStays
<1>4. ASSUME NEW q, NEW kind, Whole(q), Same(q, r), q.st = "done", q.val = r.val,
             out' = Outdated(out \ {r}, kind) \cup {q},
             \/ r.op = "save" /\ kind = "config" /\ settings' = r.val
             \/ r.op \in Edits /\ settings' = settings
      PROVE  PageInv'
  <2> DEFINE others == out \ {r}
  <2>1. \A x \in Outdated(others, kind) :
           /\ Whole(x)
           /\ \E y \in others : /\ Same(x, y) /\ x.st = y.st /\ x.val = y.val
                                /\ x.fresh = y.fresh \/ ~x.fresh
           /\ x.kind = kind /\ x.st = "done" => ~x.fresh
    BY <1>2, OutdatedOK
  <2>2. \A y \in others : \E x \in Outdated(others, kind) : Same(x, y) /\ x.st = y.st
    BY <1>2, OutdatedHas
  <2>3. \A x \in out' : Whole(x) /\ \E y \in out : Same(x, y)
    BY <1>1, <1>4, <2>1
  <2>4. AnswersAreNews'
    <3> SUFFICES ASSUME NEW x \in out', x.kind = "config", x.st = "done", x.fresh
                 PROVE  x.val = settings'
      BY DEF AnswersAreNews
    <3>1. CASE x = q
      <4>1. r.op = "save"
        BY <1>1, <1>2, <1>4, <3>1 DEF Same, Edits
      <4> QED
        BY <1>4, <3>1, <4>1 DEF Edits
    <3>2. CASE x \in Outdated(others, kind)
      <4>1. kind # "config" /\ settings' = settings
        BY <1>4, <2>1, <3>2
      <4>2. PICK y \in others : Same(x, y) /\ x.st = y.st /\ x.val = y.val /\ (x.fresh = y.fresh \/ ~x.fresh)
        BY <2>1, <3>2
      <4>3. y.kind = "config" /\ y.st = "done" /\ y.fresh
        BY <4>2 DEF Same
      <4> QED
        BY <4>1, <4>2, <4>3 DEF PageInv, AnswersAreNews
    <3> QED
      BY <1>4, <3>1, <3>2
  <2>5. FormIsKept'
    <3>1. CASE r.op = "save"
      <4>1. q \in out' /\ q.op = "save" /\ q.st = "done"
        BY <1>4, <3>1 DEF Same
      <4> QED
        BY <4>1 DEF FormIsKept
    <3>2. CASE settings' = settings
      <4>1. ASSUME NEW y \in out, y.op = "save", y.st = "done"
            PROVE  \E x \in out' : x.op = "save" /\ x.st = "done"
        <5>1. y \in others
          BY <1>1, <4>1
        <5>2. PICK x \in Outdated(others, kind) : Same(x, y) /\ x.st = y.st
          BY <2>2, <5>1
        <5> QED
          BY <1>4, <4>1, <5>2 DEF Same
      <4> QED
        BY <1>1, <3>2, <4>1 DEF PageInv, FormIsKept
    <3> QED
      BY <1>4, <3>1, <3>2
  <2> QED
    BY <1>1, <2>3, <2>4, <2>5, RelabelStep, ShownStays
<1> QED
  BY <1>3, <1>4, ServeCases

(* What is forgotten is only that the rows, or the settings, are fresh.      *)
LEMMA ForgetOK ==
    ASSUME PageInv, NEW kind, Forget(kind)
    PROVE  /\ DOMAIN table' = Kinds
           /\ \A k \in Kinds : /\ DOMAIN table'[k] = DOMAIN table[k] /\ table'[k].n = table[k].n
                               /\ table'[k].by = table[k].by /\ table'[k].view = table[k].view
           /\ DOMAIN form' = {"val", "typed", "fresh"}
           /\ IF kind = "config" THEN ~form'.fresh ELSE form' = form
<1>1. table' = IF kind \in Kinds THEN [table EXCEPT ![kind].fresh = FALSE] ELSE table
  BY DEF Forget
<1>2. form' = IF kind = "config" THEN [form EXCEPT !.fresh = FALSE] ELSE form
  BY DEF Forget
<1>3. /\ DOMAIN table = Kinds /\ DOMAIN form = {"val", "typed", "fresh"}
      /\ \A k \in Kinds : DOMAIN table[k] = {"rows", "total", "n", "by", "view", "fresh"}
  BY DEF PageInv, Shapes
<1>4. /\ DOMAIN table' = Kinds
      /\ \A k \in Kinds : /\ DOMAIN table'[k] = DOMAIN table[k] /\ table'[k].n = table[k].n
                          /\ table'[k].by = table[k].by /\ table'[k].view = table[k].view
  <2>1. CASE kind \in Kinds
    <3>1. table' = [table EXCEPT ![kind].fresh = FALSE]
      BY <1>1, <2>1
    <3> QED
      BY <1>3, <2>1, <3>1, Zenon
  <2>2. CASE kind \notin Kinds
    BY <1>1, <1>3, <2>2
  <2> QED
    BY <2>1, <2>2
<1>5. DOMAIN form' = {"val", "typed", "fresh"} /\ IF kind = "config" THEN ~form'.fresh ELSE form' = form
  <2>1. CASE kind = "config"
    <3>1. form' = [form EXCEPT !.fresh = FALSE]
      BY <1>2, <2>1
    <3>2. DOMAIN form' = {"val", "typed", "fresh"} /\ ~form'.fresh
      BY <1>3, <3>1, Zenon
    <3> QED
      BY <2>1, <3>2
  <2>2. CASE kind # "config"
    BY <1>2, <1>3, <2>2
  <2> QED
    BY <2>1, <2>2
<1> QED
  BY <1>4, <1>5
(* A request is refused, an answer lost, the rows changed elsewhere. *)
LEMMA MisfortuneStep ==
    ASSUME PageInv, Misfortune
    PROVE  PageInv'
<1>1. UNCHANGED <<sends, asked, view, settings>>
  BY DEF Misfortune, Refuse, Lose, Elsewhere, page, server
<1>2. \A x \in out : Whole(x) /\ (x.kind = "config" <=> x.op \in {"config", "save"})
  BY DEF PageInv, Shapes, Kept
<1>3. ASSUME NEW r \in out, Refuse(r) \/ Lose(r)
      PROVE  PageInv'
  <2> DEFINE q == [r EXCEPT !.st = "failed"]
  <2>0. Whole(r)
    BY <1>2
  <2>1. Whole(q) /\ Same(q, r) /\ q.st = "failed"
    BY <2>0, EditedRequest, ZenonT(30)
  <2>2. out' = (out \ {r}) \cup {q}
    BY <1>3, Zenon DEF Refuse, Lose
  <2> HIDE DEF q
  <2>3. \A x \in out' : Whole(x) /\ \E y \in out : Same(x, y)
    BY <1>2, <2>1, <2>2 DEF Same
  <2>4. AnswersAreNews'
    BY <1>1, <2>1, <2>2 DEF PageInv, AnswersAreNews
  <2>5. /\ DOMAIN table' = Kinds
        /\ \A k \in Kinds : /\ DOMAIN table'[k] = DOMAIN table[k] /\ table'[k].n = table[k].n
                            /\ table'[k].by = table[k].by /\ table'[k].view = table[k].view
        /\ DOMAIN form' = {"val", "typed", "fresh"}
        /\ ~form'.fresh \/ (form' = form /\ ~(r.op = "save" /\ r.st = "done"))
    <3>1. CASE Refuse(r)
      <4>1. UNCHANGED <<table, form>> /\ r.st = "sent"
        BY <3>1 DEF Refuse, page
      <4> QED
        BY <4>1, ShownStays
    <3>2. CASE Lose(r) /\ r.op \in Edits \cup {"save"}
      <4>1. Forget(r.kind)
        BY <3>2 DEF Lose
      <4>2. r.op = "save" => r.kind = "config"
        BY <1>2
      <4> QED
        BY <4>1, <4>2, ForgetOK
    <3>3. CASE Lose(r) /\ r.op \notin Edits \cup {"save"}
      <4>1. UNCHANGED <<table, form>>
        BY <3>3 DEF Lose
      <4> QED
        BY <3>3, <4>1, ShownStays
    <3> QED
      BY <1>3, <3>1, <3>2, <3>3
  <2>6. FormIsKept'
    BY <1>1, <2>2, <2>5 DEF PageInv, FormIsKept
  <2> QED
    BY <1>1, <2>3, <2>4, <2>5, <2>6, RelabelStep
<1>4. ASSUME NEW k \in Kinds, NEW i \in Ids, Elsewhere(k, i)
      PROVE  PageInv'
  <2>1. out' = Outdated(out, k) /\ Forget(k) /\ k # "config"
    BY <1>4 DEF Elsewhere, Kinds
  <2>2. \A x \in Outdated(out, k) :
           /\ Whole(x)
           /\ \E y \in out : /\ Same(x, y) /\ x.st = y.st /\ x.val = y.val
                             /\ x.fresh = y.fresh \/ ~x.fresh
    BY <1>2, OutdatedOK
  <2>3. \A y \in out : \E x \in Outdated(out, k) : Same(x, y) /\ x.st = y.st
    BY <1>2, OutdatedHas
  <2>4. \A x \in out' : Whole(x) /\ \E y \in out : Same(x, y)
    BY <2>1, <2>2
  <2>5. AnswersAreNews'
    <3> SUFFICES ASSUME NEW x \in out', x.kind = "config", x.st = "done", x.fresh
                 PROVE  x.val = settings
      BY <1>1 DEF AnswersAreNews
    <3>1. PICK y \in out : Same(x, y) /\ x.st = y.st /\ x.val = y.val /\ (x.fresh = y.fresh \/ ~x.fresh)
      BY <2>1, <2>2
    <3>2. y.kind = "config" /\ y.st = "done" /\ y.fresh
      BY <3>1 DEF Same
    <3> QED
      BY <3>1, <3>2 DEF PageInv, AnswersAreNews
  <2>6. FormIsKept'
    <3>1. form' = form
      BY <2>1, ForgetOK
    <3>2. (\E y \in out : y.op = "save" /\ y.st = "done") => \E x \in out' : x.op = "save" /\ x.st = "done"
      BY <2>1, <2>3 DEF Same
    <3> QED
      BY <1>1, <3>1, <3>2 DEF PageInv, FormIsKept
  <2> QED
    BY <1>1, <2>1, <2>4, <2>5, <2>6, ForgetOK, RelabelStep
<1> QED
  BY <1>3, <1>4 DEF Misfortune

------------------------------------------------------------------------------
(* Answers.                                                                  *)

(* An answer that changes neither the tables' origin nor the form, and is    *)
(* not that of a save.                                                       *)
LEMMA QuietAnswerStep ==
    ASSUME PageInv, NEW r \in out, out' = out \ {r}, ~(r.op = "save" /\ r.st = "done"),
           UNCHANGED <<sends, asked, view, form, settings>>,
           DOMAIN table' = Kinds,
           \A k \in Kinds : /\ DOMAIN table'[k] = DOMAIN table[k] /\ table'[k].n = table[k].n
                            /\ table'[k].by = table[k].by /\ table'[k].view = table[k].view
    PROVE  PageInv'
<1>1. \A x \in out' : Whole(x) /\ \E y \in out : Same(x, y)
  BY DEF PageInv, Shapes, Kept, Same
<1>2. AnswersAreNews' /\ FormIsKept'
  BY DEF PageInv, AnswersAreNews, FormIsKept
<1>3. DOMAIN form' = {"val", "typed", "fresh"}
  BY DEF PageInv, Shapes
<1> QED
  BY <1>1, <1>2, <1>3, RelabelStep

(* The answers that are. *)
LEMMA PlainAnswerStep ==
    ASSUME PageInv, NEW r \in out,
           \/ ConfigFails(r) \/ RowsFail(r) \/ ToggleArrives(r) \/ PasswordArrives(r) \/ EditFails(r)
    PROVE  PageInv'
<1>1. /\ out' = out \ {r} /\ ~(r.op = "save" /\ r.st = "done")
      /\ UNCHANGED <<sends, asked, view, form, settings>>
  BY DEF ConfigFails, RowsFail, ToggleArrives, PasswordArrives, EditFails, Arrived, Received, page, server
<1>2. CASE ToggleArrives(r)
  <2>1. /\ DOMAIN table = Kinds
        /\ \A k \in Kinds : DOMAIN table[k] = {"rows", "total", "n", "by", "view", "fresh"}
    BY DEF PageInv, Shapes
  <2>2. PICK F, G : table' = [table EXCEPT ![r.kind].rows = F, ![r.kind].fresh = G]
    BY <1>2, Zenon DEF ToggleArrives
  <2>3. /\ DOMAIN table' = Kinds
        /\ \A k \in Kinds : /\ DOMAIN table'[k] = DOMAIN table[k] /\ table'[k].n = table[k].n
                            /\ table'[k].by = table[k].by /\ table'[k].view = table[k].view
    BY <2>1, <2>2, Zenon
  <2> QED
    BY <1>1, <2>3, QuietAnswerStep
<1>3. CASE ConfigFails(r) \/ RowsFail(r) \/ PasswordArrives(r) \/ EditFails(r)
  <2>1. table' = table
    BY <1>3 DEF ConfigFails, RowsFail, PasswordArrives, EditFails, page
  <2> QED
    BY <1>1, <2>1, ShownStays, QuietAnswerStep
<1> QED
  BY <1>2, <1>3
(* The rows arrive: with them, who asked for them and what for.              *)
LEMMA RowsArriveStep ==
    ASSUME PageInv, NEW r \in out, RowsArrive(r)
    PROVE  PageInv'
<1>1. /\ out' = out \ {r} /\ r.op = "rows"
      /\ UNCHANGED <<sends, asked, view, form, settings>>
  BY DEF RowsArrive, Arrived, Received, server
<1>2. Kept(r) /\ DOMAIN table = Kinds
      /\ \A k \in Kinds : DOMAIN table[k] = {"rows", "total", "n", "by", "view", "fresh"}
                          /\ table[k].n \in 0 .. sends
  BY DEF PageInv, Shapes
<1>3. \A k \in Kinds :
        table'[k] = IF k = r.kind
                    THEN [rows |-> r.ans.rows, total |-> r.ans.total, n |-> r.n, by |-> r.by,
                          view |-> r.view, fresh |-> r.fresh]
                    ELSE table[k]
  BY <1>2 DEF RowsArrive
<1>4. DOMAIN table' = Kinds
  BY <1>2 DEF RowsArrive
<1>5. \A k \in Kinds : DOMAIN table'[k] = {"rows", "total", "n", "by", "view", "fresh"}
                       /\ table'[k].n \in 0 .. sends
  BY <1>2, <1>3 DEF Kept
<1>6. \A x \in out' : Whole(x) /\ \E y \in out : Same(x, y)
  BY <1>1 DEF PageInv, Shapes, Kept, Same
<1>7. Shapes'
  BY <1>1, <1>4, <1>5, <1>6, RelabelShapes DEF PageInv, Shapes
<1>8. ASSUME NEW k \in Kinds, table'[k].n = asked'[k], table'[k].by = "effect"
      PROVE  table'[k].view = view'[k]
  BY <1>1, <1>3, <1>8 DEF PageInv, EffectsFollowTheControls
<1>9. EffectsFollowTheControls'
  BY <1>1, <1>6, <1>8, RelabelShapes DEF EffectsFollowTheControls
<1>10. AnswersAreNews' /\ FormIsKept'
  BY <1>1 DEF PageInv, AnswersAreNews, FormIsKept
<1> QED
  BY <1>7, <1>9, <1>10 DEF PageInv

(* A row was added or deleted, and the handler asks for the rows again.      *)
LEMMA EditArrivesStep ==
    ASSUME PageInv, NEW r \in out, EditArrives(r)
    PROVE  PageInv'
<1> DEFINE new == GetRows(sends + 1, r.kind, r.view, "handler")
<1>1. /\ Whole(new) /\ new.n = sends + 1 /\ new.op = "rows" /\ new.kind = r.kind
      /\ new.st = "sent" /\ new.by = "handler"
  BY NewRequest DEF GetRows
<1>2. /\ out' = (out \ {r}) \cup {new} /\ sends' = sends + 1
      /\ asked' = [asked EXCEPT ![r.kind] = sends + 1]
      /\ r.op \in {"add", "delete", "import"}
      /\ UNCHANGED <<view, table, form, settings>>
  BY DEF EditArrives, Arrived, server
<1> HIDE DEF new
<1>3. sends \in Nat /\ asked \in [Kinds -> 0 .. sends] /\ \A q \in out : Kept(q)
  BY DEF PageInv, Shapes
<1>4. 0 .. sends \subseteq 0 .. sends' /\ sends' \in Nat /\ sends + 1 \in 0 .. sends'
  BY <1>2, <1>3
<1>5. r.kind # "config"
  BY <1>2, <1>3 DEF Kept
<1>6. \A q \in out' : Kept(q)'
  BY <1>1, <1>2, <1>3, <1>4, <1>5 DEF Kept, Whole
<1>7. asked' \in [Kinds -> 0 .. sends'] /\ \A k \in Kinds : asked'[k] = IF k = r.kind THEN sends + 1 ELSE asked[k]
  BY <1>2, <1>3, <1>4
<1>8. Shapes'
  BY <1>2, <1>4, <1>6, <1>7 DEF PageInv, Shapes
<1>9. ASSUME NEW k \in Kinds, NEW q \in out', q.n = asked'[k], q.by = "effect"
      PROVE  q.view = view'[k]
  <2>1. q \in out
    BY <1>1, <1>2, <1>9
  <2>2. q.n \in 0 .. sends
    BY <1>3, <2>1 DEF Kept
  <2>3. asked'[k] = asked[k]
    BY <1>3, <1>7, <1>9, <2>2
  <2> QED
    BY <1>2, <1>9, <2>1, <2>3 DEF PageInv, EffectsFollowTheControls
<1>10. ASSUME NEW k \in Kinds, table'[k].n = asked'[k], table'[k].by = "effect"
       PROVE  table'[k].view = view'[k]
  <2>1. table[k].n \in 0 .. sends
    BY DEF PageInv, Shapes
  <2>2. asked'[k] = asked[k]
    BY <1>2, <1>3, <1>7, <1>10, <2>1
  <2> QED
    BY <1>2, <1>10, <2>2 DEF PageInv, EffectsFollowTheControls
<1>11. EffectsFollowTheControls'
  BY <1>9, <1>10 DEF EffectsFollowTheControls
<1>12. AnswersAreNews' /\ FormIsKept'
  BY <1>1, <1>2 DEF PageInv, AnswersAreNews, FormIsKept
<1> QED
  BY <1>8, <1>11, <1>12 DEF PageInv

(* The settings were saved; the form takes those of the answer.              *)
LEMMA SaveArrivesStep ==
    ASSUME PageInv, NEW r \in out, SaveArrives(r)
    PROVE  PageInv'
<1>1. /\ out' = out \ {r} /\ r.op = "save" /\ r.st = "done"
      /\ form' = [val |-> r.val, typed |-> FALSE, fresh |-> r.fresh]
      /\ UNCHANGED <<sends, asked, view, table, settings>>
  BY DEF SaveArrives, Arrived, Received, server
<1>2. r.kind = "config"
  BY <1>1 DEF PageInv, Shapes, Kept
<1>3. DOMAIN form' = {"val", "typed", "fresh"}
  BY <1>1
<1>4. FormIsKept'
  BY <1>1, <1>2 DEF PageInv, AnswersAreNews, FormIsKept
<1>5. AnswersAreNews'
  BY <1>1 DEF PageInv, AnswersAreNews
<1>6. \A x \in out' : Whole(x) /\ \E y \in out : Same(x, y)
  BY <1>1 DEF PageInv, Shapes, Kept, Same
<1>7. /\ DOMAIN table' = Kinds
      /\ \A k \in Kinds : /\ DOMAIN table'[k] = DOMAIN table[k] /\ table'[k].n = table[k].n
                          /\ table'[k].by = table[k].by /\ table'[k].view = table[k].view
  BY <1>1 DEF PageInv, Shapes
<1> QED
  BY <1>1, <1>3, <1>4, <1>5, <1>6, <1>7, RelabelStep

(* loadAll has the settings, and asks for the first pages; the effects of a  *)
(* new connection ask for the current ones, and theirs are newer.            *)
LEMMA ConfigArrivesStep ==
    ASSUME PageInv, NEW r \in out, ConfigArrives(r)
    PROVE  PageInv'
<1> DEFINE d1 == LoadDomains(sends + 1, First, "all")
           r1 == LoadRecords(sends + 2, First, "all")
           d2 == LoadDomains(sends + 3, view["domains"], "effect")
           r2 == LoadRecords(sends + 4, view["records"], "effect")
           new == {q \in IF connected = "yes" THEN {d1, r1} ELSE {d1, r1} \cup {d2, r2} : q.kind \in kinds}
<1>1. /\ Whole(d1) /\ d1.n = sends + 1 /\ d1.op = "rows" /\ d1.kind = "domains" /\ d1.st = "sent" /\ d1.by = "all"
      /\ Whole(r1) /\ r1.n = sends + 2 /\ r1.op = "rows" /\ r1.kind = "records" /\ r1.st = "sent" /\ r1.by = "all"
  BY NewRequest DEF LoadDomains, LoadRecords, GetRows
<1>2. /\ Whole(d2) /\ d2.n = sends + 3 /\ d2.op = "rows" /\ d2.kind = "domains" /\ d2.st = "sent"
      /\ d2.by = "effect" /\ d2.view = view["domains"]
      /\ Whole(r2) /\ r2.n = sends + 4 /\ r2.op = "rows" /\ r2.kind = "records" /\ r2.st = "sent"
      /\ r2.by = "effect" /\ r2.view = view["records"]
  BY NewRequest DEF LoadDomains, LoadRecords, GetRows
<1>3. /\ out' = (out \ {r}) \cup new /\ sends' = sends + 4
      /\ asked' = [k \in Kinds |->
                     IF k \notin kinds THEN asked[k]
                     ELSE (IF k = "domains" THEN 1 ELSE 2) + (IF connected = "yes" THEN sends ELSE sends + 2)]
      /\ r.op = "config" /\ r.st = "done"
      /\ form' = [val |-> r.val, typed |-> FALSE, fresh |-> r.fresh]
      /\ UNCHANGED <<view, table, settings>>
  BY DEF ConfigArrives, Arrived, server
<1> HIDE DEF d1, r1, d2, r2
<1>4. /\ sends \in Nat /\ asked \in [Kinds -> 0 .. sends] /\ (\A q \in out : Kept(q))
      /\ \A k \in Kinds : table[k].n \in 0 .. sends
  BY DEF PageInv, Shapes
<1>5. /\ \A q \in new : q \in {d1, r1, d2, r2} /\ q.kind \in kinds
      /\ connected = "yes" => \A q \in new : q \in {d1, r1}
  OBVIOUS
<1> HIDE DEF new
<1>6. 0 .. sends \subseteq 0 .. sends' /\ sends' \in Nat /\ \A j \in {1, 2, 3, 4} : sends + j \in 0 .. sends'
  BY <1>3, <1>4
<1>7. \A q \in out' : Kept(q)'
  <2>1. \A q \in out : q \in out' => Kept(q)'
    BY <1>4, <1>6 DEF Kept, Whole
  <2>2. \A q \in new : Kept(q)'
    BY <1>1, <1>2, <1>5, <1>6 DEF Kept, Whole
  <2> QED
    BY <1>3, <2>1, <2>2
<1>8. \A k \in Kinds : IF k \notin kinds THEN asked'[k] = asked[k]
                       ELSE asked'[k] = (IF k = "domains" THEN 1 ELSE 2) + (IF connected = "yes" THEN sends ELSE sends + 2)
  BY <1>3
<1>9. asked' \in [Kinds -> 0 .. sends']
  <2>1. \A k \in Kinds : asked'[k] \in 0 .. sends'
    BY <1>3, <1>4, <1>8
  <2> QED
    BY <1>3, <2>1
<1>10. DOMAIN form' = {"val", "typed", "fresh"}
  BY <1>3
<1>11. Shapes'
  BY <1>3, <1>4, <1>6, <1>7, <1>9, <1>10 DEF PageInv, Shapes
<1>12. ASSUME NEW k \in Kinds, NEW q \in out', q.n = asked'[k], q.by = "effect"
       PROVE  q.view = view'[k]
  <2>1. CASE q \in out
    <3>1. q.n \in 0 .. sends
      BY <1>4, <2>1 DEF Kept
    <3>2. asked'[k] = asked[k]
      BY <1>4, <1>8, <1>12, <3>1
    <3> QED
      BY <1>3, <1>12, <2>1, <3>2 DEF PageInv, EffectsFollowTheControls
  <2>2. CASE q \in new
    <3>1. (q = d2 \/ q = r2) /\ connected # "yes"
      BY <1>1, <1>5, <1>12, <2>2
    <3>2. q.n > sends
      BY <1>2, <1>4, <3>1
    <3>3. asked[k] \in 0 .. sends
      BY <1>4
    <3>4. k \in kinds
      BY <1>4, <1>8, <1>12, <3>2, <3>3
    <3>5. asked'[k] = (IF k = "domains" THEN 1 ELSE 2) + (sends + 2)
      BY <1>8, <3>1, <3>4
    <3>6. k = "domains" \/ k = "records"
      BY DEF Kinds
    <3>7. CASE q = d2
      <4>1. k = "domains"
        BY <1>2, <1>4, <1>12, <3>5, <3>7
      <4> QED
        BY <1>2, <1>3, <3>7, <4>1
    <3>8. CASE q = r2
      <4>1. k = "records"
        BY <1>2, <1>4, <1>12, <3>5, <3>6, <3>8
      <4> QED
        BY <1>2, <1>3, <3>8, <4>1
    <3> QED
      BY <3>1, <3>7, <3>8
  <2> QED
    BY <1>3, <2>1, <2>2
<1>13. ASSUME NEW k \in Kinds, table'[k].n = asked'[k], table'[k].by = "effect"
       PROVE  table'[k].view = view'[k]
  <2>1. asked'[k] = asked[k]
    BY <1>3, <1>4, <1>8, <1>13
  <2> QED
    BY <1>3, <1>13, <2>1 DEF PageInv, EffectsFollowTheControls
<1>14. EffectsFollowTheControls'
  BY <1>12, <1>13 DEF EffectsFollowTheControls
<1>15. AnswersAreNews' /\ FormIsKept'
  <2>1. r.kind = "config"
    BY <1>3, <1>4 DEF Kept
  <2>2. r.fresh => r.val = settings
    BY <1>3, <2>1 DEF PageInv, AnswersAreNews
  <2>3. \A q \in new : q.kind # "config"
    BY <1>1, <1>2, <1>5
  <2> QED
    BY <1>3, <2>2, <2>3 DEF PageInv, AnswersAreNews, FormIsKept
<1> QED
  BY <1>11, <1>14, <1>15 DEF PageInv

------------------------------------------------------------------------------
(* The bound on requests: what is out now will be followed by at most four   *)
(* requests for each reading of the settings, and one for each edit.         *)

ConfigNs == {q.n : q \in {x \in out : x.op = "config"}}
EditNs == {q.n : q \in {x \in out : x.op \in {"add", "delete", "import"}}}
Distinct == \A q, r \in out : q.n = r.n => q = r
Paid == sends + 4 * Cardinality(ConfigNs) + Cardinality(EditNs) <= 5 + 6 * acts

CountInv == PageInv /\ acts \in Nat /\ Distinct /\ Paid

(* The numbers of requests are finitely many. *)
LEMMA FinitelyMany ==
    ASSUME PageInv
    PROVE  /\ IsFiniteSet(ConfigNs) /\ Cardinality(ConfigNs) \in Nat
           /\ IsFiniteSet(EditNs) /\ Cardinality(EditNs) \in Nat
<1>1. sends \in Nat /\ \A q \in out : q.n \in 0 .. sends
  BY DEF PageInv, Shapes, Kept
<1>2. IsFiniteSet(0 .. sends)
  BY <1>1, FS_Interval
<1>3. ConfigNs \in SUBSET (0 .. sends) /\ EditNs \in SUBSET (0 .. sends)
  BY <1>1 DEF ConfigNs, EditNs
<1>4. IsFiniteSet(ConfigNs) /\ IsFiniteSet(EditNs)
  BY <1>2, <1>3, FS_Subset
<1> QED
  BY <1>4, FS_CardinalityType

(* They are after a step. *)
LEMMA FinitelyManyNext ==
    ASSUME PageInv'
    PROVE  Cardinality(ConfigNs)' \in Nat /\ Cardinality(EditNs)' \in Nat
<1>1. sends' \in Nat /\ \A q \in out' : q.n \in 0 .. sends'
  BY DEF PageInv, Shapes, Kept
<1>2. IsFiniteSet(0 .. sends')
  BY <1>1, FS_Interval
<1>3. ConfigNs' \in SUBSET (0 .. sends') /\ EditNs' \in SUBSET (0 .. sends')
  BY <1>1 DEF ConfigNs, EditNs
<1>4. IsFiniteSet(ConfigNs') /\ IsFiniteSet(EditNs')
  BY <1>2, <1>3, FS_Subset
<1> QED
  BY <1>4, FS_CardinalityType

(* How many there are of a set that gains or loses an element. *)
LEMMA Counts ==
    ASSUME NEW S, NEW T, IsFiniteSet(S), Cardinality(S) \in Nat, Cardinality(T) \in Nat, NEW x
    PROVE  /\ T \subseteq S => Cardinality(T) <= Cardinality(S)
           /\ T \subseteq S \cup {x} => Cardinality(T) <= Cardinality(S) + 1
           /\ x \in S /\ T \subseteq S \ {x} => Cardinality(T) <= Cardinality(S) - 1
<1>1. ASSUME T \subseteq S
      PROVE  Cardinality(T) <= Cardinality(S)
  BY <1>1, FS_Subset
<1>2. ASSUME T \subseteq S \cup {x}
      PROVE  Cardinality(T) <= Cardinality(S) + 1
  <2>1. IsFiniteSet(S \cup {x}) /\ Cardinality(S \cup {x}) =
            IF x \in S THEN Cardinality(S) ELSE Cardinality(S) + 1
    BY FS_AddElement
  <2>2. Cardinality(T) <= Cardinality(S \cup {x})
    BY <1>2, <2>1, FS_Subset
  <2> QED
    BY <2>1, <2>2
<1>3. ASSUME x \in S, T \subseteq S \ {x}
      PROVE  Cardinality(T) <= Cardinality(S) - 1
  <2>1. IsFiniteSet(S \ {x}) /\ Cardinality(S \ {x}) =
            IF x \in S THEN Cardinality(S) - 1 ELSE Cardinality(S)
    BY FS_RemoveElement
  <2>2. Cardinality(T) <= Cardinality(S \ {x})
    BY <1>3, <2>1, FS_Subset
  <2> QED
    BY <1>3, <2>1, <2>2
<1> QED
  BY <1>1, <1>2, <1>3

(* The user pays: an act sends at most two requests, and one of the settings *)
(* or one edit among them.                                                   *)
LEMMA ActCount ==
    ASSUME CountInv, PageInv', acts' = acts + 1,
           sends' \in {sends, sends + 1, sends + 2},
           ConfigNs' \subseteq ConfigNs \cup {sends + 1},
           EditNs' \subseteq EditNs \cup {sends + 1}, sends' = sends + 2 => EditNs' \subseteq EditNs
    PROVE  Paid'
<1>1. /\ IsFiniteSet(ConfigNs) /\ Cardinality(ConfigNs) \in Nat
      /\ IsFiniteSet(EditNs) /\ Cardinality(EditNs) \in Nat
  BY FinitelyMany DEF CountInv
<1>2. Cardinality(ConfigNs)' \in Nat /\ Cardinality(EditNs)' \in Nat
  BY FinitelyManyNext
<1>3. Cardinality(ConfigNs)' <= Cardinality(ConfigNs) + 1
  BY <1>1, <1>2, Counts
<1>4. /\ Cardinality(EditNs)' <= Cardinality(EditNs) + 1
      /\ sends' = sends + 2 => Cardinality(EditNs)' <= Cardinality(EditNs)
  BY <1>1, <1>2, Counts
<1>5. sends \in Nat /\ acts \in Nat
  BY DEF CountInv, PageInv, Shapes
<1> QED
  BY <1>1, <1>2, <1>3, <1>4, <1>5 DEF CountInv, Paid
(* What is on its way costs nothing until it arrives.                        *)
LEMMA RelabelCount ==
    ASSUME CountInv, PageInv', UNCHANGED <<sends, acts>>,
           \A q \in out' : \E r \in out : Same(q, r)
    PROVE  Paid'
<1>1. ConfigNs' \subseteq ConfigNs /\ EditNs' \subseteq EditNs
  BY DEF ConfigNs, EditNs, Same
<1>2. /\ IsFiniteSet(ConfigNs) /\ Cardinality(ConfigNs) \in Nat
      /\ IsFiniteSet(EditNs) /\ Cardinality(EditNs) \in Nat
      /\ Cardinality(ConfigNs)' \in Nat /\ Cardinality(EditNs)' \in Nat
  BY FinitelyMany, FinitelyManyNext DEF CountInv
<1>3. Cardinality(ConfigNs)' <= Cardinality(ConfigNs) /\ Cardinality(EditNs)' <= Cardinality(EditNs)
  BY <1>1, <1>2, Counts
<1>4. sends \in Nat /\ acts \in Nat
  BY DEF CountInv, PageInv, Shapes
<1> QED
  BY <1>2, <1>3, <1>4 DEF CountInv, Paid

(* An arriving answer pays for the requests its handler sends.               *)
LEMMA ArriveCount ==
    ASSUME CountInv, PageInv', NEW r \in out, NEW new, out' = (out \ {r}) \cup new,
           acts' = acts, \A q \in new : q.op = "rows" /\ q.n > sends,
           \/ sends' = sends
           \/ r.op = "config" /\ sends' = sends + 4
           \/ r.op \in {"add", "delete", "import"} /\ sends' = sends + 1
    PROVE  Paid'
<1>1. ConfigNs' \subseteq ConfigNs /\ EditNs' \subseteq EditNs
  BY DEF ConfigNs, EditNs
<1>2. /\ IsFiniteSet(ConfigNs) /\ Cardinality(ConfigNs) \in Nat
      /\ IsFiniteSet(EditNs) /\ Cardinality(EditNs) \in Nat
      /\ Cardinality(ConfigNs)' \in Nat /\ Cardinality(EditNs)' \in Nat
  BY FinitelyMany, FinitelyManyNext DEF CountInv
<1>3. Cardinality(ConfigNs)' <= Cardinality(ConfigNs) /\ Cardinality(EditNs)' <= Cardinality(EditNs)
  BY <1>1, <1>2, Counts
<1>4. r.op = "config" => Cardinality(ConfigNs)' <= Cardinality(ConfigNs) - 1
  <2>1. r.op = "config" => r.n \in ConfigNs /\ ConfigNs' \subseteq ConfigNs \ {r.n}
    BY DEF CountInv, Distinct, ConfigNs
  <2> QED
    BY <1>2, <2>1, Counts
<1>5. r.op \in {"add", "delete", "import"} => Cardinality(EditNs)' <= Cardinality(EditNs) - 1
  <2>1. r.op \in {"add", "delete", "import"} => r.n \in EditNs /\ EditNs' \subseteq EditNs \ {r.n}
    BY DEF CountInv, Distinct, EditNs
  <2> QED
    BY <1>2, <2>1, Counts
<1>6. sends \in Nat /\ acts \in Nat
  BY DEF CountInv, PageInv, Shapes
<1> QED
  BY <1>2, <1>3, <1>4, <1>5, <1>6 DEF CountInv, Paid
(* The other acts that send anything send one request. *)
LEMMA AskSends ==
    ASSUME PageInv, Editing \/ Asking
    PROVE  \E r : r.n = sends + 1 /\ out' = out \cup {r} /\ sends' = sends + 1 /\ acts' = acts + 1
<1>1. PICK r : r.n = sends + 1 /\ r.op # "rows" /\ Send({r}) /\ acts' = acts + 1
  <2>1. CASE Editing
    <3>1. PICK op, k, v, row : /\ op \notin {"rows", "config", "save"}
                               /\ Starts(Edit(sends + 1, op, k, v, row))
      BY <2>1, Zenon DEF Editing
    <3> DEFINE r == Edit(sends + 1, op, k, v, row)
    <3>2. r.n = sends + 1 /\ r.op = op
      BY NewRequest DEF Edit
    <3>3. Send({r}) /\ acts' = acts + 1
      BY <3>1 DEF Starts, Acts
    <3> HIDE DEF r
    <3> QED
      BY <3>1, <3>2, <3>3
  <2>2. CASE Asking
    <3>1. PICK r : /\ r \in {GetConfig(sends + 1), PutConfig(sends + 1, form.val), ChangePassword(sends + 1)}
                   /\ Send({r})
      BY <2>2, Zenon DEF Asking, Refresh, SaveDNS, HandleChangePw, Starts
    <3>2. r.n = sends + 1 /\ r.op # "rows"
      BY <3>1, NewRequest DEF GetConfig, PutConfig, ChangePassword
    <3>3. acts' = acts + 1
      BY <2>2 DEF Asking, Refresh, SaveDNS, HandleChangePw, Starts, Acts
    <3> QED
      BY <3>1, <3>2, <3>3
  <2> QED
    BY <2>1, <2>2
<1>2. asked \in [Kinds -> 0 .. sends]
  BY DEF PageInv, Shapes
<1> QED
  BY <1>1, <1>2, SendOne

(* The user keeps the bound. *)
LEMMA UserCount ==
    ASSUME CountInv, User, PageInv'
    PROVE  CountInv'
<1>1. sends \in Nat /\ acts \in Nat /\ (\A q \in out : q.n \in 0 .. sends) /\ Distinct
  BY DEF CountInv, PageInv, Shapes, Kept
<1>2. CASE Looking
  <2>1. PICK k, v : k \in Kinds /\ ChangeView(k, v)
    BY <1>2 DEF Looking
  <2>2. PICK all, mine : /\ all.n = sends + 1 /\ all.op = "config" /\ mine.n = sends + 2 /\ mine.op = "rows"
                         /\ out' = out \cup {all, mine} /\ sends' = sends + 2 /\ acts' = acts + 1
    BY <1>1, <2>1, LookSends
  <2>3. ConfigNs' \subseteq ConfigNs \cup {sends + 1} /\ EditNs' \subseteq EditNs
    BY <2>2 DEF ConfigNs, EditNs
  <2>4. Distinct'
    BY <1>1, <2>2 DEF Distinct
  <2>5. Paid'
    BY <2>2, <2>3, ActCount
  <2> QED
    BY <1>1, <2>2, <2>4, <2>5 DEF CountInv
<1>3. CASE Editing \/ Asking
  <2>1. PICK r : r.n = sends + 1 /\ out' = out \cup {r} /\ sends' = sends + 1 /\ acts' = acts + 1
    BY <1>3, AskSends DEF CountInv
  <2>2. ConfigNs' \subseteq ConfigNs \cup {sends + 1} /\ EditNs' \subseteq EditNs \cup {sends + 1}
    BY <2>1 DEF ConfigNs, EditNs
  <2>3. Distinct'
    BY <1>1, <2>1 DEF Distinct
  <2>4. Paid'
    BY <1>1, <2>1, <2>2, ActCount
  <2> QED
    BY <1>1, <2>1, <2>3, <2>4 DEF CountInv
<1>4. CASE Typing
  <2>1. UNCHANGED <<out, sends>> /\ acts' = acts + 1
    BY <1>4 DEF Typing, SelectAll, SelectOne, EditDNS, Acts, net
  <2>2. ConfigNs' \subseteq ConfigNs \cup {sends + 1} /\ EditNs' \subseteq EditNs
    BY <2>1 DEF ConfigNs, EditNs
  <2>3. Distinct'
    BY <1>1, <2>1 DEF Distinct
  <2>4. Paid'
    BY <1>1, <2>1, <2>2, ActCount
  <2> QED
    BY <1>1, <2>1, <2>3, <2>4 DEF CountInv
<1> QED
  BY <1>2, <1>3, <1>4, UserCases
(* Marked answers are as distinct as they were. *)
LEMMA OutdatedDistinct ==
    ASSUME NEW S, \A r \in S : Whole(r), \A q, r \in S : q.n = r.n => q = r, NEW kind
    PROVE  \A q, r \in Outdated(S, kind) : q.n = r.n => q = r
<1> DEFINE Marked(y) == IF y.kind = kind /\ y.st = "done" THEN [y EXCEPT !.fresh = FALSE] ELSE y
<1>1. ASSUME NEW y \in S
      PROVE  Marked(y).n = y.n
  <2>1. [y EXCEPT !.fresh = FALSE].n = y.n
    BY Zenon DEF Whole, Fields
  <2> QED
    BY <2>1, Zenon
<1>2. ASSUME NEW q \in Outdated(S, kind)
      PROVE  \E y \in S : q = Marked(y)
  BY <1>2, Zenon DEF Outdated
<1> HIDE DEF Marked
<1> TAKE q, r \in Outdated(S, kind)
<1>3. PICK y \in S : q = Marked(y)
  BY <1>2
<1>4. PICK z \in S : r = Marked(z)
  BY <1>2
<1> QED
  BY <1>1, <1>3, <1>4

(* So does the rest of the world. *)
LEMMA WorldCount ==
    ASSUME CountInv, Served \/ Misfortune, PageInv'
    PROVE  CountInv'
<1>1. \A q \in out : Whole(q)
  BY DEF CountInv, PageInv, Shapes, Kept
<1>2. PageInv /\ acts \in Nat /\ \A q, r \in out : q.n = r.n => q = r
  BY DEF CountInv, Distinct
<1>3. ASSUME NEW r \in out, NEW q, Same(q, r), out' = (out \ {r}) \cup {q}
      PROVE  Distinct' /\ \A x \in out' : \E y \in out : Same(x, y)
  BY <1>2, <1>3 DEF Distinct, Same
<1>4. ASSUME NEW r \in out, NEW q, NEW kind, Same(q, r), out' = Outdated(out \ {r}, kind) \cup {q}
      PROVE  Distinct' /\ \A x \in out' : \E y \in out : Same(x, y)
  <2> DEFINE others == out \ {r}
             marked == Outdated(others, kind)
  <2>1. \A x \in marked : \E y \in others : Same(x, y)
    BY <1>1, OutdatedOK
  <2>2. \A x, y \in marked : x.n = y.n => x = y
    BY <1>1, <1>2, OutdatedDistinct
  <2>3. \A x \in marked : x.n # q.n
    <3> TAKE x \in marked
    <3>1. PICK y \in others : Same(x, y)
      BY <2>1
    <3>2. y \in out /\ y # r /\ x.n = y.n /\ q.n = r.n
      BY <1>4, <3>1 DEF Same
    <3> QED
      BY <1>2, <3>2
  <2> HIDE DEF marked
  <2>4. Distinct'
    BY <1>4, <2>2, <2>3 DEF Distinct, marked
  <2>5. \A x \in out' : \E y \in out : Same(x, y)
    BY <1>4, <2>1 DEF marked
  <2> QED
    BY <2>4, <2>5
<1>5. Distinct' /\ \A x \in out' : \E y \in out : Same(x, y)
  <2>1. CASE Served
    <3>1. PICK r \in out : Serve(r)
      BY <2>1 DEF Served
    <3>2. \/ \E q : Same(q, r) /\ out' = (out \ {r}) \cup {q}
          \/ \E q, kind : Same(q, r) /\ out' = Outdated(out \ {r}, kind) \cup {q}
      BY <1>2, <3>1, ServeCases
    <3> QED
      BY <1>3, <1>4, <3>2
  <2>2. ASSUME NEW r \in out, Refuse(r) \/ Lose(r)
        PROVE  Distinct' /\ \A x \in out' : \E y \in out : Same(x, y)
    <3> DEFINE q == [r EXCEPT !.st = "failed"]
    <3>1. Same(q, r)
      BY <1>1, EditedRequest, Zenon
    <3>2. out' = (out \ {r}) \cup {q}
      BY <2>2, Zenon DEF Refuse, Lose
    <3> HIDE DEF q
    <3> QED
      BY <1>3, <3>1, <3>2
  <2>3. ASSUME NEW k \in Kinds, NEW i \in Ids, Elsewhere(k, i)
        PROVE  Distinct' /\ \A x \in out' : \E y \in out : Same(x, y)
    <3>1. out' = Outdated(out, k)
      BY <2>3 DEF Elsewhere
    <3>2. \A x \in out' : \E y \in out : Same(x, y)
      BY <1>1, <3>1, OutdatedOK
    <3>3. Distinct'
      BY <1>1, <1>2, <3>1, OutdatedDistinct DEF Distinct
    <3> QED
      BY <3>2, <3>3
  <2> QED
    BY <2>1, <2>2, <2>3 DEF Misfortune
<1>6. UNCHANGED <<sends, acts>>
  BY DEF Served, Serve, Misfortune, Refuse, Lose, Elsewhere, Faults
<1> QED
  BY <1>2, <1>5, <1>6, RelabelCount DEF CountInv

(* So do the answers: loadAll and the handlers send what was foreseen.       *)
LEMMA AnswerCount ==
    ASSUME CountInv, Arrives, PageInv'
    PROVE  CountInv'
<1>1. sends \in Nat /\ acts \in Nat /\ (\A q \in out : q.n \in 0 .. sends) /\ Distinct
  BY DEF CountInv, PageInv, Shapes, Kept
<1>2. acts' = acts
  BY DEF Arrives, ConfigArrives, ConfigFails, RowsArrive, RowsFail, EditArrives, ToggleArrives,
         SaveArrives, PasswordArrives, EditFails
<1>3. ASSUME NEW r \in out, ConfigArrives(r)
      PROVE  CountInv'
  <2> DEFINE d1 == LoadDomains(sends + 1, First, "all")
             r1 == LoadRecords(sends + 2, First, "all")
             d2 == LoadDomains(sends + 3, view["domains"], "effect")
             r2 == LoadRecords(sends + 4, view["records"], "effect")
             new == {q \in IF connected = "yes" THEN {d1, r1} ELSE {d1, r1} \cup {d2, r2} : q.kind \in kinds}
  <2>1. /\ d1.n = sends + 1 /\ d1.op = "rows" /\ r1.n = sends + 2 /\ r1.op = "rows"
        /\ d2.n = sends + 3 /\ d2.op = "rows" /\ r2.n = sends + 4 /\ r2.op = "rows"
    BY NewRequest DEF LoadDomains, LoadRecords, GetRows
  <2>2. out' = (out \ {r}) \cup new /\ sends' = sends + 4 /\ r.op = "config"
    BY <1>3 DEF ConfigArrives, Arrived
  <2>3. \A q \in new : q \in {d1, r1, d2, r2}
    OBVIOUS
  <2> HIDE DEF d1, r1, d2, r2, new
  <2>4. \A q \in new : q.op = "rows" /\ q.n > sends
    BY <1>1, <2>1, <2>3
  <2>5. \A p, q \in {d1, r1, d2, r2} : p.n = q.n => p = q
    BY <1>1, <2>1
  <2>6. Distinct'
    BY <1>1, <2>2, <2>3, <2>4, <2>5 DEF Distinct
  <2> QED
    BY <1>1, <1>2, <2>2, <2>4, <2>6, ArriveCount DEF CountInv
<1>4. ASSUME NEW r \in out, EditArrives(r)
      PROVE  CountInv'
  <2> DEFINE q == GetRows(sends + 1, r.kind, r.view, "handler")
             new == {q}
  <2>1. q.n = sends + 1 /\ q.op = "rows"
    BY NewRequest DEF GetRows
  <2>2. out' = (out \ {r}) \cup new /\ sends' = sends + 1 /\ r.op \in {"add", "delete", "import"}
    BY <1>4 DEF EditArrives, Arrived
  <2> HIDE DEF q
  <2>3. \A x \in new : x.op = "rows" /\ x.n > sends
    BY <1>1, <2>1
  <2>4. Distinct'
    BY <1>1, <2>1, <2>2 DEF Distinct
  <2> HIDE DEF new
  <2> QED
    BY <1>1, <1>2, <2>2, <2>3, <2>4, ArriveCount DEF CountInv
<1>5. ASSUME NEW r \in out, \/ ConfigFails(r) \/ RowsArrive(r) \/ RowsFail(r) \/ ToggleArrives(r)
                            \/ SaveArrives(r) \/ PasswordArrives(r) \/ EditFails(r)
      PROVE  CountInv'
  <2> DEFINE new == {}
  <2>1. out' = (out \ {r}) \cup new /\ sends' = sends
    BY <1>5 DEF ConfigFails, RowsArrive, RowsFail, ToggleArrives, SaveArrives, PasswordArrives,
                EditFails, Received
  <2>2. \A x \in new : x.op = "rows" /\ x.n > sends
    OBVIOUS
  <2>3. Distinct'
    BY <1>1, <2>1 DEF Distinct
  <2> HIDE DEF new
  <2> QED
    BY <1>1, <1>2, <2>1, <2>2, <2>3, ArriveCount DEF CountInv
<1> QED
  BY <1>3, <1>4, <1>5, Zenon DEF Arrives

------------------------------------------------------------------------------
(* The theorems.                                                             *)

(* The page opens with the settings asked for and nothing shown.             *)
LEMMA InitInv ==
    ASSUME Init
    PROVE  PageInv
<1>1. Whole(GetConfig(1)) /\ GetConfig(1).n = 1 /\ GetConfig(1).op = "config" /\ GetConfig(1).kind = "config"
      /\ GetConfig(1).st = "sent" /\ GetConfig(1).by = "all"
  BY NewRequest DEF GetConfig
<1>2. /\ view = [k \in Kinds |-> First] /\ out = {GetConfig(1)} /\ sends = 1
      /\ asked = [k \in Kinds |-> 0]
      /\ form = [val |-> "none", typed |-> FALSE, fresh |-> FALSE]
      /\ table = [k \in Kinds |-> [rows |-> {}, total |-> 0, n |-> 0, by |-> "none",
                                   view |-> First, fresh |-> FALSE]]
  BY DEF Init
<1>3. Shapes
  BY <1>1, <1>2 DEF Shapes, Kept
<1>4. EffectsFollowTheControls
  BY <1>1, <1>2 DEF EffectsFollowTheControls
<1>5. AnswersAreNews /\ FormIsKept
  BY <1>1, <1>2 DEF AnswersAreNews, FormIsKept
<1> QED
  BY <1>3, <1>4, <1>5 DEF PageInv

(* Every step keeps the invariant. *)
THEOREM PageInvariant == Spec => []PageInv
<1>1. ASSUME PageInv, [Next]_vars
      PROVE  PageInv'
  <2>1. CASE User
    BY <1>1, <2>1, UserStep
  <2>2. CASE Served
    BY <1>1, <2>2, ServeStep DEF Served
  <2>3. CASE Arrives
    BY <1>1, <2>3, ConfigArrivesStep, RowsArriveStep, EditArrivesStep, SaveArrivesStep,
       PlainAnswerStep, Zenon DEF Arrives
  <2>4. CASE Misfortune
    BY <1>1, <2>4, MisfortuneStep
  <2>5. CASE UNCHANGED vars
    BY <1>1, <2>5, StayStep DEF vars, page, net, server
  <2> QED
    BY <1>1, <2>1, <2>2, <2>3, <2>4, <2>5 DEF Next
<1> QED
  BY <1>1, InitInv, PTL DEF Spec

(* As long as the newest request for a table is an effect's, what it brings  *)
(* is of the page and the filters on the screen.                             *)
THEOREM EffectsCorrect == Spec => []EffectsFollowTheControls
<1>1. PageInv => EffectsFollowTheControls
  BY DEF PageInv
<1> QED
  BY <1>1, PageInvariant, PTL

(* The DNS form holds the server's settings or the user's own typing, unless *)
(* an answer was overtaken by a save.                                        *)
THEOREM FormCorrect == Spec => []FormIsServersOrMine
<1>1. PageInv => FormIsServersOrMine
  BY DEF PageInv, Shapes, Kept, FormIsKept, FormIsServersOrMine, Of
<1> QED
  BY <1>1, PageInvariant, PTL

(* The effects do not feed each other: an act of the user costs at most six  *)
(* requests, and opening the page five.                                      *)
THEOREM RequestsCorrect == Spec => []RequestsAreBounded
<1>1. ASSUME Init
      PROVE  CountInv
  <2>1. PageInv
    BY <1>1, InitInv
  <2>2. out = {GetConfig(1)} /\ GetConfig(1).n = 1 /\ GetConfig(1).op = "config" /\ sends = 1 /\ acts = 0
    BY <1>1, NewRequest DEF Init, GetConfig
  <2>3. ConfigNs = {1} /\ EditNs = {}
    BY <2>2 DEF ConfigNs, EditNs
  <2>4. Cardinality(ConfigNs) = 1 /\ Cardinality(EditNs) = 0
    BY <2>3, FS_Singleton, FS_EmptySet
  <2> QED
    BY <2>1, <2>2, <2>4 DEF CountInv, Distinct, Paid
<1>2. ASSUME CountInv, PageInv', [Next]_vars
      PROVE  CountInv'
  <2>1. CASE UNCHANGED vars
    <3>1. UNCHANGED <<out, sends, acts>>
      BY <2>1 DEF vars, net
    <3>2. ConfigNs' = ConfigNs /\ EditNs' = EditNs
      BY <3>1 DEF ConfigNs, EditNs
    <3> QED
      BY <1>2, <3>1, <3>2 DEF CountInv, Distinct, Paid
  <2> QED
    BY <1>2, <2>1, UserCount, WorldCount, AnswerCount DEF Next
<1>3. CountInv => RequestsAreBounded
  <2> SUFFICES ASSUME CountInv
               PROVE  RequestsAreBounded
    OBVIOUS
  <2>1. Cardinality(ConfigNs) \in Nat /\ Cardinality(EditNs) \in Nat
    BY FinitelyMany DEF CountInv
  <2>2. sends \in Nat /\ acts \in Nat
    BY DEF CountInv, PageInv, Shapes
  <2> QED
    BY <2>1, <2>2 DEF CountInv, Paid, RequestsAreBounded
<1>4. Spec => [](PageInv)
  BY PageInvariant
<1> QED
  BY <1>1, <1>2, <1>3, <1>4, PTL DEF Spec

------------------------------------------------------------------------------
(* The tables, patched in place by the toggles and loaded again by the other *)
(* edits, show what the server has when they come to rest.                   *)

------------------------------------------------------------------------------
(* The inductive invariant.                                                  *)

Unique(S) == \A q, r \in S : q.id = r.id => q = r
Count(S, v) == Cardinality(Matching(S, v))
Within(S, C) == {q \in S : q.id \in C}
Patch(row, R) == {IF x.id = row.id THEN row ELSE x : x \in R}

(* Edits the server has made and the page has not heard of; they will be     *)
(* followed by a reload or say that the table is not fresh, but for the      *)
(* toggles that nothing has overtaken.                                       *)
DoneEdits(k) == {r \in out : r.op \in Edits /\ r.kind = k /\ r.st = "done"}
Owed(r) == r.op # "toggle" \/ ~r.fresh

(* Rows on their way are those the server has, and so is a toggled row. *)
RowsAreNews(k) ==
    \A r \in out : r.op = "rows" /\ r.kind = k /\ r.st = "done" /\ r.fresh =>
        r.ans = Listed(rows[k], r.view)
TogglesAreNews(k) == \A r \in DoneEdits(k) : ~Owed(r) => r.row \in rows[k]

(* A table shows the server's rows, or does once the toggles have arrived.   *)
Follows(k) ==
    /\ table[k].total = Count(rows[k], table[k].view)
    /\ DoneEdits(k) = {} => table[k].rows = PageOf(rows[k], table[k].view)
    /\ \A r \in DoneEdits(k) : Patch(r.row, table[k].rows) = PageOf(rows[k], table[k].view)
RowsAreKept(k) ==
    table[k].fresh /\ table[k].n = asked[k] => (\E r \in DoneEdits(k) : Owed(r)) \/ Follows(k)

(* What the server has: rows with numbers of their own. *)
Stored(k) == IsFiniteSet(rows[k]) /\ Unique(rows[k])

RowsOf(k) == Stored(k) /\ RowsAreNews(k) /\ TogglesAreNews(k) /\ RowsAreKept(k)
RowsInv == DOMAIN rows = Kinds /\ \A k \in Kinds : RowsOf(k)

------------------------------------------------------------------------------
(* Pages of rows.                                                            *)

(* Replacing a row by one with its number leaves as many of any numbers.     *)
LEMMA SwapCount ==
    ASSUME NEW A, IsFiniteSet(A), Unique(A), NEW old \in A, NEW row, old.id = row.id,
           NEW B, B = {r \in A : r.id # row.id} \cup {row}, NEW C
    PROVE  Cardinality(Within(B, C)) = Cardinality(Within(A, C))
<1> DEFINE InA == Within(A, C)
           InB == Within(B, C)
           Rest == {q \in A : q.id \in C /\ q.id # row.id}
<1>1. IsFiniteSet(InA) /\ IsFiniteSet(Rest)
  BY FS_Subset DEF Within
<1>2. CASE row.id \in C
  <2>1. InA = Rest \cup {old} /\ InB = Rest \cup {row}
    BY <1>2 DEF Unique, Within
  <2>2. old \notin Rest /\ row \notin Rest
    OBVIOUS
  <2> HIDE DEF Rest, InA, InB
  <2>3. Cardinality(InA) = Cardinality(Rest) + 1 /\ Cardinality(InB) = Cardinality(Rest) + 1
    BY <1>1, <2>1, <2>2, FS_AddElement
  <2> QED
    BY <2>3 DEF InA, InB
<1>3. CASE row.id \notin C
  <2>1. InA = InB
    BY <1>3 DEF Within
  <2> QED
    BY <2>1
<1> QED
  BY <1>2, <1>3

(* So the page that lists it lists the new row in its place. *)
LEMMA SwapPage ==
    ASSUME NEW A, IsFiniteSet(A), Unique(A), NEW old \in A, NEW row, old.id = row.id,
           NEW B, B = {r \in A : r.id # row.id} \cup {row}, NEW v
    PROVE  Count(B, v) = Count(A, v) /\ PageOf(B, v) = Patch(row, PageOf(A, v))
<1> DEFINE C == TextHits[v.text] \cap ChoiceHits[v.choice]
           RankA(i) == Cardinality({q \in Matching(A, v) : q.id >= i})
           RankB(i) == Cardinality({q \in Matching(B, v) : q.id >= i})
           OnPage(n) == n > (v.page - 1) * Limit /\ n <= v.page * Limit
<1>1. Matching(A, v) = Within(A, C) /\ Matching(B, v) = Within(B, C)
  BY DEF Matching, Within
<1>2. Count(B, v) = Count(A, v)
  <2> HIDE DEF C
  <2>1. Cardinality(Within(B, C)) = Cardinality(Within(A, C))
    BY SwapCount
  <2> QED
    BY <1>1, <2>1, Zenon DEF Count
<1>3. ASSUME NEW i
      PROVE  RankA(i) = RankB(i)
  <2> DEFINE D == {j \in C : j >= i}
  <2>1. /\ {q \in Matching(A, v) : q.id >= i} = Within(A, D)
        /\ {q \in Matching(B, v) : q.id >= i} = Within(B, D)
    BY <1>1 DEF Within
  <2> HIDE DEF D
  <2>2. Cardinality(Within(B, D)) = Cardinality(Within(A, D))
    BY SwapCount
  <2> QED
    BY <2>1, <2>2, Zenon
<1>4. /\ PageOf(A, v) = {r \in Matching(A, v) : OnPage(RankA(r.id))}
      /\ PageOf(B, v) = {r \in Matching(B, v) : OnPage(RankB(r.id))}
  BY DEF PageOf
<1> DEFINE In(i) == i \in C /\ OnPage(RankA(i))
<1>5. PageOf(A, v) = {r \in A : In(r.id)} /\ PageOf(B, v) = {r \in B : In(r.id)}
  <2> HIDE DEF RankA, RankB, OnPage, C
  <2> QED
    BY <1>1, <1>3, <1>4 DEF Within
<1> HIDE DEF In
<1>6. PageOf(B, v) = Patch(row, PageOf(A, v))
  <2>1. ASSUME NEW x \in PageOf(B, v)
        PROVE  x \in Patch(row, PageOf(A, v))
    <3>1. CASE x = row
      <4>1. old \in PageOf(A, v)
        BY <1>5, <2>1, <3>1
      <4> QED
        BY <3>1, <4>1 DEF Patch
    <3>2. CASE x # row
      <4>1. x \in PageOf(A, v) /\ x.id # row.id
        BY <1>5, <2>1, <3>2
      <4> QED
        BY <4>1 DEF Patch
    <3> QED
      BY <3>1, <3>2
  <2>2. ASSUME NEW y \in PageOf(A, v)
        PROVE  (IF y.id = row.id THEN row ELSE y) \in PageOf(B, v)
    BY <1>5, <2>2
  <2> QED
    BY <2>1, <2>2 DEF Patch
<1> QED
  BY <1>2, <1>6

(* A row that is there already changes nothing. *)
LEMMA PatchNothing ==
    ASSUME NEW A, Unique(A), NEW row \in A, NEW v
    PROVE  Patch(row, PageOf(A, v)) = PageOf(A, v)
<1>1. \A x \in PageOf(A, v) : x \in A
  BY DEF PageOf, Matching
<1>2. \A x \in PageOf(A, v) : (IF x.id = row.id THEN row ELSE x) = x
  BY <1>1 DEF Unique
<1> QED
  BY <1>2 DEF Patch

------------------------------------------------------------------------------
(* Kinds of steps.                                                           *)

(* The row and the answer of a request that is changed on its way. *)
LEMMA EditedData ==
    ASSUME NEW r, Whole(r), NEW x
    PROVE  /\ [r EXCEPT !.st = x].row = r.row /\ [r EXCEPT !.st = x].ans = r.ans
           /\ [r EXCEPT !.ans = x].row = r.row /\ [r EXCEPT !.ans = x].ans = x
           /\ [r EXCEPT !.fresh = x].row = r.row /\ [r EXCEPT !.fresh = x].ans = r.ans
  BY Zenon DEF Whole, Fields

(* The server's rows stand, while requests come and go: what is on its way   *)
(* is still news.                                                            *)
LEMMA StandNews ==
    ASSUME NEW k \in Kinds, RowsOf(k), NEW gone, NEW new, out' = (out \ gone) \cup new, rows' = rows,
           \A q \in new : q.st = "done" => q.op \notin Edits,
           \A q \in new : q.op = "rows" /\ q.kind = k /\ q.st = "done" /\ q.fresh => q.ans = Listed(rows[k], q.view)
    PROVE  /\ Stored(k)' /\ RowsAreNews(k)' /\ TogglesAreNews(k)'
           /\ DoneEdits(k)' = DoneEdits(k) \ gone
<1>1. Stored(k)' /\ RowsAreNews(k)'
  BY DEF RowsOf, Stored, RowsAreNews
<1>2. DoneEdits(k)' = DoneEdits(k) \ gone
  BY DEF DoneEdits
<1>3. TogglesAreNews(k)'
  BY <1>2 DEF RowsOf, TogglesAreNews
<1> QED
  BY <1>1, <1>2, <1>3

(* ... and a table that stays, or is not the newest or not fresh, is kept.   *)
LEMMA StandKind ==
    ASSUME NEW k \in Kinds, RowsOf(k), NEW gone, NEW new, out' = (out \ gone) \cup new, rows' = rows,
           \A q \in new : q.st = "done" => q.op \notin Edits,
           \A q \in new : q.op = "rows" /\ q.kind = k /\ q.st = "done" /\ q.fresh => q.ans = Listed(rows[k], q.view),
           \/ ~table'[k].fresh \/ table'[k].n # asked'[k]
           \/ table'[k] = table[k] /\ asked'[k] = asked[k] /\ \A q \in gone : q \notin DoneEdits(k)
    PROVE  RowsOf(k)'
<1>1. Stored(k)' /\ RowsAreNews(k)' /\ TogglesAreNews(k)' /\ DoneEdits(k)' = DoneEdits(k) \ gone
  BY StandNews
<1>2. RowsAreKept(k)'
  <2>1. CASE ~table'[k].fresh \/ table'[k].n # asked'[k]
    BY <2>1 DEF RowsAreKept
  <2>2. CASE table'[k] = table[k] /\ asked'[k] = asked[k] /\ \A q \in gone : q \notin DoneEdits(k)
    <3>1. DoneEdits(k)' = DoneEdits(k)
      BY <1>1, <2>2
    <3>2. Follows(k)' <=> Follows(k)
      BY <2>2, <3>1 DEF Follows
    <3> QED
      BY <2>2, <3>1, <3>2 DEF RowsOf, RowsAreKept
  <2> QED
    BY <2>1, <2>2
<1> QED
  BY <1>1, <1>2 DEF RowsOf

(* So it is with both tables. *)
LEMMA StandStep ==
    ASSUME RowsInv, NEW gone, NEW new, out' = (out \ gone) \cup new, rows' = rows,
           \A q \in new : q.st = "done" => q.op \notin Edits \cup {"rows"},
           \A k \in Kinds : \/ ~table'[k].fresh \/ table'[k].n # asked'[k]
                            \/ table'[k] = table[k] /\ asked'[k] = asked[k] /\ \A q \in gone : q \notin DoneEdits(k)
    PROVE  RowsInv'
<1>1. ASSUME NEW k \in Kinds
      PROVE  RowsOf(k)'
  BY StandKind DEF RowsInv
<1> QED
  BY <1>1 DEF RowsInv

(* New requests have new numbers. *)
LEMMA SendNews ==
    ASSUME NEW S, Send(S), \A q \in S : q.n > sends, NEW k \in Kinds
    PROVE  out' = out \cup S /\ (asked'[k] = asked[k] \/ asked'[k] > sends)
  BY DEF Send

(* The user sends requests, and changes neither what the tables show nor     *)
(* what the server has.                                                      *)
LEMMA UserSends ==
    ASSUME PageInv, User
    PROVE  /\ UNCHANGED <<table, rows>>
           /\ \E S : /\ out' = out \cup S
                     /\ \A q \in S : q.st = "sent"
                     /\ \A k \in Kinds : asked'[k] = asked[k] \/ asked'[k] > sends
<1>0. sends \in Nat
  BY DEF PageInv, Shapes
<1>1. CASE Looking
  <2>1. PICK k, v : k \in Kinds /\ ChangeView(k, v)
    BY <1>1 DEF Looking
  <2> DEFINE all == GetConfig(sends + 1)
             mine == GetRows(sends + 2, k, v, "effect")
             S == {all, mine}
  <2>2. all.n = sends + 1 /\ all.st = "sent" /\ mine.n = sends + 2 /\ mine.st = "sent"
    BY NewRequest DEF GetConfig, GetRows
  <2>3. Send(S) /\ UNCHANGED <<table, rows>>
    BY <2>1 DEF ChangeView, Acts, server
  <2> HIDE DEF all, mine
  <2>4. \A q \in S : q.n > sends /\ q.st = "sent"
    BY <1>0, <2>2
  <2> HIDE DEF S
  <2> QED
    BY <2>3, <2>4, SendNews DEF Send
<1>2. CASE Editing
  <2>1. PICK op, k, v, row : Starts(Edit(sends + 1, op, k, v, row)) /\ UNCHANGED table
    BY <1>2, Zenon DEF Editing
  <2> DEFINE r == Edit(sends + 1, op, k, v, row)
             S == {r}
  <2>2. r.n = sends + 1 /\ r.st = "sent"
    BY NewRequest DEF Edit
  <2>3. Send(S) /\ UNCHANGED <<table, rows>>
    BY <2>1 DEF Starts, Acts, server
  <2> HIDE DEF r
  <2>4. \A q \in S : q.n > sends /\ q.st = "sent"
    BY <1>0, <2>2
  <2> HIDE DEF S
  <2> QED
    BY <2>3, <2>4, SendNews DEF Send
<1>3. CASE Typing
  <2>1. UNCHANGED <<out, asked, table, rows>>
    BY <1>3 DEF Typing, SelectAll, SelectOne, EditDNS, Acts, net, server
  <2> DEFINE S == {}
  <2>2. out' = out \cup S /\ \A q \in S : q.st = "sent"
    BY <2>1
  <2> HIDE DEF S
  <2> QED
    BY <2>1, <2>2
<1>4. CASE Asking
  <2>1. PICK r : /\ r \in {GetConfig(sends + 1), PutConfig(sends + 1, form.val), ChangePassword(sends + 1)}
                 /\ Send({r})
    BY <1>4, Zenon DEF Asking, Refresh, SaveDNS, HandleChangePw, Starts
  <2>2. r.n = sends + 1 /\ r.st = "sent"
    BY <2>1, NewRequest DEF GetConfig, PutConfig, ChangePassword
  <2>3. UNCHANGED <<table, rows>>
    BY <1>4 DEF Asking, Refresh, SaveDNS, HandleChangePw, Starts, Acts, server, page
  <2> DEFINE S == {r}
  <2>4. Send(S) /\ \A q \in S : q.n > sends /\ q.st = "sent"
    BY <1>0, <2>1, <2>2
  <2> HIDE DEF S
  <2> QED
    BY <2>3, <2>4, SendNews DEF Send
<1> QED
  BY <1>1, <1>2, <1>3, <1>4, UserCases

(* So the tables follow the server as before. *)
LEMMA UserRows ==
    ASSUME RowsInv, PageInv, User
    PROVE  RowsInv'
<1>1. PICK S : /\ out' = out \cup S
               /\ \A q \in S : q.st = "sent"
               /\ \A k \in Kinds : asked'[k] = asked[k] \/ asked'[k] > sends
  BY UserSends
<1>2. UNCHANGED <<table, rows>>
  BY UserSends
<1> DEFINE gone == {}
<1>3. out' = (out \ gone) \cup S /\ \A q \in gone : FALSE
  BY <1>1
<1>4. \A k \in Kinds : \/ table'[k].n # asked'[k]
                       \/ table'[k] = table[k] /\ asked'[k] = asked[k]
  BY <1>1, <1>2 DEF PageInv, Shapes
<1> HIDE DEF gone
<1> QED
  BY <1>1, <1>2, <1>3, <1>4, StandStep

------------------------------------------------------------------------------
(* Answers.                                                                  *)

(* Those that change no table and are of no edit. *)
LEMMA QuietRows ==
    ASSUME RowsInv, PageInv, NEW r \in out,
           ConfigFails(r) \/ RowsFail(r) \/ SaveArrives(r) \/ PasswordArrives(r) \/ EditFails(r)
    PROVE  RowsInv'
<1> DEFINE gone == {r}
           new == {}
<1>1. out' = (out \ gone) \cup new /\ UNCHANGED <<table, asked, rows>>
  BY DEF ConfigFails, RowsFail, SaveArrives, PasswordArrives, EditFails, Received, page, server
<1>2. r.op \notin Edits \/ r.st = "failed"
  BY DEF ConfigFails, RowsFail, SaveArrives, PasswordArrives, EditFails, Arrived, Edits
<1>3. \A k \in Kinds : \A q \in gone : q \notin DoneEdits(k)
  BY <1>2 DEF DoneEdits
<1>4. \A q \in new : q.st = "done" => q.op \notin Edits \cup {"rows"}
  OBVIOUS
<1> HIDE DEF gone, new
<1> QED
  BY <1>1, <1>3, <1>4, StandStep

(* loadAll and the effects ask for rows. *)
LEMMA ConfigRows ==
    ASSUME RowsInv, PageInv, NEW r \in out, ConfigArrives(r)
    PROVE  RowsInv'
<1> DEFINE d1 == LoadDomains(sends + 1, First, "all")
           r1 == LoadRecords(sends + 2, First, "all")
           d2 == LoadDomains(sends + 3, view["domains"], "effect")
           r2 == LoadRecords(sends + 4, view["records"], "effect")
           new == {q \in IF connected = "yes" THEN {d1, r1} ELSE {d1, r1} \cup {d2, r2} : q.kind \in kinds}
           gone == {r}
<1>1. d1.st = "sent" /\ r1.st = "sent" /\ d2.st = "sent" /\ r2.st = "sent"
  BY NewRequest DEF LoadDomains, LoadRecords, GetRows
<1>2. /\ out' = (out \ gone) \cup new
      /\ asked' = [k \in Kinds |->
                     IF k \notin kinds THEN asked[k]
                     ELSE (IF k = "domains" THEN 1 ELSE 2) + (IF connected = "yes" THEN sends ELSE sends + 2)]
      /\ r.op = "config" /\ UNCHANGED <<table, rows>>
  BY DEF ConfigArrives, Arrived, server
<1> HIDE DEF d1, r1, d2, r2
<1>3. \A q \in new : q.st = "done" => q.op \notin Edits \cup {"rows"}
  BY <1>1
<1>4. \A k \in Kinds : \A q \in gone : q \notin DoneEdits(k)
  BY <1>2 DEF DoneEdits, Edits
<1>5. \A k \in Kinds : table'[k].n # asked'[k] \/ (table'[k] = table[k] /\ asked'[k] = asked[k])
  BY <1>2 DEF PageInv, Shapes
<1> HIDE DEF gone, new
<1> QED
  BY <1>2, <1>3, <1>4, <1>5, StandStep

(* A row was added or deleted: the table is not the newest any more. *)
LEMMA EditRows ==
    ASSUME RowsInv, PageInv, NEW r \in out, EditArrives(r)
    PROVE  RowsInv'
<1> DEFINE q == GetRows(sends + 1, r.kind, r.view, "handler")
           new == {q}
           gone == {r}
<1>1. q.st = "sent"
  BY NewRequest DEF GetRows
<1>2. /\ out' = (out \ gone) \cup new /\ asked' = [asked EXCEPT ![r.kind] = sends + 1]
      /\ UNCHANGED <<table, rows>>
  BY DEF EditArrives, server
<1> HIDE DEF q
<1>3. \A x \in new : x.st = "done" => x.op \notin Edits \cup {"rows"}
  BY <1>1
<1>4. sends \in Nat /\ asked \in [Kinds -> 0 .. sends] /\ \A k \in Kinds : table[k].n \in 0 .. sends
  BY DEF PageInv, Shapes
<1>5. ASSUME NEW k \in Kinds
      PROVE  \/ ~table'[k].fresh \/ table'[k].n # asked'[k]
             \/ table'[k] = table[k] /\ asked'[k] = asked[k] /\ \A x \in gone : x \notin DoneEdits(k)
  <2>1. CASE k = r.kind
    BY <1>2, <1>4, <2>1
  <2>2. CASE k # r.kind
    BY <1>2, <1>4, <2>2 DEF DoneEdits
  <2> QED
    BY <2>1, <2>2
<1>6. out' = (out \ gone) \cup new /\ rows' = rows
  BY <1>2
<1>7. \A k \in Kinds : \/ ~table'[k].fresh \/ table'[k].n # asked'[k]
                       \/ table'[k] = table[k] /\ asked'[k] = asked[k] /\ \A x \in gone : x \notin DoneEdits(k)
  BY <1>5
<1> HIDE DEF gone, new
<1> QED
  BY <1>3, <1>6, <1>7, StandStep

(* A row that was toggled takes its place. *)
LEMMA ToggleRows ==
    ASSUME RowsInv, PageInv, NEW r \in out, ToggleArrives(r)
    PROVE  RowsInv'
<1> DEFINE gone == {r}
           new == {}
<1>1. /\ out' = (out \ gone) \cup new /\ UNCHANGED <<asked, rows>>
      /\ r.op = "toggle" /\ r.st = "done"
  BY DEF ToggleArrives, Received, Arrived, server
<1>2. \A x \in new : x.st = "done" => x.op \notin Edits \cup {"rows"}
  OBVIOUS
<1>3. /\ DOMAIN table = Kinds
      /\ \A k \in Kinds : DOMAIN table[k] = {"rows", "total", "n", "by", "view", "fresh"}
  BY DEF PageInv, Shapes
<1>4. PICK F, G : /\ table' = [table EXCEPT ![r.kind].rows = F, ![r.kind].fresh = G]
                  /\ F = Patch(r.row, table[r.kind].rows)
                  /\ G = (table[r.kind].fresh /\ r.fresh)
  BY Zenon DEF ToggleArrives, Patch
<1>5. \A k \in Kinds : k # r.kind => table'[k] = table[k]
  BY <1>3, <1>4, Zenon
<1>6. ASSUME NEW k \in Kinds, k = r.kind
      PROVE  /\ table'[k].rows = Patch(r.row, table[k].rows)
             /\ table'[k].fresh => table[k].fresh /\ r.fresh
             /\ table'[k].n = table[k].n /\ table'[k].view = table[k].view /\ table'[k].total = table[k].total
  <2>1. /\ table'[k].rows = F /\ table'[k].fresh = G
        /\ table'[k].n = table[k].n /\ table'[k].view = table[k].view /\ table'[k].total = table[k].total
    BY <1>3, <1>4, <1>6, Zenon
  <2> QED
    BY <1>4, <1>6, <2>1, Zenon
<1> HIDE DEF gone, new
<1>7. ASSUME NEW k \in Kinds
      PROVE  RowsOf(k)'
  <2>1. RowsOf(k)
    BY DEF RowsInv
  <2>2. Stored(k)' /\ RowsAreNews(k)' /\ TogglesAreNews(k)' /\ DoneEdits(k)' = DoneEdits(k) \ gone
    BY <1>1, <1>2, <2>1, StandNews
  <2>3. CASE k # r.kind
    <3>1. \A q \in gone : q \notin DoneEdits(k)
      BY <2>3 DEF gone, DoneEdits
    <3> QED
      BY <1>1, <1>2, <1>5, <2>1, <2>3, <3>1, StandKind
  <2>4. CASE k = r.kind
    <3>1. SUFFICES ASSUME table'[k].fresh, table'[k].n = asked'[k], ~\E q \in DoneEdits(k)' : Owed(q)
                   PROVE  Follows(k)'
      BY <2>2 DEF RowsOf, RowsAreKept
    <3>2. r \in DoneEdits(k) /\ ~Owed(r) /\ r.row \in rows[k]
      BY <1>1, <1>6, <2>1, <2>4, <3>1 DEF DoneEdits, Owed, Edits, RowsOf, TogglesAreNews
    <3>3. Follows(k)
      BY <1>1, <1>6, <2>1, <2>2, <2>4, <3>1, <3>2 DEF RowsOf, RowsAreKept, gone
    <3>4. table'[k].rows = PageOf(rows[k], table[k].view)
      BY <1>6, <2>4, <3>2, <3>3 DEF Follows
    <3>5. ASSUME NEW q \in DoneEdits(k)'
          PROVE  Patch(q.row, table'[k].rows) = PageOf(rows[k], table[k].view)
      <4>1. q \in DoneEdits(k) /\ ~Owed(q)
        BY <2>2, <3>1, <3>5
      <4>2. q.row \in rows[k] /\ Unique(rows[k])
        BY <2>1, <4>1 DEF RowsOf, TogglesAreNews, Stored
      <4> QED
        BY <3>4, <4>2, PatchNothing
    <3> QED
      BY <1>1, <1>6, <2>4, <3>3, <3>4, <3>5 DEF Follows
  <2> QED
    BY <2>3, <2>4
<1> QED
  BY <1>1, <1>7 DEF RowsInv

(* Rows arrive, and are the server's unless an edit is owed. *)
LEMMA ArriveRows ==
    ASSUME RowsInv, PageInv, NEW r \in out, RowsArrive(r)
    PROVE  RowsInv'
<1> DEFINE gone == {r}
           new == {}
<1>1. /\ out' = (out \ gone) \cup new /\ UNCHANGED <<asked, rows>>
      /\ r.op = "rows" /\ r.st = "done"
  BY DEF RowsArrive, Received, Arrived, server
<1>2. \A x \in new : x.st = "done" => x.op \notin Edits \cup {"rows"}
  OBVIOUS
<1>3. \A k \in Kinds :
        table'[k] = IF k = r.kind
                    THEN [rows |-> r.ans.rows, total |-> r.ans.total, n |-> r.n, by |-> r.by,
                          view |-> r.view, fresh |-> r.fresh]
                    ELSE table[k]
  BY DEF RowsArrive, PageInv, Shapes
<1>4. \A k \in Kinds : \A q \in gone : q \notin DoneEdits(k)
  BY <1>1 DEF DoneEdits, Edits
<1> HIDE DEF gone, new
<1>5. ASSUME NEW k \in Kinds
      PROVE  RowsOf(k)'
  <2>1. RowsOf(k)
    BY DEF RowsInv
  <2>2. Stored(k)' /\ RowsAreNews(k)' /\ TogglesAreNews(k)' /\ DoneEdits(k)' = DoneEdits(k) \ gone
    BY <1>1, <1>2, <2>1, StandNews
  <2>3. CASE k # r.kind
    BY <1>1, <1>2, <1>3, <1>4, <2>1, <2>3, StandKind
  <2>4. CASE k = r.kind
    <3>1. SUFFICES ASSUME table'[k].fresh, ~\E q \in DoneEdits(k)' : Owed(q)
                   PROVE  Follows(k)'
      BY <2>2 DEF RowsOf, RowsAreKept
    <3>2. /\ table'[k].rows = r.ans.rows /\ table'[k].total = r.ans.total
          /\ table'[k].view = r.view /\ r.fresh
      BY <1>3, <2>4, <3>1
    <3>3. r.ans = Listed(rows[k], r.view)
      BY <1>1, <2>1, <2>4, <3>2 DEF RowsOf, RowsAreNews
    <3>4. table'[k].rows = PageOf(rows[k], r.view) /\ table'[k].total = Count(rows[k], r.view)
      BY <3>2, <3>3 DEF Listed, Count
    <3>5. ASSUME NEW q \in DoneEdits(k)'
          PROVE  Patch(q.row, table'[k].rows) = PageOf(rows[k], r.view)
      <4>1. q \in DoneEdits(k) /\ ~Owed(q)
        BY <2>2, <3>1, <3>5
      <4>2. q.row \in rows[k] /\ Unique(rows[k])
        BY <2>1, <4>1 DEF RowsOf, TogglesAreNews, Stored
      <4> QED
        BY <3>4, <4>2, PatchNothing
    <3> QED
      BY <1>1, <3>2, <3>4, <3>5 DEF Follows
  <2> QED
    BY <2>3, <2>4
<1> QED
  BY <1>1, <1>5 DEF RowsInv

------------------------------------------------------------------------------
(* The server and the network.                                               *)

(* What is marked as overtaken is the same request. *)
LEMMA OutdatedAs ==
    ASSUME NEW S, \A r \in S : Whole(r), NEW kind
    PROVE  /\ \A q \in Outdated(S, kind) :
                 \/ q.kind # kind /\ q \in S
                 \/ q.kind = kind /\ (q.st = "done" => ~q.fresh)
                    /\ \E r \in S : Same(q, r) /\ q.st = r.st
           /\ \A r \in S : r.kind # kind => r \in Outdated(S, kind)
           /\ \A r \in S : \E q \in Outdated(S, kind) : Same(q, r) /\ q.st = r.st
<1>1. ASSUME NEW q \in Outdated(S, kind)
      PROVE  \/ q.kind # kind /\ q \in S
             \/ q.kind = kind /\ (q.st = "done" => ~q.fresh) /\ \E r \in S : Same(q, r) /\ q.st = r.st
  <2>1. q.kind = kind /\ q.st = "done" => ~q.fresh
    BY OutdatedOK
  <2>2. PICK r \in S : Same(q, r) /\ q.st = r.st
    BY OutdatedOK
  <2>3. CASE q.kind = kind
    BY <2>1, <2>2, <2>3
  <2>4. CASE q.kind # kind
    <3>1. PICK y \in S : q = IF y.kind = kind /\ y.st = "done" THEN [y EXCEPT !.fresh = FALSE] ELSE y
      BY <1>1, Zenon DEF Outdated
    <3>2. CASE y.kind = kind /\ y.st = "done"
      <4>1. q = [y EXCEPT !.fresh = FALSE]
        BY <3>1, <3>2, Zenon
      <4>2. Whole(y)
        OBVIOUS
      <4>3. q.kind = y.kind
        BY <4>1, <4>2, Zenon DEF Whole, Fields
      <4> QED
        BY <2>4, <3>2, <4>3
    <3>3. CASE ~(y.kind = kind /\ y.st = "done")
      BY <2>4, <3>1, <3>3
    <3> QED
      BY <3>2, <3>3
  <2> QED
    BY <2>3, <2>4
<1>2. ASSUME NEW r \in S, r.kind # kind
      PROVE  r \in Outdated(S, kind)
  BY <1>2, Zenon DEF Outdated
<1>3. ASSUME NEW r \in S
      PROVE  \E q \in Outdated(S, kind) : Same(q, r) /\ q.st = r.st
  BY OutdatedHas
<1> QED
  BY <1>1, <1>2, <1>3

(* Marking one kind leaves the requests about the other. *)
LEMMA Untouched ==
    ASSUME NEW S, \A r \in S : Whole(r), NEW kind, NEW k, k # kind
    PROVE  \A q : q.kind = k => (q \in Outdated(S, kind) <=> q \in S)
<1> SUFFICES ASSUME NEW q, q.kind = k
             PROVE  q \in Outdated(S, kind) <=> q \in S
  OBVIOUS
<1>1. q \in Outdated(S, kind) => q \in S
  BY OutdatedAs
<1>2. q \in S => q \in Outdated(S, kind)
  BY OutdatedAs
<1> QED
  BY <1>1, <1>2

(* A change of one kind leaves the other as it is. *)
LEMMA OtherKind ==
    ASSUME NEW k \in Kinds, RowsOf(k), \A q : q.kind = k => (q \in out' <=> q \in out),
           rows'[k] = rows[k], table'[k] = table[k], asked'[k] = asked[k]
    PROVE  RowsOf(k)'
<1>1. DoneEdits(k)' = DoneEdits(k)
  BY DEF DoneEdits
<1>2. Stored(k)' /\ RowsAreNews(k)'
  BY DEF RowsOf, Stored, RowsAreNews
<1>3. TogglesAreNews(k)'
  BY <1>1 DEF RowsOf, TogglesAreNews
<1>4. Follows(k)' <=> Follows(k)
  BY <1>1 DEF Follows
<1>5. RowsAreKept(k)'
  BY <1>1, <1>4 DEF RowsOf, RowsAreKept
<1> QED
  BY <1>2, <1>3, <1>5 DEF RowsOf

(* New rows have numbers of their own. *)
LEMMA NewRows ==
    ASSUME NEW S \in SUBSET Ids
    PROVE  LET T == {[id |-> i, on |-> TRUE] : i \in S} IN IsFiniteSet(T) /\ Unique(T)
<1> DEFINE T == {[id |-> i, on |-> TRUE] : i \in S}
           f == [i \in S |-> [id |-> i, on |-> TRUE]]
<1>1. IsFiniteSet(S)
  <2>1. MaxId \in Nat
    BY AdminPageAssumption, Zenon
  <2>2. IsFiniteSet(1 .. MaxId)
    BY <2>1, FS_Interval
  <2> QED
    BY <2>2, FS_Subset DEF Ids
<1>2. f \in Surjection(S, T)
  BY DEF Surjection
<1> HIDE DEF f
<1>3. IsFiniteSet(T)
  BY <1>1, <1>2, FS_Surjection
<1>4. Unique(T)
  <2> SUFFICES ASSUME NEW x \in T, NEW y \in T, x.id = y.id
               PROVE  x = y
    BY DEF Unique
  <2>1. PICK i \in S : x = [id |-> i, on |-> TRUE]
    OBVIOUS
  <2>2. PICK j \in S : y = [id |-> j, on |-> TRUE]
    OBVIOUS
  <2> QED
    BY <2>1, <2>2
<1> QED
  BY <1>3, <1>4

(* Adding a row of a new number. *)
LEMMA AddedRow ==
    ASSUME NEW S, IsFiniteSet(S), Unique(S), NEW row, row.id \notin IdsOf(S)
    PROVE  IsFiniteSet(S \cup {row}) /\ Unique(S \cup {row})
<1>1. IsFiniteSet(S \cup {row})
  BY FS_AddElement
<1>2. \A q \in S : q.id # row.id
  BY DEF IdsOf
<1> QED
  BY <1>1, <1>2 DEF Unique

(* An edit leaves each row a number of its own, and a toggled row takes the  *)
(* place of the one it was.                                                  *)
LEMMA AfterOK ==
    ASSUME RowsInv, NEW r, r.kind \in Kinds, r.op \in Edits, ~Rejected(r)
    PROVE  /\ IsFiniteSet(After(r)) /\ Unique(After(r))
           /\ r.op = "toggle" =>
                /\ r.row \in After(r)
                /\ \A v : /\ Count(After(r), v) = Count(rows[r.kind], v)
                          /\ PageOf(After(r), v) = Patch(r.row, PageOf(rows[r.kind], v))
<1> DEFINE S == rows[r.kind]
           Rest == {x \in S : x.id # r.row.id}
<1>1. IsFiniteSet(S) /\ Unique(S)
  BY DEF RowsInv, RowsOf, Stored
<1>2. IsFiniteSet(Rest) /\ Unique(Rest) /\ r.row.id \notin IdsOf(Rest)
  BY <1>1, FS_Subset DEF Unique, IdsOf
<1>3. Without(r.kind, r.row.id) = Rest
  BY DEF Without
<1>4. CASE r.op = "add"
  <2>1. After(r) = IF r.row.id \in IdsOf(S) THEN S ELSE S \cup {r.row}
    BY <1>4 DEF After, Has
  <2> HIDE DEF S
  <2> QED
    BY <1>1, <1>4, <2>1, AddedRow
<1>5. CASE r.op = "toggle"
  <2>1. After(r) = Rest \cup {r.row}
    BY <1>3, <1>5 DEF After
  <2>2. PICK old \in S : old.id = r.row.id
    BY <1>5 DEF Rejected, Has, IdsOf
  <2> HIDE DEF Rest
  <2>3. IsFiniteSet(After(r)) /\ Unique(After(r)) /\ r.row \in After(r)
    BY <1>2, <2>1, AddedRow
  <2>4. \A v : Count(After(r), v) = Count(S, v) /\ PageOf(After(r), v) = Patch(r.row, PageOf(S, v))
    <3>1. After(r) = {x \in S : x.id # r.row.id} \cup {r.row}
      BY <2>1 DEF Rest
    <3> HIDE DEF S
    <3> QED
      BY <1>1, <2>2, <3>1, SwapPage
  <2> QED
    BY <2>3, <2>4
<1>6. CASE r.op = "delete"
  BY <1>2, <1>3, <1>6 DEF After
<1>7. CASE r.op = "import"
  <2> DEFINE New == Ids \ IdsOf(S)
             T == {[id |-> i, on |-> TRUE] : i \in New}
  <2>1. After(r) = S \cup T
    BY <1>7 DEF After
  <2>2. New \in SUBSET Ids
    OBVIOUS
  <2>3. IsFiniteSet(T) /\ Unique(T)
    <3> HIDE DEF New
    <3> QED
      BY <2>2, NewRows
  <2>4. \A x \in S, y \in T : x.id # y.id
    BY DEF IdsOf
  <2> HIDE DEF T, S
  <2>5. IsFiniteSet(S \cup T)
    BY <1>1, <2>3, FS_Union
  <2>6. Unique(S \cup T)
    BY <1>1, <2>3, <2>4 DEF Unique
  <2> QED
    BY <1>7, <2>1, <2>5, <2>6
<1> QED
  BY <1>4, <1>5, <1>6, <1>7 DEF Edits

(* The server makes an edit: answers on their way are overtaken, and the     *)
(* table will follow when the answer of the edit arrives.                    *)
LEMMA ServeEdit ==
    ASSUME RowsInv, PageInv, NEW r \in out, r.st = "sent", r.op \in Edits, ~Rejected(r),
           NEW q, Same(q, r), q.st = "done", q.row = r.row,
           out' = Outdated(out \ {r}, r.kind) \cup {q},
           rows' = [rows EXCEPT ![r.kind] = After(r)], UNCHANGED <<table, asked>>
    PROVE  RowsInv'
<1>1. q.kind = r.kind /\ q.op = r.op
  BY DEF Same
<1>2. DOMAIN rows = Kinds
  BY DEF RowsInv
<1>3. \A x \in out \ {r} : Whole(x)
  BY DEF PageInv, Shapes, Kept
<1>4. ASSUME NEW k \in Kinds, k # r.kind
      PROVE  RowsOf(k)'
  <2>1. \A x : x.kind = k => (x \in Outdated(out \ {r}, r.kind) <=> x \in out \ {r})
    <3> DEFINE others == out \ {r}
    <3>1. \A x \in others : Whole(x)
      BY <1>3
    <3> HIDE DEF others
    <3>2. \A x : x.kind = k => (x \in Outdated(others, r.kind) <=> x \in others)
      BY <1>4, <3>1, Untouched
    <3> QED
      BY <3>2 DEF others
  <2>2. \A x : x.kind = k => (x \in out' <=> x \in out)
    BY <1>1, <1>4, <2>1
  <2>3. rows'[k] = rows[k]
    BY <1>2, <1>4
  <2>4. RowsOf(k) /\ table'[k] = table[k] /\ asked'[k] = asked[k]
    BY DEF RowsInv
  <2> QED
    BY <2>2, <2>3, <2>4, OtherKind
<1>5. ASSUME NEW k \in Kinds, k = r.kind
      PROVE  RowsOf(k)'
  <2>1. rows'[k] = After(r) /\ RowsOf(k)
    BY <1>2, <1>5 DEF RowsInv
  <2>2. /\ IsFiniteSet(After(r)) /\ Unique(After(r))
        /\ r.op = "toggle" =>
             /\ r.row \in After(r)
             /\ \A v : /\ Count(After(r), v) = Count(rows[k], v)
                       /\ PageOf(After(r), v) = Patch(r.row, PageOf(rows[k], v))
    BY <1>5, AfterOK
  <2>3. \A x \in out' : x.kind = k /\ x.st = "done" => x = q \/ ~x.fresh
    BY <1>3, <1>5, OutdatedAs
  <2>4. Stored(k)' /\ RowsAreNews(k)'
    BY <1>1, <2>1, <2>2, <2>3 DEF Stored, RowsAreNews, Edits
  <2>5. \A x \in DoneEdits(k)' : ~Owed(x) => x = q
    BY <2>3 DEF DoneEdits, Owed
  <2>6. TogglesAreNews(k)'
    BY <1>1, <2>1, <2>2, <2>5 DEF TogglesAreNews, Owed
  <2>7. RowsAreKept(k)'
    <3>1. SUFFICES ASSUME table[k].fresh, table[k].n = asked[k], ~\E x \in DoneEdits(k)' : Owed(x)
                   PROVE  Follows(k)'
      BY DEF RowsAreKept
    <3>2. DoneEdits(k)' = {q} /\ q.op = "toggle"
      BY <1>1, <1>5, <2>5, <3>1 DEF DoneEdits, Owed
    <3>3. DoneEdits(k) = {}
      <4> SUFFICES ASSUME NEW x \in DoneEdits(k)
                   PROVE  FALSE
        OBVIOUS
      <4>1. x \in out \ {r} /\ x.kind = k /\ x.st = "done" /\ x.op \in Edits
        BY DEF DoneEdits
      <4> DEFINE others == out \ {r}
      <4>0. x \in others /\ \A z \in others : Whole(z)
        BY <1>3, <4>1
      <4> HIDE DEF others
      <4>2. PICK y \in Outdated(others, k) : Same(y, x) /\ y.st = x.st
        BY <4>0, OutdatedAs
      <4>3. y.kind = k /\ y.st = "done" /\ y.op \in Edits
        BY <4>1, <4>2 DEF Same
      <4>4. ~y.fresh
        BY <4>0, <4>2, <4>3, OutdatedAs
      <4> QED
        BY <1>5, <3>1, <4>2, <4>3, <4>4 DEF DoneEdits, Owed, others
    <3>4. table[k].total = Count(rows[k], table[k].view) /\ table[k].rows = PageOf(rows[k], table[k].view)
      BY <2>1, <3>1, <3>3 DEF RowsOf, RowsAreKept, Follows
    <3>5. /\ table[k].total = Count(After(r), table[k].view)
          /\ Patch(q.row, table[k].rows) = PageOf(After(r), table[k].view)
      BY <1>1, <2>2, <3>2, <3>4
    <3> QED
      BY <2>1, <3>2, <3>5 DEF Follows
  <2> QED
    BY <2>4, <2>6, <2>7 DEF RowsOf
<1> QED
  BY <1>2, <1>4, <1>5 DEF RowsInv

(* The server does its part: it lists rows as they are then, and makes edits. *)
LEMMA ServeRows ==
    ASSUME RowsInv, PageInv, NEW r, Serve(r)
    PROVE  RowsInv'
<1> DEFINE gone == {r}
           done == [r EXCEPT !.st = "done"]
           failed == [r EXCEPT !.st = "failed"]
           listed == [done EXCEPT !.ans = Listed(rows[r.kind], r.view)]
           told == [done EXCEPT !.val = settings]
           Simply(q) == out' = (out \ {r}) \cup {q} /\ rows' = rows
           Marking(kind) == out' = Outdated(out \ {r}, kind) \cup {done}
<1>1. r \in out /\ r.st = "sent" /\ UNCHANGED <<asked, table>>
  BY DEF Serve, page
<1>2. Whole(r) /\ (r.kind = "config" <=> r.op \in {"config", "save"})
  BY <1>1 DEF PageInv, Shapes, Kept
<1>3. Whole(done) /\ Same(done, r) /\ done.st = "done" /\ done.row = r.row
  <2>0. Whole(r)
    BY <1>2
  <2>1. Whole(done) /\ Same(done, r) /\ done.st = "done"
    BY <2>0, EditedRequest, Zenon
  <2>2. done.row = r.row
    BY <2>0, EditedData, Zenon
  <2> QED
    BY <2>1, <2>2
<1>4. Same(failed, r) /\ failed.st = "failed"
  BY <1>2, EditedRequest, Zenon
<1>5. /\ listed.op = done.op /\ listed.kind = done.kind /\ listed.view = done.view
      /\ listed.ans = Listed(rows[r.kind], r.view)
  <2> HIDE DEF done
  <2>0. Whole(done)
    BY <1>3
  <2>1. Same(listed, done)
    BY <2>0, EditedRequest, Zenon
  <2>2. listed.ans = Listed(rows[r.kind], r.view)
    BY <2>0, EditedData, Zenon
  <2> QED
    BY <2>1, <2>2, Zenon DEF Same
<1>6. told.op = done.op
  <2> HIDE DEF done
  <2>0. Whole(done)
    BY <1>3
  <2>1. Same(told, done)
    BY <2>0, EditedRequest, Zenon
  <2> QED
    BY <2>1, Zenon DEF Same
<1>7. \/ Simply(failed)
      \/ r.op = "rows" /\ Simply(listed)
      \/ r.op = "config" /\ Simply(told)
      \/ r.op = "save" /\ Marking("config") /\ rows' = rows
      \/ r.op \in Edits /\ ~Rejected(r) /\ Marking(r.kind) /\ rows' = [rows EXCEPT ![r.kind] = After(r)]
      \/ r.op \notin Edits \cup {"rows", "config", "save"} /\ Simply(done)
  <2>1. server' = server => rows' = rows
    BY DEF server
  <2>2. CASE Rejected(r)
    BY <2>1, <2>2 DEF Serve
  <2>3. CASE ~Rejected(r) /\ r.op = "rows"
    BY <2>1, <2>3 DEF Serve
  <2>4. CASE ~Rejected(r) /\ r.op = "config"
    BY <2>1, <2>4 DEF Serve
  <2>5. CASE ~Rejected(r) /\ r.op = "save"
    BY <2>5 DEF Serve, Edits
  <2>6. CASE ~Rejected(r) /\ r.op \in Edits
    BY <2>6 DEF Serve, Edits
  <2>7. CASE ~Rejected(r) /\ r.op \notin {"rows", "config", "save"} \cup Edits
    BY <2>1, <2>7 DEF Serve, Edits
  <2> QED
    BY <2>2, <2>3, <2>4, <2>5, <2>6, <2>7
<1> HIDE DEF done, failed, listed, told
<1>8. \A k \in Kinds : \A q \in gone : q \notin DoneEdits(k)
  BY <1>1 DEF DoneEdits
<1>9. ASSUME NEW q, Simply(q), q.st = "done" => q.op \notin Edits \cup {"rows"}
      PROVE  RowsInv'
  <2> DEFINE new == {q}
  <2>1. out' = (out \ gone) \cup new /\ rows' = rows /\ \A x \in new : x.st = "done" => x.op \notin Edits \cup {"rows"}
    BY <1>9
  <2>2. \A k \in Kinds : table'[k] = table[k] /\ asked'[k] = asked[k]
    BY <1>1
  <2> HIDE DEF gone, new
  <2> QED
    BY <1>8, <2>1, <2>2, StandStep
<1>10. CASE r.op = "rows" /\ Simply(listed)
  <2> DEFINE new == {listed}
  <2>1. \A x \in new : x.op = "rows" /\ (\A k \in Kinds : x.kind = k => x.ans = Listed(rows[k], x.view))
    BY <1>3, <1>5, <1>10 DEF Same
  <2>2. out' = (out \ gone) \cup new /\ rows' = rows
    BY <1>10
  <2>3. \A x \in new : x.op \notin Edits
    BY <2>1 DEF Edits
  <2> HIDE DEF gone, new
  <2>4. ASSUME NEW k \in Kinds
        PROVE  RowsOf(k)'
    <3>1. RowsOf(k) /\ table'[k] = table[k] /\ asked'[k] = asked[k] /\ \A q \in gone : q \notin DoneEdits(k)
      BY <1>1, <1>8 DEF RowsInv
    <3> QED
      BY <2>1, <2>2, <2>3, <3>1, StandKind
  <2> QED
    BY <2>2, <2>4 DEF RowsInv
<1>11. CASE r.op = "save" /\ Marking("config") /\ rows' = rows
  <2> DEFINE others == out \ {r}
  <2>1. \A x \in others : Whole(x)
    BY DEF PageInv, Shapes, Kept
  <2>2. done.kind = "config" /\ r.kind = "config"
    BY <1>2, <1>3, <1>11 DEF Same
  <2>3. ASSUME NEW k \in Kinds
        PROVE  RowsOf(k)'
    <3>1. k # "config"
      BY DEF Kinds
    <3> HIDE DEF others
    <3>2. \A x : x.kind = k => (x \in Outdated(others, "config") <=> x \in others)
      BY <2>1, <3>1, Untouched
    <3>3. \A x : x.kind = k => (x \in out' <=> x \in out)
      BY <1>11, <2>2, <3>1, <3>2 DEF others
    <3>4. RowsOf(k) /\ rows'[k] = rows[k] /\ table'[k] = table[k] /\ asked'[k] = asked[k]
      BY <1>1, <1>11 DEF RowsInv
    <3> QED
      BY <3>3, <3>4, OtherKind
  <2> QED
    BY <1>11, <2>3 DEF RowsInv
<1>12. CASE r.op \in Edits /\ ~Rejected(r) /\ Marking(r.kind) /\ rows' = [rows EXCEPT ![r.kind] = After(r)]
  BY <1>1, <1>3, <1>12, ServeEdit
<1>13. CASE Simply(failed)
  BY <1>4, <1>9, <1>13
<1>14. CASE r.op = "config" /\ Simply(told)
  BY <1>3, <1>6, <1>9, <1>14 DEF Same, Edits
<1>15. CASE r.op \notin Edits \cup {"rows", "config", "save"} /\ Simply(done)
  BY <1>3, <1>9, <1>15 DEF Same
<1> QED
  BY <1>7, <1>10, <1>11, <1>12, <1>13, <1>14, <1>15

(* A request is refused, or an answer lost: an edit's answer that is lost    *)
(* leaves a table that is not fresh.                                         *)
LEMMA LostRows ==
    ASSUME RowsInv, PageInv, NEW r \in out, Refuse(r) \/ Lose(r)
    PROVE  RowsInv'
<1> DEFINE gone == {r}
           q == [r EXCEPT !.st = "failed"]
           new == {q}
<1>1. Whole(r)
  BY DEF PageInv, Shapes, Kept
<1>2. q.st = "failed"
  BY <1>1, EditedRequest, Zenon
<1>3. out' = (out \ gone) \cup new
  BY Zenon DEF Refuse, Lose
<1>4. UNCHANGED <<asked, rows>>
  BY DEF Refuse, Lose, server
<1> HIDE DEF q
<1>5. \A x \in new : x.st = "done" => x.op \notin Edits \cup {"rows"}
  BY <1>2
<1>6. ASSUME NEW k \in Kinds
      PROVE  \/ ~table'[k].fresh \/ table'[k].n # asked'[k]
             \/ table'[k] = table[k] /\ asked'[k] = asked[k] /\ \A x \in gone : x \notin DoneEdits(k)
  <2>1. CASE r \notin DoneEdits(k) /\ UNCHANGED table
    BY <1>4, <2>1
  <2>2. CASE Refuse(r)
    <3>1. r \notin DoneEdits(k) /\ UNCHANGED table
      BY <2>2 DEF Refuse, page, DoneEdits
    <3> QED
      BY <2>1, <3>1
  <2>3. CASE Lose(r) /\ r.op \notin Edits \cup {"save"}
    <3>1. r \notin DoneEdits(k) /\ UNCHANGED table
      BY <2>3 DEF Lose, DoneEdits
    <3> QED
      BY <2>1, <3>1
  <2>4. CASE Lose(r) /\ r.op = "save"
    <3>1. r.kind = "config" /\ "config" \notin Kinds
      BY <2>4 DEF PageInv, Shapes, Kept, Kinds
    <3>2. r \notin DoneEdits(k)
      BY <2>4 DEF DoneEdits, Edits
    <3>3. UNCHANGED table
      BY <2>4, <3>1 DEF Lose, Forget
    <3> QED
      BY <2>1, <3>2, <3>3
  <2>5. CASE Lose(r) /\ r.op \in Edits
    <3>1. table' = IF r.kind \in Kinds THEN [table EXCEPT ![r.kind].fresh = FALSE] ELSE table
      BY <2>5 DEF Lose, Forget
    <3>2. DOMAIN table = Kinds /\ DOMAIN table[k] = {"rows", "total", "n", "by", "view", "fresh"}
      BY DEF PageInv, Shapes
    <3>3. CASE k = r.kind
      <4>1. table' = [table EXCEPT ![k].fresh = FALSE]
        BY <3>1, <3>3
      <4>2. ~table'[k].fresh
        BY <3>2, <4>1, Zenon
      <4> QED
        BY <4>2
    <3>4. CASE k # r.kind
      <4>1. table'[k] = table[k] /\ r \notin DoneEdits(k)
        BY <3>1, <3>2, <3>4 DEF DoneEdits
      <4> QED
        BY <1>4, <4>1
    <3> QED
      BY <3>3, <3>4
  <2> QED
    BY <2>2, <2>3, <2>4, <2>5
<1>7. \A k \in Kinds : \/ ~table'[k].fresh \/ table'[k].n # asked'[k]
                       \/ table'[k] = table[k] /\ asked'[k] = asked[k] /\ \A x \in gone : x \notin DoneEdits(k)
  BY <1>6
<1>8. out' = (out \ gone) \cup new /\ rows' = rows
  BY <1>3, <1>4
<1> HIDE DEF gone, new
<1> QED
  BY <1>5, <1>7, <1>8, StandStep

(* The rows are changed elsewhere: what is shown is not fresh any more.      *)
LEMMA ElsewhereRows ==
    ASSUME RowsInv, PageInv, NEW k \in Kinds, NEW i \in Ids, Elsewhere(k, i)
    PROVE  RowsInv'
<1> DEFINE S == rows[k]
           new == [id |-> i, on |-> TRUE]
<1>1. /\ out' = Outdated(out, k) /\ UNCHANGED asked
      /\ rows' = [rows EXCEPT ![k] = IF i \in IdsOf(S) THEN {x \in S : x.id # i} ELSE S \cup {new}]
      /\ table' = [table EXCEPT ![k].fresh = FALSE]
  BY DEF Elsewhere, Forget, Has, Without
<1>2. /\ DOMAIN rows = Kinds /\ DOMAIN table = Kinds
      /\ DOMAIN table[k] = {"rows", "total", "n", "by", "view", "fresh"}
  BY DEF RowsInv, PageInv, Shapes
<1>3. \A x \in out : Whole(x)
  BY DEF PageInv, Shapes, Kept
<1>4. ASSUME NEW j \in Kinds, j # k
      PROVE  RowsOf(j)'
  <2>1. \A x : x.kind = j => (x \in out' <=> x \in out)
    BY <1>1, <1>3, <1>4, Untouched
  <2>2. RowsOf(j) /\ rows'[j] = rows[j] /\ table'[j] = table[j] /\ asked'[j] = asked[j]
    BY <1>1, <1>2, <1>4 DEF RowsInv
  <2> QED
    BY <2>1, <2>2, OtherKind
<1>5. RowsOf(k)'
  <2>1. IsFiniteSet(S) /\ Unique(S)
    BY DEF RowsInv, RowsOf, Stored
  <2>2. rows'[k] = IF i \in IdsOf(S) THEN {x \in S : x.id # i} ELSE S \cup {new}
    BY <1>1, <1>2
  <2>3. new.id = i
    OBVIOUS
  <2> HIDE DEF S, new
  <2>4. IsFiniteSet({x \in S : x.id # i}) /\ Unique({x \in S : x.id # i})
    BY <2>1, FS_Subset DEF Unique
  <2>5. i \notin IdsOf(S) => IsFiniteSet(S \cup {new}) /\ Unique(S \cup {new})
    BY <2>1, <2>3, AddedRow
  <2>6. Stored(k)'
    BY <2>2, <2>4, <2>5 DEF Stored
  <2>7. \A x \in out' : x.kind = k /\ x.st = "done" => ~x.fresh
    BY <1>1, <1>3, OutdatedAs
  <2>8. RowsAreNews(k)' /\ TogglesAreNews(k)'
    BY <2>7 DEF RowsAreNews, TogglesAreNews, DoneEdits, Owed
  <2>9. ~table'[k].fresh
    BY <1>1, <1>2, Zenon
  <2>10. RowsAreKept(k)'
    BY <2>9 DEF RowsAreKept
  <2> QED
    BY <2>6, <2>8, <2>10 DEF RowsOf
<1> QED
  BY <1>1, <1>2, <1>4, <1>5 DEF RowsInv

------------------------------------------------------------------------------
(* The theorem.                                                              *)

(* The page opens with tables that are not fresh, and rows that have their   *)
(* own numbers.                                                              *)
LEMMA InitRows ==
    ASSUME Init
    PROVE  RowsInv
<1>1. GetConfig(1).op = "config"
  BY NewRequest DEF GetConfig
<1>2. /\ out = {GetConfig(1)}
      /\ table = [k \in Kinds |-> [rows |-> {}, total |-> 0, n |-> 0, by |-> "none",
                                   view |-> First, fresh |-> FALSE]]
      /\ rows \in [Kinds -> {{[id |-> i, on |-> TRUE] : i \in S} : S \in Start}]
  BY DEF Init
<1>3. Start \subseteq SUBSET Ids
  BY AdminPageAssumption, Zenon
<1>4. ASSUME NEW k \in Kinds
      PROVE  RowsOf(k)
  <2>1. PICK S \in Start : rows[k] = {[id |-> i, on |-> TRUE] : i \in S}
    BY <1>2
  <2>2. Stored(k)
    BY <1>3, <2>1, NewRows DEF Stored
  <2>3. DoneEdits(k) = {}
    BY <1>1, <1>2 DEF DoneEdits, Edits
  <2>4. RowsAreNews(k) /\ TogglesAreNews(k)
    BY <1>1, <1>2, <2>3 DEF RowsAreNews, TogglesAreNews
  <2>5. RowsAreKept(k)
    BY <1>2 DEF RowsAreKept
  <2> QED
    BY <2>2, <2>4, <2>5 DEF RowsOf
<1> QED
  BY <1>2, <1>4 DEF RowsInv

(* The rows on their way and those the tables show are the server's, or will *)
(* be loaded again.                                                          *)
THEOREM RowsInvariant == Spec => []RowsInv
<1>1. ASSUME RowsInv, PageInv, [Next]_vars
      PROVE  RowsInv'
  <2>1. CASE User
    BY <1>1, <2>1, UserRows
  <2>2. CASE Served
    BY <1>1, <2>2, ServeRows DEF Served
  <2>3. CASE Arrives
    BY <1>1, <2>3, QuietRows, ConfigRows, ArriveRows, EditRows, ToggleRows, Zenon DEF Arrives
  <2>4. CASE Misfortune
    BY <1>1, <2>4, LostRows, ElsewhereRows, Zenon DEF Misfortune
  <2>5. CASE UNCHANGED vars
    <3> DEFINE none == {}
    <3>1. out' = (out \ none) \cup none /\ UNCHANGED <<table, asked, rows>>
      BY <2>5 DEF vars, page, net, server
    <3>2. (\A x \in none : FALSE) /\ \A k \in Kinds : table'[k] = table[k] /\ asked'[k] = asked[k]
      BY <3>1
    <3> HIDE DEF none
    <3> QED
      BY <1>1, <3>1, <3>2, StandStep
  <2> QED
    BY <1>1, <2>1, <2>2, <2>3, <2>4, <2>5 DEF Next
<1>2. Spec => []PageInv
  BY PageInvariant
<1> QED
  BY <1>1, <1>2, InitRows, PTL DEF Spec

(* With no request out about a table, it shows what the server has for the   *)
(* view it was loaded with, unless a newer request of it failed, an answer   *)
(* was overtaken by an edit or lost, or somebody else made one: neither the  *)
(* toggles, which change a row in place, nor the reloads lose track.         *)
THEOREM RestCorrect == Spec => []RestIsFresh
<1>1. RowsInv => RestIsFresh
  <2> SUFFICES ASSUME RowsInv, NEW k \in Kinds, Of(k) = {}, table[k].n = asked[k], table[k].fresh
               PROVE  [rows |-> table[k].rows, total |-> table[k].total] = Listed(rows[k], table[k].view)
    BY DEF RestIsFresh
  <2>1. DoneEdits(k) = {}
    BY DEF DoneEdits, Of
  <2>2. Follows(k)
    BY <2>1 DEF RowsInv, RowsOf, RowsAreKept
  <2> QED
    BY <2>1, <2>2 DEF Follows, Listed, Count
<1> QED
  BY <1>1, RowsInvariant, PTL

------------------------------------------------------------------------------
(* Types.                                                                    *)

Answers == [rows : SUBSET Row, total : 0 .. MaxId]
RequestSet == [n : Nat \ {0}, op : Edits \cup {"rows", "config", "save", "bulk", "password"},
               kind : Kinds \cup {"config", "auth"}, view : View, by : {"effect", "all", "handler"},
               row : Row \cup {NoRow}, val : Settings \cup {"none"}, st : {"sent", "done", "failed"},
               ans : Answers, fresh : BOOLEAN]
TableSet == [rows : SUBSET Row, total : 0 .. MaxId, n : Nat,
             by : {"none", "effect", "all", "handler"}, view : View, fresh : BOOLEAN]
FormSet == [val : Settings \cup {"none"}, typed : BOOLEAN, fresh : BOOLEAN]

(* What is asked about rows names its table, an edit its row, and a save     *)
(* the settings to save.                                                     *)
Fits(r) ==
    /\ r \in RequestSet
    /\ r.op \in Edits \cup {"rows"} => r.kind \in Kinds
    /\ r.op \in {"add", "toggle"} => r.row \in Row
    /\ r.op = "save" => r.val \in Settings

ScreenTypes ==
    /\ kinds \in Tables
    /\ connected \in {"unknown", "yes", "no"}
    /\ loading \in BOOLEAN
    /\ view \in [Kinds -> View]
    /\ selected \subseteq Ids
    /\ busy \subseteq {"saving", "importing", "pwSaving"}
    /\ acts \in 0 .. MaxActs
    /\ faults \in 0 .. MaxFaults
ShownTypes == table \in [Kinds -> TableSet] /\ form \in FormSet
SentTypes == \A r \in out : Fits(r)
ServerTypes == rows \in [Kinds -> SUBSET Row] /\ settings \in Settings

PageTypes == ScreenTypes /\ ShownTypes /\ SentTypes /\ ServerTypes

(* They and the numbers of the requests are the types of the model. *)
LEMMA TypesEnough ==
    ASSUME PageInv, PageTypes
    PROVE  TypeOK
<1>1. sends \in Nat /\ asked \in [Kinds -> 0 .. sends]
  BY DEF PageInv, Shapes
<1>2. ASSUME NEW r \in out
      PROVE  RequestOK(r)
  <2>1. r \in RequestSet /\ r.n \in 0 .. sends
    BY DEF PageTypes, SentTypes, Fits, PageInv, Shapes, Kept
  <2>2. r.n \in 1 .. sends
    BY <1>1, <2>1 DEF RequestSet
  <2> QED
    BY <2>1, <2>2 DEF RequestOK, RequestSet, Answers
<1>3. ASSUME NEW k \in Kinds
      PROVE  table[k] \in [rows : SUBSET Row, total : 0 .. MaxId, n : 0 .. sends,
                           by : {"none", "effect", "all", "handler"}, view : View, fresh : BOOLEAN]
  <2>1. table[k] \in TableSet /\ table[k].n \in 0 .. sends
    BY DEF PageTypes, ShownTypes, PageInv, Shapes
  <2> QED
    BY <2>1 DEF TableSet
<1>4. table \in [Kinds -> TableSet]
  BY DEF PageTypes, ShownTypes
<1> QED
  BY <1>1, <1>2, <1>3, <1>4 DEF TypeOK, PageTypes, ScreenTypes, ShownTypes, ServerTypes, FormSet

------------------------------------------------------------------------------
(* Requests that fit.                                                        *)

(* The first page without filters is a view. *)
LEMMA FirstView == First \in View
<1>1. "" \in Texts /\ "" \in Choices
  BY AdminPageAssumption, Zenon
<1>2. 1 \in Nat \ {0}
  OBVIOUS
<1> QED
  BY <1>1, <1>2, Zenon DEF First, View

(* A new request fits. *)
LEMMA NewFits ==
    ASSUME NEW n \in Nat \ {0}, NEW op \in Edits \cup {"rows", "config", "save", "bulk", "password"},
           NEW kind \in Kinds \cup {"config", "auth"}, NEW v \in View, NEW by \in {"effect", "all", "handler"},
           NEW row \in Row \cup {NoRow}, NEW val \in Settings \cup {"none"},
           op \in Edits \cup {"rows"} => kind \in Kinds,
           op \in {"add", "toggle"} => row \in Row,
           op = "save" => val \in Settings
    PROVE  Fits(Request(n, op, kind, v, by, row, val))
<1> DEFINE r == Request(n, op, kind, v, by, row, val)
<1>1. NoAnswer \in Answers
  <2>1. MaxId \in Nat
    BY AdminPageAssumption, Zenon
  <2> QED
    BY <2>1 DEF NoAnswer, Answers
<1>2. r = [n |-> n, op |-> op, kind |-> kind, view |-> v, by |-> by, row |-> row,
           val |-> val, st |-> "sent", ans |-> NoAnswer, fresh |-> TRUE]
  BY DEF Request
<1>3. r \in RequestSet
  BY <1>1, <1>2 DEF RequestSet
<1>4. r.op = op /\ r.kind = kind /\ r.row = row /\ r.val = val
  BY <1>2
<1> QED
  BY <1>3, <1>4 DEF Fits

(* So do those of the page. *)
LEMMA AskFits ==
    ASSUME NEW n \in Nat \ {0}
    PROVE  /\ Fits(GetConfig(n)) /\ Fits(ChangePassword(n))
           /\ \A val \in Settings : Fits(PutConfig(n, val))
           /\ \A k \in Kinds : \A v \in View : \A by \in {"effect", "all", "handler"} : Fits(GetRows(n, k, v, by))
           /\ \A op \in Edits \cup {"bulk"} : \A k \in Kinds : \A v \in View : \A row \in Row \cup {NoRow} :
                (op \in {"add", "toggle"} => row \in Row) => Fits(Edit(n, op, k, v, row))
<1>1. Fits(GetConfig(n)) /\ Fits(ChangePassword(n))
  BY FirstView, NewFits DEF GetConfig, ChangePassword, Edits
<1>2. ASSUME NEW val \in Settings
      PROVE  Fits(PutConfig(n, val))
  BY FirstView, NewFits DEF PutConfig, Edits
<1>3. ASSUME NEW k \in Kinds, NEW v \in View, NEW by \in {"effect", "all", "handler"}
      PROVE  Fits(GetRows(n, k, v, by))
  BY NewFits DEF GetRows, Edits
<1>4. ASSUME NEW op \in Edits \cup {"bulk"}, NEW k \in Kinds, NEW v \in View, NEW row \in Row \cup {NoRow},
             op \in {"add", "toggle"} => row \in Row
      PROVE  Fits(Edit(n, op, k, v, row))
  BY <1>4, NewFits DEF Edit, Edits
<1> QED
  BY <1>1, <1>2, <1>3, <1>4

(* A request still fits when the server and the network have changed it.     *)
LEMMA EditedFits ==
    ASSUME NEW r, Fits(r), NEW q,
           \/ \E x \in {"sent", "done", "failed"} : q = [r EXCEPT !.st = x]
           \/ \E x \in Answers : q = [r EXCEPT !.ans = x]
           \/ \E x \in Settings : q = [r EXCEPT !.val = x]
           \/ q = [r EXCEPT !.fresh = FALSE]
    PROVE  Fits(q)
<1>1. r \in RequestSet
  BY DEF Fits
<1>2. ASSUME NEW x \in {"sent", "done", "failed"}, q = [r EXCEPT !.st = x]
      PROVE  q \in RequestSet /\ q.op = r.op /\ q.kind = r.kind /\ q.row = r.row /\ q.val = r.val
  BY <1>1, <1>2 DEF RequestSet
<1>3. ASSUME NEW x \in Answers, q = [r EXCEPT !.ans = x]
      PROVE  q \in RequestSet /\ q.op = r.op /\ q.kind = r.kind /\ q.row = r.row /\ q.val = r.val
  BY <1>1, <1>3 DEF RequestSet
<1>4. ASSUME NEW x \in Settings, q = [r EXCEPT !.val = x]
      PROVE  q \in RequestSet /\ q.op = r.op /\ q.kind = r.kind /\ q.row = r.row /\ q.val \in Settings
  BY <1>1, <1>4 DEF RequestSet
<1>5. ASSUME q = [r EXCEPT !.fresh = FALSE]
      PROVE  q \in RequestSet /\ q.op = r.op /\ q.kind = r.kind /\ q.row = r.row /\ q.val = r.val
  BY <1>1, <1>5 DEF RequestSet
<1> QED
  BY <1>2, <1>3, <1>4, <1>5 DEF Fits

(* Overtaken answers fit too. *)
LEMMA OutdatedFits ==
    ASSUME NEW S, \A r \in S : Fits(r), NEW kind
    PROVE  \A q \in Outdated(S, kind) : Fits(q)
<1> TAKE q \in Outdated(S, kind)
<1>1. PICK r \in S : q = IF r.kind = kind /\ r.st = "done" THEN [r EXCEPT !.fresh = FALSE] ELSE r
  BY Zenon DEF Outdated
<1>2. q = [r EXCEPT !.fresh = FALSE] \/ q = r
  BY <1>1, Zenon
<1> QED
  BY <1>2, EditedFits

(* Rows with numbers of their own are no more than there are numbers. *)
LEMMA FewRows ==
    ASSUME NEW S \in SUBSET Row, IsFiniteSet(S), Unique(S), NEW v
    PROVE  Listed(S, v) \in Answers
<1> DEFINE M == Matching(S, v)
           N == IdsOf(M)
           f == [i \in N |-> CHOOSE r \in M : r.id = i]
<1>1. M \subseteq S
  BY DEF Matching
<1>2. PageOf(S, v) \subseteq M
  BY DEF PageOf
<1>3. N \subseteq 1 .. MaxId
  BY <1>1 DEF IdsOf, Row, Ids
<1>4. MaxId \in Nat
  BY AdminPageAssumption, Zenon
<1>5. IsFiniteSet(1 .. MaxId) /\ Cardinality(1 .. MaxId) = MaxId
  <2>1. IsFiniteSet(1 .. MaxId)
    BY <1>4, FS_Interval
  <2>2. Cardinality(1 .. MaxId) = IF 1 > MaxId THEN 0 ELSE MaxId - 1 + 1
    BY <1>4, FS_Interval
  <2> QED
    BY <1>4, <2>1, <2>2
<1>6. f \in Surjection(N, M)
  <2>1. ASSUME NEW i \in N
        PROVE  f[i] \in M
    BY DEF IdsOf
  <2>2. ASSUME NEW r \in M
        PROVE  \E i \in N : f[i] = r
    <3>1. r.id \in N
      BY DEF IdsOf
    <3>2. \A q \in M : q.id = r.id => q = r
      BY <1>1 DEF Unique
    <3>3. f[r.id] = r
      BY <3>1, <3>2
    <3> QED
      BY <3>1, <3>3
  <2> QED
    BY <2>1, <2>2 DEF Surjection
<1> HIDE DEF M, N, f
<1>7. IsFiniteSet(N) /\ Cardinality(N) <= Cardinality(1 .. MaxId)
  BY <1>3, <1>5, FS_Subset
<1>8. IsFiniteSet(M) /\ Cardinality(M) <= Cardinality(N)
  BY <1>6, <1>7, FS_Surjection
<1>9. Cardinality(M) \in Nat /\ Cardinality(N) \in Nat
  BY <1>7, <1>8, FS_CardinalityType
<1>10. Cardinality(M) \in 0 .. MaxId
  BY <1>4, <1>5, <1>7, <1>8, <1>9
<1>11. PageOf(S, v) \in SUBSET Row
  BY <1>1, <1>2
<1>12. Listed(S, v) = [rows |-> PageOf(S, v), total |-> Cardinality(M)]
  BY DEF Listed, M
<1> QED
  BY <1>10, <1>11, <1>12 DEF Answers

------------------------------------------------------------------------------
(* Types of the user's steps.                                                *)

(* Requests are sent and the screen may change: what is shown stays. *)
LEMMA SentKeeps ==
    ASSUME PageInv, PageTypes, NEW S, out' = out \cup S, \A q \in S : Fits(q),
           UNCHANGED <<table, rows, settings>>, form' \in FormSet, ScreenTypes'
    PROVE  PageTypes'
<1>1. SentTypes'
  BY DEF PageTypes, SentTypes
<1> QED
  BY <1>1 DEF PageTypes, ShownTypes, ServerTypes

(* The bound on what the user does. *)
LEMMA ActKeeps ==
    ASSUME Acts, acts \in 0 .. MaxActs
    PROVE  acts' \in 0 .. MaxActs /\ UNCHANGED <<kinds, rows, settings, faults>>
<1>1. MaxActs \in Nat
  BY AdminPageAssumption, Zenon
<1> QED
  BY <1>1 DEF Acts, server

(* A page is turned, a filter chosen. *)
LEMMA LookTypes ==
    ASSUME PageInv, PageTypes, NEW k \in Kinds, NEW v \in View, ChangeView(k, v)
    PROVE  PageTypes'
<1>1. sends \in Nat
  BY DEF PageInv, Shapes
<1> DEFINE S == {GetConfig(sends + 1), GetRows(sends + 2, k, v, "effect")}
<1>2. out' = out \cup S
  BY <1>1, LookSends
<1>3. \A q \in S : Fits(q)
  BY <1>1, AskFits
<1> HIDE DEF S
<1>4. /\ view' = [view EXCEPT ![k] = v] /\ Acts
      /\ UNCHANGED <<connected, loading, table, selected, form, busy>>
  BY DEF ChangeView
<1>5. acts' \in 0 .. MaxActs /\ UNCHANGED <<kinds, rows, settings, faults>>
  BY <1>4, ActKeeps DEF PageTypes, ScreenTypes
<1>6. ScreenTypes'
  BY <1>4, <1>5 DEF PageTypes, ScreenTypes
<1>7. form' \in FormSet
  BY <1>4 DEF PageTypes, ShownTypes
<1> QED
  BY <1>2, <1>3, <1>4, <1>5, <1>6, <1>7, SentKeeps

(* A request of a handler is sent. *)
LEMMA StartTypes ==
    ASSUME PageInv, PageTypes, NEW r, Fits(r), Send({r}), Acts,
           UNCHANGED <<connected, loading, view, table, selected, form>>,
           busy' \subseteq {"saving", "importing", "pwSaving"}
    PROVE  PageTypes'
<1>1. out' = out \cup {r}
  BY DEF Send
<1>2. acts' \in 0 .. MaxActs /\ UNCHANGED <<kinds, rows, settings, faults>>
  BY ActKeeps DEF PageTypes, ScreenTypes
<1>3. ScreenTypes'
  BY <1>2 DEF PageTypes, ScreenTypes
<1>4. form' \in FormSet
  BY DEF PageTypes, ShownTypes
<1> QED
  BY <1>1, <1>2, <1>3, <1>4, SentKeeps

(* Rows are added, deleted and toggled. *)
LEMMA RowTypes ==
    ASSUME PageInv, PageTypes, NEW k \in Kinds,
           \/ \E i \in Ids : Add(k, i)
           \/ \E r \in Row : Delete(k, r) \/ Toggle(k, r)
    PROVE  PageTypes'
<1>1. sends + 1 \in Nat \ {0}
  BY DEF PageInv, Shapes
<1>2. view[k] \in View /\ busy \subseteq {"saving", "importing", "pwSaving"}
  BY DEF PageTypes, ScreenTypes
<1>3. [view[k] EXCEPT !.page = 1] \in View
  BY <1>2 DEF View
<1>4. ASSUME NEW i \in Ids, Add(k, i)
      PROVE  PageTypes'
  <2> DEFINE r == Edit(sends + 1, "add", k, [view[k] EXCEPT !.page = 1], [id |-> i, on |-> TRUE])
  <2>1. [id |-> i, on |-> TRUE] \in Row
    BY DEF Row
  <2>2. Fits(r)
    BY <1>1, <1>3, <2>1, AskFits DEF Edits
  <2>3. Send({r}) /\ Acts /\ UNCHANGED <<connected, loading, view, table, selected, form, busy>>
    BY <1>4 DEF Add, Starts, page
  <2> HIDE DEF r
  <2> QED
    BY <1>2, <2>2, <2>3, StartTypes
<1>5. ASSUME NEW x \in Row, Delete(k, x)
      PROVE  PageTypes'
  <2> DEFINE r == Edit(sends + 1, "delete", k, view[k], x)
  <2>1. Fits(r)
    BY <1>1, <1>2, AskFits DEF Edits
  <2>2. Send({r}) /\ Acts /\ UNCHANGED <<connected, loading, view, table, selected, form, busy>>
    BY <1>5 DEF Delete, Starts, page
  <2> HIDE DEF r
  <2> QED
    BY <1>2, <2>1, <2>2, StartTypes
<1>6. ASSUME NEW x \in Row, Toggle(k, x)
      PROVE  PageTypes'
  <2> DEFINE y == [x EXCEPT !.on = ~x.on]
             r == Edit(sends + 1, "toggle", k, view[k], y)
  <2>1. y \in Row
    BY DEF Row
  <2> HIDE DEF y
  <2>2. Fits(r)
    BY <1>1, <1>2, <2>1, AskFits DEF Edits
  <2>3. Send({r}) /\ Acts /\ UNCHANGED <<connected, loading, view, table, selected, form, busy>>
    BY <1>6 DEF Toggle, Starts, page, y
  <2> HIDE DEF r
  <2> QED
    BY <1>2, <2>2, <2>3, StartTypes
<1> QED
  BY <1>4, <1>5, <1>6

(* Buttons that show a spinner, and the refresh button. *)
LEMMA ButtonTypes ==
    ASSUME PageInv, PageTypes, HandleImport \/ HandleBulkDelete \/ SaveDNS \/ HandleChangePw \/ Refresh
    PROVE  PageTypes'
<1>1. sends + 1 \in Nat \ {0}
  BY DEF PageInv, Shapes
<1>2. /\ "domains" \in Kinds /\ view["domains"] \in View /\ busy \subseteq {"saving", "importing", "pwSaving"}
      /\ form \in FormSet
  BY DEF PageTypes, ScreenTypes, ShownTypes, Kinds
<1>3. CASE HandleImport
  <2> DEFINE r == Edit(sends + 1, "import", "domains", First, NoRow)
  <2>1. Fits(r)
    BY <1>1, <1>2, FirstView, AskFits DEF Edits
  <2>2. /\ Send({r}) /\ Acts /\ UNCHANGED <<connected, loading, view, table, selected, form>>
        /\ busy' = busy \cup {"importing"}
    BY <1>3 DEF HandleImport, Starts
  <2> HIDE DEF r
  <2> QED
    BY <1>2, <2>1, <2>2, StartTypes
<1>4. CASE HandleBulkDelete
  <2> DEFINE r == Edit(sends + 1, "bulk", "domains", view["domains"], NoRow)
  <2>1. Fits(r)
    BY <1>1, <1>2, AskFits DEF Edits
  <2>2. /\ Send({r}) /\ Acts /\ UNCHANGED <<connected, loading, view, table, selected, form>>
        /\ busy' = busy \cup {"saving"}
    BY <1>4 DEF HandleBulkDelete, Starts
  <2> HIDE DEF r
  <2> QED
    BY <1>2, <2>1, <2>2, StartTypes
<1>5. CASE SaveDNS
  <2> DEFINE r == PutConfig(sends + 1, form.val)
  <2>1. form.val \in Settings
    BY <1>2, <1>5 DEF SaveDNS, FormSet
  <2>2. Fits(r)
    BY <1>1, <2>1, AskFits
  <2>3. /\ Send({r}) /\ Acts /\ UNCHANGED <<connected, loading, view, table, selected, form>>
        /\ busy' = busy \cup {"saving"}
    BY <1>5 DEF SaveDNS, Starts
  <2> HIDE DEF r
  <2> QED
    BY <1>2, <2>2, <2>3, StartTypes
<1>6. CASE HandleChangePw
  <2> DEFINE r == ChangePassword(sends + 1)
  <2>1. Fits(r)
    BY <1>1, AskFits
  <2>2. /\ Send({r}) /\ Acts /\ UNCHANGED <<connected, loading, view, table, selected, form>>
        /\ busy' = busy \cup {"pwSaving"}
    BY <1>6 DEF HandleChangePw, Starts
  <2> HIDE DEF r
  <2> QED
    BY <1>2, <2>1, <2>2, StartTypes
<1>7. CASE Refresh
  <2> DEFINE r == GetConfig(sends + 1)
  <2>1. Fits(r)
    BY <1>1, AskFits
  <2>2. Send({r}) /\ Acts /\ UNCHANGED <<connected, loading, view, table, selected, form, busy>>
    BY <1>7 DEF Refresh, page
  <2> HIDE DEF r
  <2> QED
    BY <1>2, <2>1, <2>2, StartTypes
<1> QED
  BY <1>3, <1>4, <1>5, <1>6, <1>7

(* Boxes and fields. *)
LEMMA BoxTypes ==
    ASSUME PageInv, PageTypes, SelectAll \/ (\E i \in Ids : SelectOne(i)) \/ (\E x \in Settings : EditDNS(x))
    PROVE  PageTypes'
<1>1. UNCHANGED <<connected, loading, view, table, busy, out, sends, asked>> /\ Acts
  BY DEF SelectAll, SelectOne, EditDNS, net
<1>2. acts' \in 0 .. MaxActs /\ UNCHANGED <<kinds, rows, settings, faults>>
  BY <1>1, ActKeeps DEF PageTypes, ScreenTypes
<1>3. selected' \subseteq Ids
  <2>1. IdsOf(table["domains"].rows) \subseteq Ids
    <3>1. table["domains"] \in TableSet
      BY DEF PageTypes, ShownTypes, Kinds
    <3> QED
      BY <3>1 DEF TableSet, IdsOf, Row
  <2>2. selected \subseteq Ids
    BY DEF PageTypes, ScreenTypes
  <2>3. ASSUME SelectAll
        PROVE  selected' \subseteq selected \cup IdsOf(table["domains"].rows)
    <3> HIDE DEF IdsOf
    <3> QED
      BY <2>3 DEF SelectAll
  <2>4. ASSUME NEW i \in Ids, SelectOne(i)
        PROVE  selected' \subseteq selected \cup {i}
    BY <2>4 DEF SelectOne
  <2>5. ASSUME NEW x \in Settings, EditDNS(x)
        PROVE  selected' = selected
    BY <2>5 DEF EditDNS
  <2> QED
    BY <2>1, <2>2, <2>3, <2>4, <2>5
<1>4. form' \in FormSet
  <2>1. form \in FormSet
    BY DEF PageTypes, ShownTypes
  <2>2. ASSUME NEW x \in Settings, EditDNS(x)
        PROVE  form' \in FormSet
    <3>1. form' = [form EXCEPT !.val = x, !.typed = TRUE]
      BY <2>2 DEF EditDNS
    <3> QED
      BY <2>1, <3>1 DEF FormSet
  <2>3. CASE SelectAll \/ \E i \in Ids : SelectOne(i)
    BY <2>1, <2>3 DEF SelectAll, SelectOne
  <2> QED
    BY <2>2, <2>3
<1>5. ScreenTypes'
  BY <1>1, <1>2, <1>3 DEF PageTypes, ScreenTypes
<1> DEFINE S == {}
<1>6. out' = out \cup S /\ \A q \in S : Fits(q)
  BY <1>1
<1> HIDE DEF S
<1> QED
  BY <1>1, <1>2, <1>4, <1>5, <1>6, SentKeeps

(* Which views the controls offer. *)
LEMMA OfferedViews ==
    ASSUME PageTypes, NEW k \in Kinds,
           \/ TurnBack(k) \/ TurnOn(k)
           \/ \E t \in Texts : Search(k, t)
           \/ \E c \in Choices : Choose(k, c)
    PROVE  \E v \in View : ChangeView(k, v)
<1>1. view[k] \in View
  BY DEF PageTypes, ScreenTypes
<1>2. view[k].page \in Nat \ {0}
  BY <1>1 DEF View
<1>3. ASSUME NEW p \in Nat \ {0}, Turn(k, p)
      PROVE  \E v \in View : ChangeView(k, v)
  <2>1. [view[k] EXCEPT !.page = p] \in View
    BY <1>1 DEF View
  <2> QED
    BY <1>3, <2>1, Zenon DEF Turn
<1>4. ASSUME NEW t \in Texts, Search(k, t)
      PROVE  \E v \in View : ChangeView(k, v)
  <2>1. [view[k] EXCEPT !.page = 1, !.text = t] \in View
    <3>1. PICK w : w = [view[k] EXCEPT !.page = 1]
      OBVIOUS
    <3>2. w \in View
      BY <1>1, <3>1 DEF View
    <3>3. [w EXCEPT !.text = t] \in View
      BY <3>2 DEF View
    <3>4. [view[k] EXCEPT !.page = 1, !.text = t] = [w EXCEPT !.text = t]
      BY <3>1, Zenon
    <3> QED
      BY <3>3, <3>4
  <2> QED
    BY <1>4, <2>1, Zenon DEF Search
<1>5. ASSUME NEW c \in Choices, Choose(k, c)
      PROVE  \E v \in View : ChangeView(k, v)
  <2>1. [view[k] EXCEPT !.page = 1, !.choice = c] \in View
    <3>1. PICK w : w = [view[k] EXCEPT !.page = 1]
      OBVIOUS
    <3>2. w \in View
      BY <1>1, <3>1 DEF View
    <3>3. [w EXCEPT !.choice = c] \in View
      BY <3>2 DEF View
    <3>4. [view[k] EXCEPT !.page = 1, !.choice = c] = [w EXCEPT !.choice = c]
      BY <3>1, Zenon
    <3> QED
      BY <3>3, <3>4
  <2> QED
    BY <1>5, <2>1, Zenon DEF Choose
<1>6. ASSUME TurnBack(k)
      PROVE  \E v \in View : ChangeView(k, v)
  <2>1. view[k].page - 1 \in Nat \ {0}
    BY <1>2, <1>6 DEF TurnBack
  <2> QED
    BY <1>3, <1>6, <2>1, Zenon DEF TurnBack
<1>7. ASSUME TurnOn(k)
      PROVE  \E v \in View : ChangeView(k, v)
  <2>1. view[k].page + 1 \in Nat \ {0}
    BY <1>2
  <2> QED
    BY <1>3, <1>7, <2>1, Zenon DEF TurnOn
<1> QED
  BY <1>4, <1>5, <1>6, <1>7

(* The user keeps the types. *)
LEMMA UserTypes ==
    ASSUME PageInv, PageTypes, User
    PROVE  PageTypes'
<1>1. "domains" \in Kinds /\ "records" \in Kinds
  BY DEF Kinds
<1>2. ASSUME NEW k \in Kinds,
             \/ TurnBack(k) \/ TurnOn(k)
             \/ \E t \in Texts : Search(k, t)
             \/ \E c \in Choices : Choose(k, c)
      PROVE  PageTypes'
  BY <1>2, OfferedViews, LookTypes
<1>3. CASE DomainsToolbar \/ RecordsToolbar
  BY <1>1, <1>2, <1>3, ButtonTypes, Zenon
  DEF DomainsToolbar, RecordsToolbar, DomainSearch, DomainCatFilter, RecordSearch, RecordTypeFilter
<1>4. CASE DomainPager \/ RecordPager
  BY <1>1, <1>2, <1>4, Zenon DEF DomainPager, RecordPager
<1>5. CASE DomainsTable \/ RecordsTable \/ AddDomainForm \/ AddRecordForm \/ ImportForm
  BY <1>1, <1>5, RowTypes, BoxTypes, ButtonTypes, Zenon
  DEF DomainsTable, RecordsTable, AddDomainForm, AddRecordForm, ImportForm, ToggleDomain,
      HandleDeleteDomain, HandleAddDomain, ToggleRecord, HandleDeleteRecord, HandleAddRecord
<1>6. CASE Header \/ Notice \/ DNSTab \/ SecurityTab
  BY <1>6, ButtonTypes, BoxTypes, Zenon DEF Header, Notice, DNSTab, SecurityTab
<1> QED
  BY <1>3, <1>4, <1>5, <1>6, Zenon DEF User

------------------------------------------------------------------------------
(* Types of the server's steps and of misfortune.                            *)

(* Rows made for numbers are rows. *)
LEMMA MadeRows ==
    ASSUME NEW S \in SUBSET Ids
    PROVE  {[id |-> i, on |-> TRUE] : i \in S} \subseteq Row
<1>1. \A i \in S : [id |-> i, on |-> TRUE] \in Row
  BY DEF Row
<1> QED
  BY <1>1, Zenon

(* What an edit leaves are rows. *)
LEMMA AfterRows ==
    ASSUME PageTypes, NEW r, Fits(r), r.op \in Edits
    PROVE  After(r) \subseteq Row
<1>1. r.kind \in Kinds /\ rows[r.kind] \subseteq Row
  BY DEF Fits, PageTypes, ServerTypes
<1>2. r.op \in {"add", "toggle"} => r.row \in Row
  BY DEF Fits
<1>3. Without(r.kind, r.row.id) \subseteq Row
  BY <1>1 DEF Without
<1>4. {[id |-> i, on |-> TRUE] : i \in Ids \ IdsOf(rows[r.kind])} \subseteq Row
  <2>1. Ids \ IdsOf(rows[r.kind]) \in SUBSET Ids
    OBVIOUS
  <2> QED
    BY <2>1, MadeRows
<1>5. CASE r.op = "add"
  <2>1. After(r) = IF Has(r.kind, r.row.id) THEN rows[r.kind] ELSE rows[r.kind] \cup {r.row}
    BY <1>5 DEF After
  <2> QED
    BY <1>1, <1>2, <1>5, <2>1
<1>6. CASE r.op = "toggle"
  <2>1. After(r) = Without(r.kind, r.row.id) \cup {r.row}
    BY <1>6 DEF After
  <2> QED
    BY <1>2, <1>3, <1>6, <2>1
<1>7. CASE r.op = "delete"
  <2>1. After(r) = Without(r.kind, r.row.id)
    BY <1>7 DEF After
  <2> QED
    BY <1>3, <2>1
<1>8. CASE r.op = "import"
  <2>1. After(r) = rows[r.kind] \cup {[id |-> i, on |-> TRUE] : i \in Ids \ IdsOf(rows[r.kind])}
    BY <1>8 DEF After
  <2> QED
    BY <1>1, <1>4, <2>1
<1> QED
  BY <1>5, <1>6, <1>7, <1>8 DEF Edits

(* A request is answered. *)
LEMMA ServeTypes ==
    ASSUME RowsInv, PageTypes, NEW r, Serve(r)
    PROVE  PageTypes'
<1>1. r \in out /\ UNCHANGED <<kinds, connected, loading, view, table, selected, form, busy, acts, faults>>
  BY DEF Serve, page
<1>2. Fits(r) /\ (\A q \in out \ {r} : Fits(q)) /\ rows \in [Kinds -> SUBSET Row] /\ settings \in Settings
  BY <1>1 DEF PageTypes, SentTypes, ServerTypes
<1> DEFINE others == out \ {r}
           done == [r EXCEPT !.st = "done"]
           failed == [r EXCEPT !.st = "failed"]
           listed == [done EXCEPT !.ans = Listed(rows[r.kind], r.view)]
           told == [done EXCEPT !.val = settings]
           Simply(q) == out' = others \cup {q} /\ UNCHANGED <<rows, settings>>
           Marking(kind) == out' = Outdated(others, kind) \cup {done}
<1>3. Fits(done) /\ Fits(failed)
  <2>1. "done" \in {"sent", "done", "failed"} /\ "failed" \in {"sent", "done", "failed"}
    OBVIOUS
  <2> QED
    BY <1>2, <2>1, EditedFits, Zenon
<1>4. r.op = "rows" => Fits(listed)
  <2> SUFFICES ASSUME r.op = "rows"
               PROVE  Fits(listed)
    OBVIOUS
  <2>1. r.kind \in Kinds
    BY <1>2 DEF Fits
  <2>2. rows[r.kind] \in SUBSET Row /\ IsFiniteSet(rows[r.kind]) /\ Unique(rows[r.kind])
    BY <1>2, <2>1 DEF RowsInv, RowsOf, Stored
  <2>3. Listed(rows[r.kind], r.view) \in Answers
    BY <2>2, FewRows
  <2> HIDE DEF done
  <2> QED
    BY <1>3, <2>3, EditedFits, Zenon
<1>5. Fits(told)
  <2> HIDE DEF done
  <2> QED
    BY <1>2, <1>3, EditedFits, Zenon
<1>6. \/ Simply(failed) \/ Simply(done) \/ Simply(told)
      \/ r.op = "rows" /\ Simply(listed)
      \/ r.op = "save" /\ Marking("config") /\ settings' = r.val /\ UNCHANGED rows
      \/ r.op \in Edits /\ Marking(r.kind) /\ rows' = [rows EXCEPT ![r.kind] = After(r)] /\ UNCHANGED settings
  <2>1. server' = server => UNCHANGED <<rows, settings>>
    BY DEF server
  <2>2. CASE Rejected(r)
    BY <2>1, <2>2 DEF Serve
  <2>3. CASE ~Rejected(r) /\ r.op = "rows"
    BY <2>1, <2>3 DEF Serve
  <2>4. CASE ~Rejected(r) /\ r.op = "config"
    BY <2>1, <2>4 DEF Serve
  <2>5. CASE ~Rejected(r) /\ r.op = "save"
    BY <2>5 DEF Serve, Edits
  <2>6. CASE ~Rejected(r) /\ r.op \in Edits
    BY <2>6 DEF Serve, Edits
  <2>7. CASE ~Rejected(r) /\ r.op \notin {"rows", "config", "save"} \cup Edits
    BY <2>1, <2>7 DEF Serve, Edits
  <2> QED
    BY <2>2, <2>3, <2>4, <2>5, <2>6, <2>7
<1> HIDE DEF others, done, failed, listed, told
<1>7. \A q \in others : Fits(q)
  BY <1>2 DEF others
<1>8. \A kind : \A q \in Outdated(others, kind) : Fits(q)
  BY <1>7, OutdatedFits
<1>9. \A q \in out' : Fits(q)
  BY <1>3, <1>4, <1>5, <1>6, <1>7, <1>8
<1>10. ServerTypes'
  <2>1. r.op = "save" => r.val \in Settings
    BY <1>2 DEF Fits
  <2>2. r.op \in Edits => r.kind \in Kinds /\ After(r) \in SUBSET Row
    BY <1>2, AfterRows DEF Fits
  <2> QED
    BY <1>2, <1>6, <2>1, <2>2 DEF ServerTypes
<1> QED
  BY <1>1, <1>9, <1>10 DEF PageTypes, ScreenTypes, ShownTypes, SentTypes

(* What is forgotten leaves rows and settings as they are shown. *)
LEMMA ForgetTypes ==
    ASSUME ShownTypes, NEW kind, Forget(kind)
    PROVE  ShownTypes'
<1>1. table \in [Kinds -> TableSet] /\ form \in FormSet
  BY DEF ShownTypes
<1>2. table' \in [Kinds -> TableSet]
  <2>1. ASSUME kind \in Kinds
        PROVE  table' \in [Kinds -> TableSet]
    <3>1. PICK t : t = [table[kind] EXCEPT !.fresh = FALSE]
      OBVIOUS
    <3>2. table[kind] \in TableSet
      BY <1>1, <2>1
    <3>3. t \in TableSet
      BY <3>1, <3>2 DEF TableSet
    <3>4. table' = [table EXCEPT ![kind] = t]
      BY <2>1, <3>1, Zenon DEF Forget
    <3> QED
      BY <1>1, <3>3, <3>4
  <2>2. CASE kind \notin Kinds
    BY <1>1, <2>2 DEF Forget
  <2> QED
    BY <2>1, <2>2
<1>3. form' \in FormSet
  <2>1. CASE kind = "config"
    <3>1. form' = [form EXCEPT !.fresh = FALSE]
      BY <2>1 DEF Forget
    <3> QED
      BY <1>1, <3>1 DEF FormSet
  <2>2. CASE kind # "config"
    BY <1>1, <2>2 DEF Forget
  <2> QED
    BY <2>1, <2>2
<1> QED
  BY <1>2, <1>3 DEF ShownTypes

(* The bound on what goes wrong. *)
LEMMA FaultKeeps ==
    ASSUME Faults, ScreenTypes, UNCHANGED <<connected, loading, view, selected, busy>>
    PROVE  ScreenTypes'
<1>1. MaxFaults \in Nat
  BY AdminPageAssumption, Zenon
<1>2. faults' \in 0 .. MaxFaults /\ UNCHANGED <<kinds, acts>>
  BY <1>1 DEF Faults, ScreenTypes
<1> QED
  BY <1>2 DEF ScreenTypes

(* A request is refused, or its answer lost. *)
LEMMA LossTypes ==
    ASSUME PageTypes, NEW r \in out, Refuse(r) \/ Lose(r)
    PROVE  PageTypes'
<1> DEFINE failed == [r EXCEPT !.st = "failed"]
<1>1. Fits(failed)
  <2>1. Fits(r) /\ "failed" \in {"sent", "done", "failed"}
    BY DEF PageTypes, SentTypes
  <2> QED
    BY <2>1, EditedFits, Zenon
<1>2. out' = (out \ {r}) \cup {failed} /\ Faults
  BY DEF Refuse, Lose
<1> HIDE DEF failed
<1>3. SentTypes'
  BY <1>1, <1>2 DEF PageTypes, SentTypes
<1>4. UNCHANGED <<connected, loading, view, selected, busy, rows, settings>>
  BY DEF Refuse, Lose, page, server
<1>5. ScreenTypes'
  BY <1>2, <1>4, FaultKeeps DEF PageTypes
<1>6. ShownTypes'
  <2>1. Forget(r.kind) \/ UNCHANGED <<table, form>>
    BY DEF Refuse, Lose, page
  <2>2. CASE Forget(r.kind)
    BY <2>2, ForgetTypes DEF PageTypes
  <2>3. CASE UNCHANGED <<table, form>>
    BY <2>3 DEF PageTypes, ShownTypes
  <2> QED
    BY <2>1, <2>2, <2>3
<1> QED
  BY <1>3, <1>4, <1>5, <1>6 DEF PageTypes, ServerTypes

(* The rows are changed elsewhere. *)
LEMMA ElsewhereTypes ==
    ASSUME PageTypes, NEW k \in Kinds, NEW i \in Ids, Elsewhere(k, i)
    PROVE  PageTypes'
<1>1. /\ out' = Outdated(out, k) /\ Faults /\ Forget(k)
      /\ UNCHANGED <<connected, loading, view, selected, busy, settings>>
  BY DEF Elsewhere
<1>2. ScreenTypes' /\ ShownTypes'
  BY <1>1, FaultKeeps, ForgetTypes DEF PageTypes
<1>3. SentTypes'
  BY <1>1, OutdatedFits DEF PageTypes, SentTypes
<1>4. rows' \in [Kinds -> SUBSET Row]
  <2>1. rows \in [Kinds -> SUBSET Row]
    BY DEF PageTypes, ServerTypes
  <2>2. rows' = [rows EXCEPT ![k] = IF Has(k, i) THEN Without(k, i) ELSE rows[k] \cup {[id |-> i, on |-> TRUE]}]
    BY DEF Elsewhere
  <2>3. Without(k, i) \subseteq Row /\ rows[k] \cup {[id |-> i, on |-> TRUE]} \subseteq Row
    <3>1. [id |-> i, on |-> TRUE] \in Row
      BY DEF Row
    <3> QED
      BY <2>1, <3>1 DEF Without
  <2> QED
    BY <2>1, <2>2, <2>3
<1> QED
  BY <1>1, <1>2, <1>3, <1>4 DEF PageTypes, ServerTypes

------------------------------------------------------------------------------
(* Types of the answers.                                                     *)

(* An answer arrives; requests may follow. *)
LEMMA ArrivedKeeps ==
    ASSUME PageTypes, NEW S, out' \subseteq out \cup S, \A q \in S : Fits(q),
           connected' \in {"unknown", "yes", "no"}, loading' \in BOOLEAN,
           busy' \subseteq {"saving", "importing", "pwSaving"}, ShownTypes',
           UNCHANGED <<kinds, view, selected, acts, faults, rows, settings>>
    PROVE  PageTypes'
<1>1. SentTypes'
  BY DEF PageTypes, SentTypes
<1>2. ScreenTypes'
  BY DEF PageTypes, ScreenTypes
<1> QED
  BY <1>1, <1>2 DEF PageTypes, ServerTypes

(* The settings arrive, and with them loadAll's other requests. *)
LEMMA ConfigTypes ==
    ASSUME PageInv, PageTypes, NEW r \in out, ConfigArrives(r)
    PROVE  PageTypes'
<1>1. Fits(r) /\ view["domains"] \in View /\ view["records"] \in View /\ busy \subseteq {"saving", "importing", "pwSaving"}
  BY DEF PageTypes, ScreenTypes, SentTypes, Kinds
<1> DEFINE all == {LoadDomains(sends + 1, First, "all"), LoadRecords(sends + 2, First, "all")}
           effects == {LoadDomains(sends + 3, view["domains"], "effect"),
                       LoadRecords(sends + 4, view["records"], "effect")}
           new == {q \in IF connected = "yes" THEN all ELSE all \cup effects : q.kind \in kinds}
           S == all \cup effects
<1>2. /\ out' = (out \ {r}) \cup new
      /\ form' = [val |-> r.val, typed |-> FALSE, fresh |-> r.fresh]
      /\ connected' = "yes" /\ loading' = FALSE
      /\ UNCHANGED <<kinds, view, table, selected, busy, acts, faults, rows, settings>>
  BY DEF ConfigArrives, server
<1>3. \A q \in S : Fits(q)
  <2>1. sends + 1 \in Nat \ {0} /\ sends + 2 \in Nat \ {0} /\ sends + 3 \in Nat \ {0} /\ sends + 4 \in Nat \ {0}
    BY DEF PageInv, Shapes
  <2>2. \A n \in Nat \ {0} : \A v \in View : \A by \in {"all", "effect"} :
          Fits(LoadDomains(n, v, by)) /\ Fits(LoadRecords(n, v, by))
    BY AskFits DEF LoadDomains, LoadRecords, Kinds
  <2> HIDE DEF Fits
  <2> QED
    BY <1>1, <2>1, <2>2, FirstView
<1>4. out' \subseteq out \cup S
  <2> HIDE DEF all, effects
  <2> QED
    BY <1>2
<1> HIDE DEF S, new
<1>5. ShownTypes'
  <2>1. r.val \in Settings \cup {"none"} /\ r.fresh \in BOOLEAN
    BY <1>1 DEF Fits, RequestSet
  <2>2. form' \in FormSet
    BY <1>2, <2>1 DEF FormSet
  <2> QED
    BY <1>2, <2>2 DEF PageTypes, ShownTypes
<1> QED
  BY <1>1, <1>2, <1>3, <1>4, <1>5, ArrivedKeeps

(* An edit's answer asks for the rows again. *)
LEMMA EditTypes ==
    ASSUME PageInv, PageTypes, NEW r \in out, EditArrives(r)
    PROVE  PageTypes'
<1>1. Fits(r) /\ r.op \in Edits
  BY DEF PageTypes, SentTypes, EditArrives, Arrived, Edits
<1> DEFINE S == {GetRows(sends + 1, r.kind, r.view, "handler")}
<1>2. /\ out' = (out \ {r}) \cup S /\ busy' \subseteq busy
      /\ UNCHANGED <<kinds, connected, loading, view, table, selected, form, acts, faults, rows, settings>>
  BY DEF EditArrives, server
<1>3. \A q \in S : Fits(q)
  <2>1. sends + 1 \in Nat \ {0}
    BY DEF PageInv, Shapes
  <2>2. r.kind \in Kinds /\ r.view \in View
    BY <1>1 DEF Fits, RequestSet
  <2> QED
    BY <2>1, <2>2, AskFits
<1> HIDE DEF S
<1>4. ShownTypes'
  BY <1>2 DEF PageTypes, ShownTypes
<1>5. /\ connected \in {"unknown", "yes", "no"} /\ loading \in BOOLEAN
      /\ busy \subseteq {"saving", "importing", "pwSaving"}
  BY DEF PageTypes, ScreenTypes
<1> QED
  BY <1>2, <1>3, <1>4, <1>5, ArrivedKeeps

(* A table takes the rows that arrive. *)
LEMMA RowsShown ==
    ASSUME PageTypes, NEW r \in out, RowsArrive(r)
    PROVE  ShownTypes'
<1>1. r \in RequestSet /\ r.kind \in Kinds /\ table \in [Kinds -> TableSet] /\ form \in FormSet
  BY DEF PageTypes, SentTypes, ShownTypes, Fits, RowsArrive, Arrived
<1>2. PICK t : t = [rows |-> r.ans.rows, total |-> r.ans.total, n |-> r.n, by |-> r.by,
                    view |-> r.view, fresh |-> r.fresh]
  OBVIOUS
<1>3. t \in TableSet
  <2>1. r.ans.rows \in SUBSET Row /\ r.ans.total \in 0 .. MaxId
    BY <1>1 DEF RequestSet, Answers
  <2> QED
    BY <1>1, <1>2, <2>1 DEF RequestSet, TableSet
<1>4. table' = [table EXCEPT ![r.kind] = t] /\ form' = form
  BY <1>2 DEF RowsArrive
<1> QED
  BY <1>1, <1>3, <1>4 DEF ShownTypes

(* A row of a table is replaced by the one that arrives. *)
LEMMA ToggleShown ==
    ASSUME PageTypes, NEW r \in out, ToggleArrives(r)
    PROVE  ShownTypes'
<1>1. /\ r \in RequestSet /\ r.kind \in Kinds /\ r.row \in Row
      /\ table \in [Kinds -> TableSet] /\ form \in FormSet
  BY DEF PageTypes, SentTypes, ShownTypes, Fits, ToggleArrives, Arrived, Edits
<1>2. PICK F, G : /\ table' = [table EXCEPT ![r.kind].rows = F, ![r.kind].fresh = G]
                  /\ F = Patch(r.row, table[r.kind].rows)
                  /\ G = (table[r.kind].fresh /\ r.fresh)
  BY Zenon DEF ToggleArrives, Patch
<1>3. F \subseteq Row
  <2>1. table[r.kind].rows \subseteq Row
    BY <1>1 DEF TableSet
  <2> QED
    BY <1>1, <1>2, <2>1 DEF Patch
<1>4. G \in BOOLEAN
  <2>1. (table[r.kind].fresh /\ r.fresh) \in BOOLEAN
    OBVIOUS
  <2> QED
    BY <1>2, <2>1, Zenon
<1>5. PICK t : t = [table[r.kind] EXCEPT !.rows = F]
  OBVIOUS
<1>6. t \in TableSet
  BY <1>1, <1>3, <1>5 DEF TableSet
<1>7. PICK u : u = [t EXCEPT !.fresh = G]
  OBVIOUS
<1>8. u \in TableSet
  BY <1>4, <1>6, <1>7, Zenon DEF TableSet
<1>9. DOMAIN table = Kinds
  BY <1>1
<1>10. table' = [table EXCEPT ![r.kind] = u]
  BY <1>1, <1>2, <1>5, <1>7, <1>9, Zenon
<1>11. form' = form
  BY DEF ToggleArrives
<1> QED
  BY <1>1, <1>8, <1>10, <1>11 DEF ShownTypes

(* The other answers change the form and the spinners at most. *)
LEMMA AnswerTypes ==
    ASSUME PageTypes, NEW r \in out,
           \/ ConfigFails(r) \/ RowsArrive(r) \/ RowsFail(r) \/ ToggleArrives(r) \/ SaveArrives(r)
           \/ PasswordArrives(r) \/ EditFails(r)
    PROVE  PageTypes'
<1> DEFINE S == {}
<1>1. /\ out' \subseteq out \cup S /\ busy' \subseteq busy
      /\ UNCHANGED <<kinds, view, selected, acts, faults, rows, settings>>
  BY DEF ConfigFails, RowsArrive, RowsFail, ToggleArrives, SaveArrives, PasswordArrives, EditFails,
         Received, page, server
<1>2. /\ connected' \in {connected, "no"} /\ loading' \in {loading, FALSE}
  BY DEF ConfigFails, RowsArrive, RowsFail, ToggleArrives, SaveArrives, PasswordArrives, EditFails, page
<1>3. ShownTypes'
  <2>1. CASE RowsArrive(r) \/ ToggleArrives(r)
    BY <2>1, RowsShown, ToggleShown
  <2>2. CASE SaveArrives(r)
    <3>1. form' = [val |-> r.val, typed |-> FALSE, fresh |-> r.fresh] /\ table' = table
      BY <2>2 DEF SaveArrives
    <3>2. r.val \in Settings \cup {"none"} /\ r.fresh \in BOOLEAN
      BY DEF PageTypes, SentTypes, Fits, RequestSet
    <3>3. form' \in FormSet
      BY <3>1, <3>2 DEF FormSet
    <3> QED
      BY <3>1, <3>3 DEF PageTypes, ShownTypes
  <2>3. CASE ConfigFails(r) \/ RowsFail(r) \/ PasswordArrives(r) \/ EditFails(r)
    <3>1. UNCHANGED <<table, form>>
      BY <2>3 DEF ConfigFails, RowsFail, PasswordArrives, EditFails, page
    <3> QED
      BY <3>1 DEF PageTypes, ShownTypes
  <2> QED
    BY <2>1, <2>2, <2>3
<1>4. \A q \in S : Fits(q)
  OBVIOUS
<1> HIDE DEF S
<1>5. /\ connected \in {"unknown", "yes", "no"} /\ loading \in BOOLEAN
      /\ busy \subseteq {"saving", "importing", "pwSaving"}
  BY DEF PageTypes, ScreenTypes
<1>6. connected' \in {"unknown", "yes", "no"} /\ loading' \in BOOLEAN
  BY <1>2, <1>5
<1> QED
  BY <1>1, <1>3, <1>4, <1>5, <1>6, ArrivedKeeps

------------------------------------------------------------------------------
(* The theorem.                                                              *)

(* The page opens with empty tables and one request. *)
LEMMA InitTypes ==
    ASSUME Init
    PROVE  PageTypes
<1>1. First \in View /\ MaxId \in Nat /\ MaxActs \in Nat /\ MaxFaults \in Nat /\ Opening \in Settings
      /\ Start \subseteq SUBSET Ids
  BY AdminPageAssumption, FirstView, Zenon
<1>2. /\ kinds \in Tables /\ connected = "unknown" /\ loading = TRUE
      /\ view = [k \in Kinds |-> First] /\ selected = {} /\ busy = {} /\ acts = 0 /\ faults = 0
  BY DEF Init
<1>3. ScreenTypes
  BY <1>1, <1>2 DEF ScreenTypes
<1>4. ShownTypes
  <2>1. PICK t : t = [rows |-> {}, total |-> 0, n |-> 0, by |-> "none", view |-> First, fresh |-> FALSE]
    OBVIOUS
  <2>2. t \in TableSet
    BY <1>1, <2>1 DEF TableSet
  <2>3. table = [k \in Kinds |-> t] /\ form = [val |-> "none", typed |-> FALSE, fresh |-> FALSE]
    BY <2>1 DEF Init
  <2>4. form \in FormSet
    BY <2>3 DEF FormSet
  <2> QED
    BY <2>2, <2>3, <2>4 DEF ShownTypes
<1>5. SentTypes
  <2>1. out = {GetConfig(1)} /\ 1 \in Nat \ {0}
    BY DEF Init
  <2> QED
    BY <2>1, AskFits DEF SentTypes
<1>6. ServerTypes
  <2>1. rows \in [Kinds -> {{[id |-> i, on |-> TRUE] : i \in S} : S \in Start}] /\ settings = Opening
    BY DEF Init
  <2>2. \A S \in Start : {[id |-> i, on |-> TRUE] : i \in S} \subseteq Row
    BY <1>1, MadeRows
  <2> QED
    BY <1>1, <2>1, <2>2 DEF ServerTypes
<1> QED
  BY <1>3, <1>4, <1>5, <1>6 DEF PageTypes

(* Every step keeps the types. *)
THEOREM TypesInvariant == Spec => []PageTypes
<1>1. ASSUME RowsInv, PageInv, PageTypes, [Next]_vars
      PROVE  PageTypes'
  <2>1. CASE User
    BY <1>1, <2>1, UserTypes
  <2>2. CASE Served
    BY <1>1, <2>2, ServeTypes DEF Served
  <2>3. CASE Arrives
    BY <1>1, <2>3, ConfigTypes, EditTypes, AnswerTypes, Zenon DEF Arrives
  <2>4. CASE Misfortune
    BY <1>1, <2>4, LossTypes, ElsewhereTypes, Zenon DEF Misfortune
  <2>5. CASE UNCHANGED vars
    BY <1>1, <2>5 DEF vars, page, net, server, PageTypes, ScreenTypes, ShownTypes, SentTypes, ServerTypes
  <2> QED
    BY <1>1, <2>1, <2>2, <2>3, <2>4, <2>5 DEF Next
<1>2. Spec => []RowsInv
  BY RowsInvariant
<1>3. Spec => []PageInv
  BY PageInvariant
<1>4. Init => PageTypes
  BY InitTypes
<1> QED
  BY <1>1, <1>2, <1>3, <1>4, PTL DEF Spec

(* Everything the page keeps, sends and is answered has its type; above all, *)
(* a page number is at least one, a total no more than there are rows, the   *)
(* boxes that are ticked those of rows, and what is saved are settings.      *)
THEOREM PageTypeCorrect == Spec => []TypeOK
<1>1. PageInv /\ PageTypes => TypeOK
  BY TypesEnough
<1> QED
  BY <1>1, PageInvariant, TypesInvariant, PTL

------------------------------------------------------------------------------
(* The pages of a table.                                                     *)

(* Turning through the pages that the pager counts shows every row that      *)
(* matches the filters on exactly one page; all pages but the last are full, *)
(* and there is nothing after the last.                                      *)
EachOnOnePage(S, v) ==
    LET listed(p) == PageOf(S, [v EXCEPT !.page = p])
        last == Pages(Cardinality(Matching(S, v)))
    IN  /\ \A r \in Matching(S, v) : \E p \in 1 .. last :
             r \in listed(p) /\ \A q \in Nat \ {0} : r \in listed(q) => q = p
        /\ \A p \in 1 .. (last - 1) : Cardinality(listed(p)) = Limit
        /\ \A p \in Nat \ {0} : listed(p) \subseteq Matching(S, v) /\ (p > last => listed(p) = {})

(* The place of a row: how many there are with its number or a higher one.   *)
RankIn(M, r) == Cardinality({q \in M : q.id >= r.id})

(* Rows of different numbers have different places, and take all of them.    *)
LEMMA PlacesTaken ==
    ASSUME NEW M \in SUBSET Row, IsFiniteSet(M), Unique(M)
    PROVE  /\ Cardinality(M) \in Nat
           /\ \A r \in M : RankIn(M, r) \in 1 .. Cardinality(M)
           /\ \A q, r \in M : RankIn(M, q) = RankIn(M, r) => q = r
           /\ \A i \in 1 .. Cardinality(M) : \E r \in M : RankIn(M, r) = i
<1> DEFINE Up(r) == {q \in M : q.id >= r.id}
           n == Cardinality(M)
           f == [r \in M |-> RankIn(M, r)]
<1>1. \A r \in M : r.id \in Nat
  <2>1. MaxId \in Nat
    BY AdminPageAssumption, Zenon
  <2> QED
    BY <2>1 DEF Row, Ids
<1>2. n \in Nat
  BY FS_CardinalityType
<1>3. \A r \in M : RankIn(M, r) = Cardinality(Up(r))
  BY DEF RankIn
<1>4. \A r \in M : Up(r) \in SUBSET M /\ r \in Up(r)
  BY <1>1
<1>5. \A q, r \in M : q.id > r.id => Up(q) \in SUBSET Up(r) /\ r \notin Up(q)
  BY <1>1
<1> HIDE DEF Up
<1>6. ASSUME NEW r \in M
      PROVE  IsFiniteSet(Up(r)) /\ Cardinality(Up(r)) \in 1 .. n
  <2>1. IsFiniteSet(Up(r)) /\ Cardinality(Up(r)) <= n
    BY <1>4, FS_Subset
  <2>2. Cardinality(Up(r)) \in Nat
    BY <2>1, FS_CardinalityType
  <2>3. Cardinality(Up(r)) # 0
    BY <1>4, <2>1, FS_EmptySet
  <2> QED
    BY <1>2, <2>1, <2>2, <2>3
<1>7. ASSUME NEW q \in M, NEW r \in M, q.id > r.id
      PROVE  Cardinality(Up(q)) # Cardinality(Up(r))
  <2>1. Up(q) \in SUBSET Up(r) /\ IsFiniteSet(Up(r)) /\ Up(q) # Up(r)
    BY <1>4, <1>5, <1>6, <1>7
  <2> QED
    BY <2>1, FS_Subset
<1>8. \A q, r \in M : RankIn(M, q) = RankIn(M, r) => q = r
  <2> SUFFICES ASSUME NEW q \in M, NEW r \in M, RankIn(M, q) = RankIn(M, r)
               PROVE  q = r
    OBVIOUS
  <2>1. ~(q.id > r.id) /\ ~(r.id > q.id)
    BY <1>3, <1>7
  <2>2. q.id = r.id
    BY <1>1, <2>1
  <2> QED
    BY <2>2 DEF Unique
<1>9. \A r \in M : RankIn(M, r) \in 1 .. n
  BY <1>3, <1>6
<1>10. f \in Injection(M, 1 .. n)
  BY <1>8, <1>9 DEF Injection, IsInjective
<1>11. IsFiniteSet(1 .. n) /\ Cardinality(1 .. n) = n
  <2>1. IsFiniteSet(1 .. n) /\ Cardinality(1 .. n) = IF 1 > n THEN 0 ELSE n - 1 + 1
    BY <1>2, FS_Interval
  <2> QED
    BY <1>2, <2>1
<1>12. f \in Surjection(M, 1 .. n)
  <2> HIDE DEF f
  <2> QED
    BY <1>10, <1>11, FS_Injection
<1>13. \A i \in 1 .. n : \E r \in M : f[r] = i
  <2> HIDE DEF f
  <2> QED
    BY <1>12 DEF Surjection
<1> QED
  BY <1>2, <1>8, <1>9, <1>13

(* The number of the page of a place, rounded up. *)
LEMMA RoundedUp ==
    ASSUME NEW a \in Nat \ {0}, NEW b \in Nat \ {0}
    PROVE  LET p == (a + b - 1) \div b IN p \in Nat \ {0} /\ (p - 1) * b < a /\ a <= p * b
<1>1. PICK c \in Nat : c = a + b - 1
  OBVIOUS
<1>2. PICK p \in Int : p = c \div b
  BY <1>1
<1>3. b * p <= c /\ c < b * p + b
  BY <1>1, <1>2
<1>4. (p - 1) * b = p * b - b /\ b * p = p * b
  BY <1>1
<1>5. (p - 1) * b < a /\ a <= p * b
  BY <1>1, <1>3, <1>4
<1>6. p > 0
  BY <1>1, <1>5
<1> QED
  BY <1>1, <1>2, <1>5, <1>6

(* A place is on one page only. *)
LEMMA OnePage ==
    ASSUME NEW p \in Nat, NEW q \in Nat, NEW b \in Nat, p <= q
    PROVE  p * b <= q * b
<1>1. q = p + (q - p) /\ q - p \in Nat
  OBVIOUS
<1>2. q * b = p * b + (q - p) * b
  BY <1>1
<1>3. (q - p) * b >= 0
  BY <1>1
<1> QED
  BY <1>2, <1>3

(* So each row has its page, for any rows of different numbers.              *)
LEMMA PagesOfRows ==
    ASSUME NEW S \in SUBSET Row, IsFiniteSet(S), Unique(S), NEW v \in View
    PROVE  EachOnOnePage(S, v)
<1> DEFINE M == Matching(S, v)
           n == Cardinality(M)
           last == Pages(n)
           listed(p) == PageOf(S, [v EXCEPT !.page = p])
<1>1. Limit \in Nat \ {0}
  BY AdminPageAssumption, Zenon
<1>2. M \in SUBSET Row /\ IsFiniteSet(M) /\ Unique(M)
  <2>1. M \in SUBSET S
    BY DEF Matching
  <2> HIDE DEF M
  <2> QED
    BY <2>1, FS_Subset DEF Unique
<1>3. \A p \in Nat \ {0} : listed(p) = {r \in M : RankIn(M, r) > (p - 1) * Limit /\ RankIn(M, r) <= p * Limit}
  <2> TAKE p \in Nat \ {0}
  <2>1. PICK w : w = [v EXCEPT !.page = p]
    OBVIOUS
  <2>2. w.page = p /\ w.text = v.text /\ w.choice = v.choice
    BY <2>1 DEF View
  <2>3. Matching(S, w) = M
    BY <2>2 DEF Matching
  <2>4. PageOf(S, w) = {r \in M : RankIn(M, r) > (p - 1) * Limit /\ RankIn(M, r) <= p * Limit}
    BY <2>2, <2>3 DEF PageOf, RankIn
  <2> QED
    BY <2>1, <2>4
<1> HIDE DEF M
<1>4. /\ n \in Nat
      /\ \A r \in M : RankIn(M, r) \in 1 .. n
      /\ \A q, r \in M : RankIn(M, q) = RankIn(M, r) => q = r
      /\ \A i \in 1 .. n : \E r \in M : RankIn(M, r) = i
  BY <1>2, PlacesTaken
<1>5. last \in Nat \ {0} /\ n <= last * Limit /\ (last > 1 => (last - 1) * Limit < n)
  <2>1. CASE n = 0
    <3>1. last = 1
      BY <2>1 DEF Pages
    <3> QED
      BY <1>1, <2>1, <3>1
  <2>2. CASE n # 0
    <3>1. last = (n + Limit - 1) \div Limit
      BY <2>2 DEF Pages
    <3>2. n \in Nat \ {0}
      BY <1>4, <2>2
    <3> HIDE DEF n, last
    <3> QED
      BY <1>1, <3>1, <3>2, RoundedUp
  <2> QED
    BY <2>1, <2>2
<1> HIDE DEF n, last, listed
<1>6. ASSUME NEW r \in M
      PROVE  \E p \in 1 .. last : r \in listed(p) /\ \A q \in Nat \ {0} : r \in listed(q) => q = p
  <2>1. PICK a \in 1 .. n : a = RankIn(M, r)
    BY <1>4
  <2>2. PICK p \in Nat \ {0} : (p - 1) * Limit < a /\ a <= p * Limit
    <3>1. a \in Nat \ {0}
      BY <1>4, <2>1
    <3> QED
      BY <1>1, <3>1, RoundedUp
  <2>3. ASSUME NEW q \in Nat \ {0}, NEW s \in Nat \ {0}, (q - 1) * Limit < a, a <= s * Limit
        PROVE  q <= s
    <3>1. ~(s <= q - 1)
      <4>1. SUFFICES ASSUME s <= q - 1
                     PROVE  FALSE
        OBVIOUS
      <4>2. s * Limit <= (q - 1) * Limit
        BY <1>1, <4>1, OnePage
      <4> QED
        BY <1>1, <1>4, <2>1, <2>3, <4>2
    <3> QED
      BY <3>1
  <2>4. p <= last
    <3>1. a <= last * Limit
      BY <1>1, <1>4, <1>5, <2>1
    <3> QED
      BY <1>5, <2>2, <2>3, <3>1
  <2>5. r \in listed(p)
    BY <1>3, <2>1, <2>2
  <2>6. ASSUME NEW q \in Nat \ {0}, r \in listed(q)
        PROVE  q = p
    <3>1. (q - 1) * Limit < a /\ a <= q * Limit
      BY <1>1, <1>3, <1>4, <2>1, <2>6
    <3>2. q <= p /\ p <= q
      BY <2>2, <2>3, <3>1
    <3> QED
      BY <3>2
  <2>7. p \in 1 .. last
    BY <1>5, <2>4
  <2> QED
    BY <2>5, <2>6, <2>7
<1>7. ASSUME NEW p \in 1 .. (last - 1)
      PROVE  Cardinality(listed(p)) = Limit
  <2>0. p \in Nat \ {0} /\ last - 1 \in Nat /\ p <= last - 1 /\ last > 1
    BY <1>5
  <2>1. p * Limit < n
    <3>1. p * Limit <= (last - 1) * Limit
      BY <1>1, <2>0, OnePage
    <3> QED
      BY <1>1, <1>4, <1>5, <2>0, <3>1
  <2> DEFINE low == (p - 1) * Limit
             T == (low + 1) .. (low + Limit)
             f == [r \in listed(p) |-> RankIn(M, r)]
  <2>2. low \in Nat /\ p * Limit = low + Limit
    BY <1>1, <2>0
  <2>3. listed(p) = {r \in M : RankIn(M, r) > low /\ RankIn(M, r) <= low + Limit}
    BY <1>3, <2>0, <2>2
  <2> HIDE DEF low
  <2>4. \A r \in listed(p) : RankIn(M, r) \in T
    BY <1>1, <1>4, <2>2, <2>3
  <2>5. \A i \in T : \E r \in listed(p) : RankIn(M, r) = i
    BY <1>1, <1>4, <2>1, <2>2, <2>3
  <2>6. f \in Injection(listed(p), T)
    BY <1>4, <2>3, <2>4 DEF Injection, IsInjective
  <2>7. f \in Surjection(listed(p), T)
    BY <2>4, <2>5 DEF Surjection
  <2>8. IsFiniteSet(T) /\ Cardinality(T) = Limit
    <3>1. IsFiniteSet(T) /\ Cardinality(T) = IF low + 1 > low + Limit THEN 0 ELSE (low + Limit) - (low + 1) + 1
      BY <1>1, <2>2, FS_Interval
    <3> QED
      BY <1>1, <2>2, <3>1
  <2> HIDE DEF T, f
  <2> QED
    BY <2>6, <2>7, <2>8, FS_Injection
<1>8. ASSUME NEW p \in Nat \ {0}
      PROVE  listed(p) \subseteq M /\ (p > last => listed(p) = {})
  <2>1. listed(p) \subseteq M
    BY <1>3
  <2>2. ASSUME p > last, NEW r \in listed(p)
        PROVE  FALSE
    <3>1. last * Limit <= (p - 1) * Limit
      BY <1>1, <1>5, <2>2, OnePage
    <3>2. RankIn(M, r) > (p - 1) * Limit /\ RankIn(M, r) \in 1 .. n
      BY <1>3, <1>4, <2>1, <2>2
    <3> QED
      BY <1>1, <1>4, <1>5, <3>1, <3>2
  <2> QED
    BY <2>1, <2>2
<1> QED
  BY <1>6, <1>7, <1>8 DEF EachOnOnePage, M, n, last, listed

(* Whatever the server holds, and whichever filters are chosen, the pages    *)
(* that the pager offers (domainPages, recordPages) are those that the       *)
(* server fills, and miss no row.                                            *)
THEOREM PagesCorrect == Spec => [](\A k \in Kinds : \A v \in View : EachOnOnePage(rows[k], v))
<1>1. RowsInv /\ PageTypes => \A k \in Kinds : \A v \in View : EachOnOnePage(rows[k], v)
  BY PagesOfRows DEF RowsInv, RowsOf, Stored, PageTypes, ServerTypes
<1> QED
  BY <1>1, RowsInvariant, TypesInvariant, PTL
==============================================================================
