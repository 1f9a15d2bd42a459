------------------------------- MODULE AdminTabs -------------------------------
(* The tabs of the admin page beside its two tables: those with a list that  *)
(* is kept in step by hand (ListTabs) and those that only look (LogTabs).    *)
(* They share the screen and nothing else, so that a behaviour is one of a   *)
(* list or one of a log.                                                     *)
EXTENDS ListTabs, LogTabs

tabsVars == <<listVars, logVars>>

TabsInit == ListInit /\ LogInit /\ (list = "off") # (log = "off")

ListStep == ListNext /\ UNCHANGED logVars
LogStep == LogNext /\ UNCHANGED listVars
TabsNext == ListStep \/ LogStep

TabsSpec == TabsInit /\ [][TabsNext]_tabsVars

(* Requests end, one way or another, their answers are handled, and the      *)
(* browser's timers fire; the user and failures owe nothing.                 *)
TabsFairSpec ==
    /\ TabsSpec
    /\ WF_tabsVars(ServeCall /\ UNCHANGED logVars)
    /\ WF_tabsVars(ListAnswers /\ UNCHANGED logVars)
    /\ WF_tabsVars(TimerFires /\ UNCHANGED logVars)
    /\ WF_tabsVars(ServeLook /\ UNCHANGED listVars)
    /\ WF_tabsVars(LogAnswers /\ UNCHANGED listVars)

TabsTypeOK == ListTypeOK /\ LogTypeOK

(* Every spinner and every disabled button waits for a request that is out.  *)
SpinnersAreHonest == ListSpinnersAreHonest /\ LogSpinnersAreHonest

(* Whichever tab it is comes to rest: its requests and timers end and so do  *)
(* its spinners, though each timer sends a request of its own.               *)
TabsSettle == <>[](ListAtRest /\ LogAtRest)
===============================================================================
