----------------------------- MODULE AdminPanels -----------------------------
(***************************************************************************)
(* The admin tabs (AdminInteractions to AdminContracts in                  *)
(* static/admin.js): which tab is in front, what its panels read and when, *)
(* the refresh timer, the operator's actions and the toast that answers    *)
(* them.  A step is one callback of the page.                              *)
(***************************************************************************)
EXTENDS PanelReads

CONSTANTS
  Ranges,    \* HISTORY_RANGES
  FirstRange, \* the range stored, or the default
  MaxPage,   \* bound: pages of the audit log
  MaxClicks  \* bound: clicks and turns of the refresh timer, all told

ASSUME PanelAssumption == FirstRange \in Ranges /\ MaxPage \in Nat \ {0} /\ MaxClicks \in Nat

VARIABLES
  tab,        \* activeTab
  range,      \* localStorage: the range of every history view
  auditPage,  \* _auditLogPage
  refreshing, \* refreshSubscription: the timer runs
  requests,   \* the operator's actions under way, and the read of the runs they wait for
  spinner,    \* trigger-spinner, one for both sources
  toast       \* what is shown, and the timer that is to hide or to remove it

tabVars == <<tab, range, auditPage, refreshing, requests, spinner, toast>>
-----------------------------------------------------------------------------
Tabs    == {"overview", "extractions", "dlq", "users", "storage", "queue-trends",
            "system-health", "audit-log", "extraction-analysis", "ledger"}
Sources == {"discogs", "musicbrainz"}
Hidden  == [text |-> None, timer |-> None]

\* The constructor.
TabsInit ==
  /\ tab = "overview" /\ range = FirstRange /\ auditPage = 1 /\ refreshing = FALSE
  /\ requests = {} /\ spinner = FALSE /\ toast = Hidden
-----------------------------------------------------------------------------
(* What a tab reads *)

LoadExtractions       == Only("runs", "all")       \* loadExtractions
FetchUsers            == [users |-> "all", sync |-> "all"]  \* fetchUserStats, fetchSyncActivity
FetchStorage          == Only("storage", "all")    \* fetchStorage
FetchQueueHistory(r)  == Only("queues", r)         \* fetchQueueHistory
FetchHealthHistory(r) == Only("health", r)         \* fetchHealthHistory
FetchAuditLog(page)   == Only("audit", page)       \* fetchAuditLog

\* _refreshHistory: only the history in front.
RefreshHistory(t, r) ==
  IF t = "queue-trends" THEN FetchQueueHistory(r) ELSE FetchHealthHistory(r)

\* switchTab and the refresh timer: what the tab t reads.
TabReads(t) ==
  CASE t = "users"   -> FetchUsers
    [] t = "storage" -> FetchStorage
    [] t \in {"queue-trends", "system-health"} -> RefreshHistory(t, range)
    [] t = "audit-log" -> FetchAuditLog(auditPage)
    [] OTHER -> Nought

\* showToast: a toast shown before is replaced, and its timers with it.
ShowToast(text) == toast' = [text |-> text, timer |-> "hide"]
-----------------------------------------------------------------------------
(* The session *)

\* showPanel: the overview is in front, the runs are read and the refresh timer starts.
StartPanels ==
  /\ tab' = "overview" /\ refreshing' = TRUE
  /\ Send(LoadExtractions)
  /\ UNCHANGED <<range, auditPage, requests, spinner, toast>>

\* showLogin, stopAutoRefresh: nothing else is forgotten.
StopPanels ==
  /\ refreshing' = FALSE
  /\ UNCHANGED <<readVars, tab, range, auditPage, requests, spinner, toast>>
-----------------------------------------------------------------------------
(* The operator and the refresh timer *)

\* switchTab
SwitchTab ==
  /\ Extra(MaxClicks)
  /\ session # 0
  /\ tab' \in Tabs \ {"extraction-analysis", "ledger"}
  /\ Send(TabReads(tab'))
  /\ UNCHANGED <<range, auditPage, refreshing, requests, spinner, toast>>

\* The refresh buttons of the panels.
RefreshPanel ==
  /\ Extra(MaxClicks)
  /\ session # 0 /\ TabReads(tab) # Nought
  /\ Send(TabReads(tab))
  /\ UNCHANGED tabVars

\* The range buttons, _getRange, _syncRangeButtons: only the history in front is read.
\* Mutant: the range is stored and nothing read.
ChooseRangeOnly ==
  /\ Extra(MaxClicks)
  /\ session # 0 /\ tab \in {"queue-trends", "system-health"}
  /\ range' \in Ranges
  /\ UNCHANGED <<readVars, tab, auditPage, refreshing, requests, spinner, toast>>
ChooseRange ==
  /\ Extra(MaxClicks)
  /\ session # 0 /\ tab \in {"queue-trends", "system-health"}
  /\ range' \in Ranges
  /\ Send(RefreshHistory(tab, range'))
  /\ UNCHANGED <<tab, auditPage, refreshing, requests, spinner, toast>>

\* al-prev-btn, al-next-btn, al-action-filter
TurnAuditPage ==
  /\ Extra(MaxClicks)
  /\ session # 0 /\ tab = "audit-log"
  /\ auditPage' \in {auditPage - 1, auditPage + 1, 1} \cap (1..MaxPage)
  /\ Send(FetchAuditLog(auditPage'))
  /\ UNCHANGED <<tab, range, refreshing, requests, spinner, toast>>

\* startAutoRefresh: the runs, and what is in front.
AutoRefresh ==
  /\ Extra(MaxClicks)
  /\ refreshing
  /\ Send(With(LoadExtractions, TabReads(tab)))
  /\ UNCHANGED tabVars
-----------------------------------------------------------------------------
(* The answers *)

OfTabs == {"runs", "users", "sync", "storage", "queues", "health", "audit"}

\* What awaits the read c is over with it, and takes the spinner along.
Freed(c) ==
  LET over == {r \in requests : c.panel = "runs" /\ r.awaits = c.number}
  IN /\ requests' = requests \ over
     /\ spinner' = (spinner /\ over = {})
     /\ UNCHANGED <<extras, tab, range, auditPage, refreshing, toast>>

PanelAnswered(c) == c.panel \in OfTabs /\ Drawn(c) /\ Freed(c)
PanelFails(c)    == c.panel \in OfTabs /\ Failed(c) /\ Freed(c)
HistoryUnavailable(c) == c.panel \in Histories /\ Unavailable(c) /\ Freed(c)
-----------------------------------------------------------------------------
(* The operator's actions *)

Request(what) == [what |-> what, awaits |-> 0]

\* triggerExtraction: its button is off until it is over.
TriggerExtraction ==
  /\ Extra(MaxClicks)
  /\ session # 0 /\ tab = "extractions"
  /\ \E source \in Sources :
       /\ \A r \in requests : r.what # source
       /\ requests' = requests \cup {Request(source)}
  /\ spinner' = TRUE
  /\ UNCHANGED <<readVars, tab, range, auditPage, refreshing, toast>>

\* It is answered: the runs are read again, and awaited.
TriggerAnswered(source) ==
  /\ Request(source) \in requests
  /\ requests' = (requests \ {Request(source)})
                   \cup {[what |-> source, awaits |-> NextNumber("runs")]}
  /\ ShowToast("done") /\ Send(LoadExtractions)
  /\ UNCHANGED <<extras, tab, range, auditPage, refreshing, spinner>>
TriggerFails(source) ==
  /\ Request(source) \in requests
  /\ requests' = requests \ {Request(source)} /\ spinner' = FALSE
  /\ ShowToast("failed")
  /\ UNCHANGED <<extras, readVars, tab, range, auditPage, refreshing>>

\* purgeDlq, confirmed by the operator
PurgeDlq ==
  /\ Extra(MaxClicks)
  /\ session # 0 /\ tab = "dlq"
  /\ requests' = requests \cup {Request("purge")}
  /\ UNCHANGED <<readVars, tab, range, auditPage, refreshing, spinner, toast>>
PurgeAnswered ==
  /\ Request("purge") \in requests /\ requests' = requests \ {Request("purge")}
  /\ \E text \in {"done", "failed"} : ShowToast(text)
  /\ UNCHANGED <<extras, readVars, tab, range, auditPage, refreshing, spinner>>

\* The timers of the toast: hidden after a while, removed once it has faded.
ToastTimer ==
  /\ toast.timer # None
  /\ toast' = IF toast.timer = "hide" THEN [toast EXCEPT !.timer = "remove"] ELSE Hidden
  /\ UNCHANGED <<extras, readVars, tab, range, auditPage, refreshing, requests, spinner>>

TabsNext ==
  \/ SwitchTab \/ RefreshPanel \/ ChooseRange \/ TurnAuditPage \/ AutoRefresh
  \/ \E p \in Panels : \E c \in calls[p] : PanelAnswered(c) \/ PanelFails(c) \/ HistoryUnavailable(c)
  \/ TriggerExtraction \/ \E source \in Sources : TriggerAnswered(source) \/ TriggerFails(source)
  \/ PurgeDlq \/ PurgeAnswered \/ ToastTimer
-----------------------------------------------------------------------------
(* Properties *)

TabsTypeOK ==
  /\ tab \in Tabs /\ range \in Ranges /\ auditPage \in 1..MaxPage
  /\ {refreshing, spinner} \subseteq BOOLEAN
  /\ \A r \in requests : r.what \in Sources \cup {"purge"} /\ r.awaits \in Nat
  /\ loading \cup errors \cup missed \cup crossed \subseteq Panels

\* What the panel p is to show when it is in front.
Chosen(p) ==
  CASE p \in Histories -> range
    [] p = "audit" -> auditPage
    [] OTHER -> "all"

\* The panels of the tab in front; the runs are read whichever it is.
InFront == {"runs"} \cup DOMAIN TabReads(tab)

\* While the panels are shown, one in front that has been read shows what is chosen now: the range, the page of the
\* audit log.  It may show something else only while it is being read, when its newest read
\* failed, which the panels that matter then say, and when two of its reads overlapped: then
\* the answer that came last stands (switchTab, _refreshHistory, fetchAuditLog, the timer).
PanelsShowChosen ==
  refreshing =>
    \A p \in InFront : (calls[p] = {} /\ p \notin crossed) =>
      IF p \in missed THEN p \in Telling => p \in errors
      ELSE drawn[p] = Chosen(p) /\ p \notin errors /\ p \notin loading
=============================================================================
