------------------------------ MODULE Overview ------------------------------
(***************************************************************************)
(* The Overview (Dashboard in static/dashboard.js): the layout, the        *)
(* readings over HTTP and over the live socket, the matrix with its        *)
(* histories, the drawer, the Grafana alerts and the attention bar.  A     *)
(* step is one callback of the page.  A request is answered at any later   *)
(* step, when another session may be on screen or none.  How the socket is *)
(* opened and its messages travel is BrowserSession's and EventFeed's;     *)
(* here it is open or not, and hands over the readings in order.           *)
(***************************************************************************)
EXTENDS PageSession, QueueHealth, Attention

CONSTANTS
  Gaps,        \* how far apart two readings may be
  MaxReadings, \* bound: readings the server takes
  MaxExtras    \* bound: losses, polls of the alerts and clicks, all told

ASSUME OverviewAssumption == Gaps \subseteq Nat \ {0} /\ {MaxReadings, MaxExtras} \subseteq Nat

VARIABLES
  readings,     \* what the server has read, with its times
  topology,     \* Dashboard.topology: the session that asked for the layout drawn, or 0
  asking,       \* topologyRequest: the last session begun when it was sent, or none
  waiting,      \* who awaits it: the first read of a session, 0 for a reading kept back
  pending,      \* pendingData: a reading, 0 for none
  initial,      \* requests for /api/metrics under way
  connected,    \* the live socket is open
  fed,          \* the last reading it handed over, 0 when it is closed
  unavailable,  \* queuesUnavailable
  work,         \* history of the work queue
  dead,         \* history of the dead-letter queue
  loggedKind,   \* healthKinds: the state of the dead-letter queue last logged
  cell,         \* the cell as it is drawn
  drawer,       \* the queue drawer as it is drawn
  shown,        \* lastReading, 0 for none
  alerts,       \* the firing ones of alerts, Grafana's; none when it cannot be asked
  alertCalls,   \* sessions whose poll of the alerts is under way
  items,        \* the attention bar; their ids are attentionSeen
  collapsed,    \* attentionCollapsed
  header,       \* the header's operational status
  heard,        \* readings handled since the history of the work queue was last broken
  unfed,        \* the histories were broken since the cell was drawn
  strayed       \* since the view began or ended, an answer to another session's request

layoutVars  == <<topology, asking, waiting, pending, initial>>
socketVars  == <<connected, fed>>
historyVars == <<unavailable, work, dead, loggedKind, heard>>
drawnVars   == <<cell, drawer, unfed>>
barVars     == <<shown, alerts, items, collapsed, header>>
overviewVars == <<readings, layoutVars, socketVars, historyVars, drawnVars, barVars,
                  alertCalls, strayed>>
-----------------------------------------------------------------------------
Closed == [open |-> FALSE]
Blank  == [CellModel(FALSE, <<>>, <<>>) EXCEPT !.lag = "blank"]

\* One reading of the only pipeline, and of the services beside it; -1 is a queue it lacks.
Quiet   == [at |-> 0, down |-> FALSE, scraped |-> TRUE, service |-> "healthy",
            platform |-> "healthy", group |-> "application", db |-> "healthy",
            work |-> [messages |-> 1, ack |-> 1, condition |-> None], dead |-> 0]
Missing == [messages |-> -1, ack |-> Unknown, condition |-> None]
Stalled == [Quiet EXCEPT !.work = [messages |-> 2, ack |-> 0, condition |-> "stalled"],
                         !.dead = 1, !.platform = "unhealthy"]
Waiting == [Quiet EXCEPT !.work = [messages |-> 2, ack |-> Unknown,
                                   condition |-> "awaiting-marker"],
                         !.dead = -1, !.db = "unavailable"]
Outage  == [Quiet EXCEPT !.scraped = FALSE, !.service = "unhealthy",
                         !.work = Missing, !.dead = -1]
Absent  == [Quiet EXCEPT !.work = Missing, !.down = TRUE, !.service = "unknown",
                         !.platform = "unreachable", !.group = "observability"]
Contents == {Quiet, Stalled, Waiting, Outage, Absent}

Firing   == <<[name |-> "a", severity |-> "crit"], [name |-> "b", severity |-> "warn"]>>
AlertAnswers == {<<>>, Firing}

\* The constructor.
OverviewInit ==
  /\ readings = <<>>
  /\ topology = 0 /\ asking = {} /\ waiting = {} /\ pending = 0 /\ initial = {}
  /\ connected = FALSE /\ fed = 0
  /\ unavailable = FALSE /\ work = <<>> /\ dead = <<>> /\ loggedKind = None
  /\ cell = Blank /\ drawer = Closed
  /\ shown = 0 /\ alerts = <<>> /\ alertCalls = {} /\ items = {} /\ collapsed = FALSE
  /\ header = "connecting"
  /\ heard = {} /\ unfed = FALSE /\ strayed = FALSE
-----------------------------------------------------------------------------
(* What one callback does, in the order it does it *)

\* Mutant of Derived: the bar is derived before the reading is in the histories.
DerivedBefore ==
  AlertItems(alerts')
  \cup IF shown' = 0 THEN Nothing
       ELSE LET r == readings[shown']
            IN PlatformItems(r.platform, r.group) \cup DatastoreItems(r.db)
                 \cup IF topology' = 0 THEN Nothing
                      ELSE PipelineItems(r.down, unavailable', r.service,
                                         CellModel(unavailable, work, dead))

\* attentionInputs, derive: the bar for the latest reading, the cell assessed afresh.
Derived ==
  AlertItems(alerts')
  \cup IF shown' = 0 THEN Nothing
       ELSE LET r == readings[shown']
            IN PlatformItems(r.platform, r.group) \cup DatastoreItems(r.db)
                 \cup IF topology' = 0 THEN Nothing
                      ELSE PipelineItems(r.down, unavailable', r.service,
                                         CellModel(unavailable', work', dead'))

\* updateAttention: an item that was not in the bar opens a list the operator collapsed.
UpdateAttention(hidden) ==
  /\ items' = Derived
  /\ collapsed' = (hidden /\ \A item \in items' : \E old \in items : old.id = item.id)
  /\ header' = IF shown' = 0 THEN "connecting"
               ELSE Overall(items', IF topology' = 0 THEN None ELSE readings[shown'].service)

\* _resetHistory, from what the page knew of the queues.
ResetHistory ==
  /\ work' = <<>> /\ dead' = <<>> /\ loggedKind' = None
  /\ heard' = {}

\* The history of one queue after a reading; one the reading lacks has none.
Sampled(samples, r, messages, ack, condition) ==
  IF ~r.scraped \/ messages = -1 THEN <<>>
  ELSE Record(samples, [t |-> r.at, messages |-> messages, ack |-> ack, condition |-> condition])

\* _renderDrawer
DrawnDrawer ==
  [open |-> TRUE, cell |-> CellModel(unavailable', work', dead'),
   noAcks |-> ZeroAckTime(work'), over |-> Coverage(work')]

\* updateQueues, _renderQueueValues, _logHealthChange: from the histories w and d.
UpdateQueues(n, w, d, known) ==
  LET r == readings[n]
  IN /\ unavailable' = ~r.scraped
     /\ work' = Sampled(w, r, r.work.messages, r.work.ack, r.work.condition)
     /\ dead' = Sampled(d, r, r.dead, Unknown, None)
     /\ cell' = CellModel(unavailable', work', dead') /\ unfed' = FALSE
     /\ drawer' = IF drawer.open THEN DrawnDrawer ELSE Closed
     /\ loggedKind' = IF cell'.dlq.state = "unknown" THEN known ELSE cell'.dlq.kind
     /\ heard' = IF work' = <<>> THEN {} ELSE {n} \cup IF w = <<>> THEN {} ELSE heard

\* updateDashboard once the layout is drawn.
Apply(n) ==
  /\ UpdateQueues(n, work, dead, loggedKind)
  /\ shown' = n
  /\ UpdateAttention(collapsed)

\* ensureTopology: those who ask share one request.
Await(who, last) ==
  /\ waiting' = waiting \cup {who}
  /\ asking' = IF asking = {} THEN {last} ELSE asking

\* updateDashboard: without a layout the reading is kept back, and the layout asked for.
UpdateDashboard(n) ==
  IF topology = 0
  THEN /\ pending' = n /\ Await(0, begun)
       /\ UNCHANGED <<topology, historyVars, drawnVars, barVars>>
  ELSE /\ UNCHANGED <<topology, asking, waiting, pending, alerts>>
       /\ Apply(n)
-----------------------------------------------------------------------------
(* The session *)

\* start: the first read, the layout before it, and the alerts.
StartOverview ==
  /\ IF topology = 0 THEN Await(session', begun') /\ UNCHANGED initial
     ELSE /\ initial' = initial \cup {[session |-> session', from |-> Len(readings)]}
          /\ UNCHANGED <<asking, waiting>>
  /\ alertCalls' = alertCalls \cup {session'}
  /\ UNCHANGED <<readings, topology, pending, socketVars, historyVars, drawnVars, barVars,
                 strayed>>

\* Mutant of StopOverview: the layout is not forgotten.
StopOverviewLayout ==
  /\ connected' = FALSE /\ fed' = 0
  /\ pending' = 0 /\ ResetHistory
  /\ cell' = Blank /\ drawer' = Closed /\ unfed' = FALSE
  /\ shown' = 0 /\ alerts' = <<>> /\ items' = {} /\ collapsed' = FALSE
  /\ header' = "connecting"
  /\ strayed' = FALSE
  /\ UNCHANGED <<topology, readings, asking, waiting, initial, unavailable, alertCalls>>

\* stop: what is under way stays under way.
StopOverview ==
  /\ connected' = FALSE /\ fed' = 0
  /\ topology' = 0 /\ pending' = 0 /\ ResetHistory
  /\ cell' = Blank /\ drawer' = Closed /\ unfed' = FALSE
  /\ shown' = 0 /\ alerts' = <<>> /\ items' = {} /\ collapsed' = FALSE
  /\ header' = "connecting"
  /\ strayed' = FALSE
  /\ UNCHANGED <<readings, asking, waiting, initial, unavailable, alertCalls>>
-----------------------------------------------------------------------------
(* The server, the socket and the answers *)

\* The server takes a reading.
TakeReading ==
  /\ UNCHANGED extras
  /\ Len(readings) < MaxReadings
  /\ \E r \in Contents, gap \in Gaps :
       readings' = Append(readings,
         [r EXCEPT !.at = gap + IF readings = <<>> THEN 0 ELSE readings[Len(readings)].at])
  /\ UNCHANGED <<layoutVars, socketVars, historyVars, drawnVars, barVars, alertCalls, strayed>>

\* The socket opens, and hands over the server's latest reading first.
SocketUp ==
  /\ UNCHANGED extras
  /\ session # 0 /\ ~connected
  /\ connected' = TRUE
  /\ fed' = IF readings = <<>> THEN 0 ELSE Len(readings) - 1
  /\ UNCHANGED <<readings, layoutVars, historyVars, drawnVars, barVars, alertCalls, strayed>>

\* onmessage, metrics_update
Frame ==
  /\ UNCHANGED extras
  /\ connected /\ fed < Len(readings)
  /\ fed' = fed + 1
  /\ UpdateDashboard(fed')
  /\ UNCHANGED <<readings, initial, connected, alertCalls, strayed>>

\* onclose: the histories have a gap now; what is drawn stays.
SocketDown ==
  /\ Extra(MaxExtras)
  /\ connected
  /\ connected' = FALSE /\ fed' = 0
  /\ ResetHistory /\ unfed' = TRUE
  /\ UNCHANGED <<readings, layoutVars, unavailable, cell, drawer, barVars, alertCalls,
                 strayed>>

\* Those who awaited the layout go on: the first reads are sent whether it arrived or not.
Released == {[session |-> s, from |-> Len(readings)] : s \in waiting \ {0}}

\* _loadTopology, renderTopology: the layout is drawn, and the reading kept back with it.
\* Neither asks whose session it is.
LayoutArrives ==
  /\ UNCHANGED extras
  /\ asking # {}
  /\ topology' \in asking
  /\ strayed' = (strayed \/ topology' # session)
  /\ asking' = {} /\ waiting' = {} /\ initial' = initial \cup Released
  /\ pending' = IF 0 \in waiting THEN 0 ELSE pending
  /\ IF 0 \in waiting /\ pending # 0
     THEN /\ UpdateQueues(pending, <<>>, <<>>, None)
          /\ shown' = pending
          /\ UNCHANGED alerts
          /\ UpdateAttention(collapsed)
     ELSE /\ ResetHistory /\ cell' = Blank /\ drawer' = Closed /\ unfed' = FALSE
          /\ UNCHANGED <<unavailable, barVars>>
  /\ UNCHANGED <<readings, socketVars, alertCalls>>

\* The layout is refused or lost: a reading kept back waits for the next one.
LayoutFails ==
  /\ Extra(MaxExtras)
  /\ asking # {}
  /\ asking' = {} /\ waiting' = {} /\ initial' = initial \cup Released
  /\ UNCHANGED <<readings, topology, pending, socketVars, historyVars, drawnVars, barVars,
                 alertCalls, strayed>>

\* fetchInitialData: its answer was composed at any time since it was asked for.
FirstReadArrives ==
  \E call \in initial, n \in 1..Len(readings) :
    /\ n >= call.from /\ UNCHANGED extras
    /\ initial' = initial \ {call}
    /\ UpdateDashboard(n)
    /\ strayed' = (strayed \/ call.session # session)
    /\ UNCHANGED <<readings, socketVars, alertCalls>>

FirstReadFails ==
  \E call \in initial :
    /\ Extra(MaxExtras)
    /\ initial' = initial \ {call}
    /\ UNCHANGED <<readings, topology, asking, waiting, pending, socketVars, historyVars,
                   drawnVars, barVars, alertCalls, strayed>>

\* The poll of the alerts comes round.
PollAlerts ==
  /\ Extra(MaxExtras)
  /\ session # 0 /\ session \notin alertCalls
  /\ alertCalls' = alertCalls \cup {session}
  /\ UNCHANGED <<readings, layoutVars, socketVars, historyVars, drawnVars, barVars, strayed>>

\* fetchAlerts: an answer for an earlier session is dropped; alerts that are not
\* configured are none, and none can be read when Grafana fails.
AlertsAnswered(s) ==
  /\ UNCHANGED extras
  /\ alertCalls' = alertCalls \ {s}
  /\ UNCHANGED <<readings, layoutVars, socketVars, historyVars, drawnVars, strayed>>
  /\ IF s # session THEN UNCHANGED barVars
     ELSE alerts' \in AlertAnswers /\ UNCHANGED shown /\ UpdateAttention(collapsed)

\* A refusal hands the decision to admin.js (BrowserSession).
AlertsRefused(s) ==
  /\ Extra(MaxExtras)
  /\ alertCalls' = alertCalls \ {s}
  /\ UNCHANGED <<readings, layoutVars, socketVars, historyVars, drawnVars, barVars, strayed>>
-----------------------------------------------------------------------------
(* The operator *)

\* attention-toggle: the bar is derived again.
ToggleAttention ==
  /\ Extra(MaxExtras)
  /\ session # 0 /\ items # {}
  /\ UNCHANGED <<readings, layoutVars, socketVars, historyVars, drawnVars, shown, alerts,
                 alertCalls, strayed>>
  /\ UpdateAttention(~collapsed)

\* openQueueDrawer, also from an item of the bar (goToAttention)
OpenDrawer ==
  /\ Extra(MaxExtras)
  /\ session # 0 /\ topology # 0 /\ ~drawer.open
  /\ UNCHANGED <<unavailable, work, dead>>
  /\ drawer' = DrawnDrawer
  /\ UNCHANGED <<readings, layoutVars, socketVars, loggedKind, heard, cell, unfed,
                 barVars, alertCalls, strayed>>

\* closeQueueDrawer, _onDrawerClosed
CloseDrawer ==
  /\ UNCHANGED extras
  /\ drawer.open
  /\ drawer' = Closed
  /\ UNCHANGED <<readings, layoutVars, socketVars, historyVars, cell, unfed, barVars,
                 alertCalls, strayed>>

OverviewNext ==
  \/ TakeReading \/ SocketUp \/ Frame \/ SocketDown
  \/ LayoutArrives \/ LayoutFails \/ FirstReadArrives \/ FirstReadFails
  \/ PollAlerts \/ \E s \in alertCalls : AlertsAnswered(s) \/ AlertsRefused(s)
  \/ ToggleAttention \/ OpenDrawer \/ CloseDrawer
-----------------------------------------------------------------------------
(* Properties *)

OverviewTypeOK ==
  /\ Len(readings) <= MaxReadings
  /\ topology \in 0..begun /\ asking \subseteq Sessions /\ waiting \subseteq 0..begun
  /\ {pending, shown, fed} \subseteq 0..Len(readings) /\ heard \subseteq 1..Len(readings)
  /\ initial \subseteq [session : Sessions, from : 0..Len(readings)]
  /\ {connected, unavailable, collapsed, unfed, strayed} \subseteq BOOLEAN
  /\ alerts \in AlertAnswers /\ alertCalls \subseteq Sessions
  /\ \A item \in items : item.severity \in {"crit", "warn"}

\* What the server said of the work queue in a reading.
Verdict(r) ==
  IF r.work.condition # None THEN r.work.condition
  ELSE IF r.work.messages = 0 THEN "drained" ELSE "flowing"

\* However the answers over HTTP and the frames of the socket overtake each other, the cell
\* shows the verdict of the newest reading handled since the history of the queue was last
\* broken, by the feed or by a reading that lacks the queue; and the dead-letter state it
\* shows, when it knows one, is the one last logged (record, updateQueues, _logHealthChange).
NewestReadingShown ==
  /\ heard # {} => cell.health.kind = Verdict(readings[Max(heard)])
  /\ (~unfed /\ cell.dlq.state # "unknown") => loggedKind = cell.dlq.kind

\* "The bar and the matrix can never disagree": what the bar says of the queues is what the
\* cell is drawn with, and the header is no better than the cell, unless the pipeline is down
\* as a whole or the live feed was lost since the cell was drawn.  Then the cell keeps its
\* alarm and the next update of the bar drops it (onclose, _resetHistory, updateAttention).
BarAgreesWithMatrix ==
  (shown # 0 /\ topology # 0 /\ ~readings[shown].down /\ ~unfed) =>
    /\ {item \in items : item.id[1] \in {"queue", "dlq"}} = CellItems(cell)
    /\ cell.state = "crit" => header \in {"critical", "offline"}

\* "Nothing of the signed-in view outlives the session": at the login form there is nothing of
\* it, and a view is drawn from the layout it asked for itself, unless an answer to a request
\* of another session has been handled since the view last changed (stop, _loadTopology,
\* fetchInitialData).
OutlivesOnlyByLateAnswer ==
  ~strayed =>
    /\ topology \in {0, session}
    /\ session = 0 => /\ shown = 0 /\ pending = 0 /\ work = <<>> /\ dead = <<>>
                      /\ items = {} /\ header = "connecting" /\ cell = Blank
                      /\ ~drawer.open /\ ~connected
=============================================================================
