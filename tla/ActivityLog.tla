----------------------------- MODULE ActivityLog -----------------------------
(***************************************************************************)
(* The System Event Log of the page (Dashboard in static/dashboard.js):    *)
(* the events of the server, the operators' actions from the audit log and *)
(* what the page adds itself, merged newest first and cut at a limit.  The *)
(* server numbers its events from 1 again after a restart, keeps the last  *)
(* few and sends them on every connect, then each new one in order; an     *)
(* event may come both ways (EventFeed).  All events of one reading bear   *)
(* its time.  The audit log is read by polls, one read per kind of action, *)
(* answered in any order.                                                  *)
(***************************************************************************)
EXTENDS PageSession, SequencesExt

CONSTANTS
  MaxLog,     \* maxLogEntries
  Backlog,    \* events the server keeps
  AuditPage,  \* AUDIT_PAGE_SIZE
  Stamps,     \* bound: the times that the three clocks show
  MaxBatch,   \* bound: events of one reading, at most what the server keeps
  MaxTold,    \* bound: things that happen
  MaxLogged   \* bound: restarts, lost feeds, failed reads and polls of the timer, all told

ASSUME LogAssumption ==
  /\ {MaxLog, Backlog, AuditPage} \subseteq Nat \ {0}
  /\ Stamps \subseteq Nat \ {0}
  /\ {MaxTold, MaxLogged} \subseteq Nat
  /\ MaxBatch \in 0..Backlog

VARIABLES
  happened,   \* things that have happened so far: each event, action and local entry is one
  events,     \* the server: its events since it started, by their number
  actions,    \* the audit log, the last first: operator actions
  linked,     \* the live socket is open and its backlog handed over
  nextEvent,  \* the number of the event it hands over next, 1 when it is closed
  activityLog, \* Dashboard.activityLog
  lastEventId, \* lastServerEventId
  auditPolls, \* fetchAuditEntries under way: the session, and what had happened as it was sent
  delivered,  \* the events handed over since it was opened, none when it is closed
  trimmed     \* the oldest time a cut left in the log, the newest such since the view began

logVars == <<happened, events, actions, linked, nextEvent, activityLog, lastEventId, auditPolls,
             delivered, trimmed>>
-----------------------------------------------------------------------------
\* What happened is told apart by its number, whatever its time.
Entry(x, source) == [time |-> x.time, what |-> x.what, source |-> source]
Kinds == {"extraction.trigger", "dlq.purge"}   \* AUDIT_ACTIONS

\* The entries of a log at some of its places, each after those that go before it.
Listed(log, before) ==
  [k \in 1..Cardinality(DOMAIN before) |->
     log[CHOOSE i \in DOMAIN before : 1 + Cardinality(before[i]) = k]]

\* Array.filter, which keeps the order, and Array.sort, which keeps that of equal times.
Filtered(log, kept) == Listed(log, [i \in kept |-> {j \in kept : j < i}])
Sorted(log) ==
  Listed(log, [i \in DOMAIN log |->
    {j \in DOMAIN log : \/ log[j].time > log[i].time
                        \/ log[j].time = log[i].time /\ j < i}])

\* _trimActivityLog: newest first, the oldest cut.
Cut(log, max) == SubSeq(log, 1, IF Len(log) > max THEN max ELSE Len(log))
\* Mutant: the log is cut before it is sorted.
TrimUnsorted(log) == Sorted(Cut(log, MaxLog))
Trim(log) == Cut(Sorted(log), MaxLog)

\* How old the entries were that a cut left is remembered.
Log(entries) ==
  /\ activityLog' = Trim(entries)
  /\ trimmed' = IF Len(entries) <= MaxLog THEN trimmed
                ELSE Max({trimmed, Min({e.time : e \in ToSet(activityLog')})})

\* addLogEntry
AddLogEntry(x, source) == Log(<<Entry(x, source)>> \o activityLog)

\* _replaceLogSource
ReplaceLogSource(source, told) ==
  Log(Filtered(activityLog, {i \in DOMAIN activityLog : activityLog[i].source # source})
        \o [i \in DOMAIN told |-> Entry(told[i], source)])

\* The constructor.
LogInit ==
  /\ happened = 0 /\ events = <<>> /\ actions = <<>>
  /\ linked = FALSE /\ nextEvent = 1
  /\ activityLog = <<>> /\ lastEventId = 0 /\ auditPolls = {}
  /\ delivered = {} /\ trimmed = 0
-----------------------------------------------------------------------------
(* The session *)

\* start, startAuditPolling
StartLog ==
  /\ auditPolls' = auditPolls \cup {[session |-> session', from |-> happened]}
  /\ UNCHANGED <<happened, events, actions, linked, nextEvent, activityLog, lastEventId, delivered,
                 trimmed>>

\* stop, stopAuditPolling
StopLog ==
  /\ linked' = FALSE /\ nextEvent' = 1 /\ delivered' = {}
  /\ activityLog' = <<>> /\ lastEventId' = 0 /\ trimmed' = 0
  /\ UNCHANGED <<happened, events, actions, auditPolls>>
-----------------------------------------------------------------------------
(* What happens *)

\* The next of what happens, at a time its clock shows. The server, catalog-api and the browser
\* have a clock each, and no two are taken to agree.
Happens(n) == happened + n <= MaxTold /\ happened' = happened + n
Happening(i, time) == [time |-> time, what |-> happened + i]

\* observe: the events that one reading brings bear one time.
ServerEvents ==
  /\ \E n \in 1..MaxBatch, time \in Stamps :
       Happens(n) /\ events' = events \o [i \in 1..n |-> Happening(i, time)]
  /\ UNCHANGED <<extras, actions, linked, nextEvent, activityLog, lastEventId, auditPolls,
                 delivered, trimmed>>

\* An operator acts, and catalog-api audits it.
OperatorActs ==
  /\ Happens(1)
  /\ \E kind \in Kinds, time \in Stamps :
       actions' = <<[time |-> time, what |-> happened + 1, kind |-> kind]>> \o actions
  /\ UNCHANGED <<extras, events, linked, nextEvent, activityLog, lastEventId, auditPolls,
                 delivered, trimmed>>

\* The server restarts: its events are gone and numbered afresh, and the socket is lost.
ServerRestarts ==
  /\ Extra(MaxLogged)
  /\ events' = <<>> /\ linked' = FALSE /\ nextEvent' = 1 /\ delivered' = {}
  /\ UNCHANGED <<happened, actions, activityLog, lastEventId, auditPolls, trimmed>>

FeedCloses ==
  /\ Extra(MaxLogged)
  /\ linked /\ linked' = FALSE /\ nextEvent' = 1 /\ delivered' = {}
  /\ UNCHANGED <<happened, events, actions, activityLog, lastEventId, auditPolls, trimmed>>

\* The page adds an entry of its own.
LocalEntry ==
  /\ Extra(MaxLogged)
  /\ Happens(1)
  /\ \E time \in Stamps : AddLogEntry(Happening(1, time), "local")
  /\ UNCHANGED <<events, actions, linked, nextEvent, lastEventId, auditPolls, delivered>>

\* _logHealthChange: a reading changed a dead-letter queue's state. A late one may be shown
\* after the session ended.
HealthLogged == LocalEntry

\* fetchInitialData, _loadTopology: a request failed, perhaps after the session ended.
RequestFailed == LocalEntry
-----------------------------------------------------------------------------
(* The feed *)

\* applyEventBacklog: the history of the server replaces what the page had, its numbers too.
\* Mutant: a number the page has seen is kept, as if the server could not restart.
ApplyEventBacklogKeeping(from) ==
  /\ lastEventId' = Max({lastEventId} \cup (from..Len(events)))
  /\ ReplaceLogSource("server", SubSeq(events, from, Len(events)))
  /\ delivered' = {events[i] : i \in from..Len(events)}
ApplyEventBacklog(from) ==
  /\ lastEventId' = Max({0} \cup (from..Len(events)))
  /\ ReplaceLogSource("server", SubSeq(events, from, Len(events)))
  /\ delivered' = {events[i] : i \in from..Len(events)}

\* The socket opens; the events of the last reading that are still being sent come once more.
FeedOpens ==
  /\ session # 0 /\ ~linked
  /\ linked' = TRUE
  /\ ApplyEventBacklog(IF Len(events) > Backlog THEN Len(events) - Backlog + 1 ELSE 1)
  /\ \E again \in 0..MaxBatch :
       again <= Len(events) /\ nextEvent' = Len(events) - again + 1
  /\ UNCHANGED <<extras, happened, events, actions, auditPolls>>

\* applyServerEvent: an event the backlog covered is not shown twice.
\* Mutant: off by one.
ApplyServerEventAgain(id) ==
  IF id < lastEventId THEN UNCHANGED <<activityLog, lastEventId, delivered, trimmed>>
  ELSE /\ lastEventId' = id
       /\ delivered' = delivered \cup {events[id]}
       /\ AddLogEntry(events[id], "server")
ApplyServerEvent(id) ==
  /\ delivered' = delivered \cup {events[id]}
  /\ IF id <= lastEventId THEN UNCHANGED <<activityLog, lastEventId, trimmed>>
     ELSE lastEventId' = id /\ AddLogEntry(events[id], "server")

FeedDelivers ==
  /\ linked /\ nextEvent <= Len(events)
  /\ nextEvent' = nextEvent + 1
  /\ ApplyServerEvent(nextEvent)
  /\ UNCHANGED <<extras, happened, events, actions, linked, auditPolls>>
-----------------------------------------------------------------------------
(* The audit log *)

\* The poll timer comes round.
PollAudit ==
  /\ Extra(MaxLogged)
  /\ session # 0
  /\ auditPolls' = auditPolls \cup {[session |-> session, from |-> happened]}
  /\ UNCHANGED <<happened, events, actions, linked, nextEvent, activityLog, lastEventId, delivered,
                 trimmed>>

\* A page of one kind of action as it was at the time t.
Page(kind, t) ==
  LET page == Filtered(actions,
                {i \in DOMAIN actions : actions[i].kind = kind /\ actions[i].what <= t})
  IN Cut(page, AuditPage)

\* fetchAuditEntries: both reads of a poll are answered; a poll of an earlier session is
\* dropped.
AuditAnswered(poll) ==
  /\ auditPolls' = auditPolls \ {poll}
  /\ UNCHANGED <<extras, happened, events, actions, linked, nextEvent, lastEventId, delivered>>
  /\ IF poll.session # session THEN UNCHANGED <<activityLog, trimmed>>
     ELSE \E t, u \in poll.from..happened :
            ReplaceLogSource("audit", Page("extraction.trigger", t) \o Page("dlq.purge", u))

\* A read that fails or is refused leaves what is shown.
AuditFails(poll) ==
  /\ Extra(MaxLogged)
  /\ auditPolls' = auditPolls \ {poll}
  /\ UNCHANGED <<happened, events, actions, linked, nextEvent, activityLog, lastEventId, delivered,
                 trimmed>>

LogNext ==
  \/ ServerEvents \/ OperatorActs \/ ServerRestarts
  \/ FeedOpens \/ FeedDelivers \/ FeedCloses \/ HealthLogged \/ RequestFailed
  \/ PollAudit \/ \E poll \in auditPolls : AuditAnswered(poll) \/ AuditFails(poll)
-----------------------------------------------------------------------------
(* Properties *)

LogTypeOK ==
  /\ happened \in Nat /\ Len(activityLog) <= MaxLog
  /\ \A i \in DOMAIN activityLog :
       /\ activityLog[i].time \in Stamps /\ activityLog[i].what \in 1..happened
       /\ activityLog[i].source \in {"server", "audit", "local"}
  /\ trimmed \in {0} \cup Stamps
  /\ \A e \in delivered : e.time \in Stamps /\ e.what \in 1..happened
  /\ linked \in BOOLEAN /\ lastEventId \in Nat

\* However the backlog, live events and polls of the audit log interleave, whatever times the
\* clocks show, and across a restart of the server: the log is sorted by time and tells nothing
\* twice; an event handed over on this connection is in it, unless a cut that left nothing older
\* took it; and at the login form it holds nothing of the server or of an operator
\* (applyEventBacklog, applyServerEvent, _replaceLogSource, _trimActivityLog, stop).
LogKeepsNewest ==
  /\ \A i, j \in DOMAIN activityLog :
       /\ i < j => activityLog[i].time >= activityLog[j].time
       /\ i # j => activityLog[i].what # activityLog[j].what
  /\ linked => \A e \in delivered :
       e.time > trimmed => Contains(activityLog, Entry(e, "server"))
  /\ session = 0 => \A e \in ToSet(activityLog) : e.source = "local"
=============================================================================
