----------------------------- MODULE EventFeed -----------------------------
(***************************************************************************)
(* The live feed from the collection loop (dashboard/dashboard.py) and the *)
(* event ring (dashboard/events.py) through LiveConnections to the browser *)
(* (static/dashboard.js).  A browser is sent the latest reading and the    *)
(* ring's backlog when its socket opens, and every later reading and event *)
(* by broadcast; the two sources interleave on the socket, sockets fail    *)
(* and reconnect, and the console may be restarted, which empties the ring *)
(* and starts event ids again at 1.                                        *)
(***************************************************************************)
EXTENDS LiveConnections, Sequences

CONSTANTS
  Client,     \* browsers
  NoSocket,   \* a browser without a socket
  Capacity,   \* EVENT_RING_SIZE
  MaxEvents,  \* bound: event ids a console process gives out
  MaxPolls,   \* bound: readings taken
  MaxBoots    \* bound: restarts of the console

ASSUME FeedAssumption ==
  /\ NoSocket \notin Socket
  /\ Capacity \in Nat \ {0}
  /\ MaxEvents \in Nat /\ MaxPolls \in Nat /\ MaxBoots \in Nat

VARIABLES
  nextId,   \* EventDetector._next_id
  latest,   \* latest_metrics, as the number of the reading; 0 is None
  polls,    \* readings taken so far
  boots,    \* restarts so far
  queue,    \* the loop's messages: the one being broadcast and those after it
  wire,     \* each socket's connection
  chan,     \* frames on their way to the browser
  current,  \* the browser's socket (this.ws)
  settled,  \* the current socket has delivered its backlog
  log,      \* ids of the server events in the browser's activity log
  lastId,   \* lastServerEventId
  reading   \* lastReading: the number of the reading shown

feedVars == <<connVars, nextId, latest, polls, boots, queue, wire, chan,
              current, settled, log, lastId, reading>>
-----------------------------------------------------------------------------
Metrics(n) == [kind |-> "metrics", first |-> n, last |-> n]
Event(id)  == [kind |-> "event", first |-> id, last |-> id]

\* backlog(): the ring keeps the last Capacity events, whose ids are consecutive.
Backlog ==
  [kind |-> "backlog", last |-> nextId - 1,
   first |-> IF nextId > Capacity THEN nextId - Capacity ELSE 1]

Ids(first, last) == [i \in 1 .. last - first + 1 |-> first + i - 1]
Push(s, frame) == chan' = [chan EXCEPT ![s] = Append(@, frame)]

browserVars == <<current, settled, log, lastId, reading>>
ringVars    == <<nextId, latest, polls, boots>>

FeedInit ==
  /\ ConnInit
  /\ nextId = 1 /\ latest = 0 /\ polls = 0 /\ boots = 0
  /\ queue = <<>>
  /\ wire = [s \in Socket |-> "none"]
  /\ chan = [s \in Socket |-> <<>>]
  /\ current = [b \in Client |-> NoSocket]
  /\ settled = [b \in Client |-> FALSE]
  /\ log = [b \in Client |-> <<>>]
  /\ lastId = [b \in Client |-> 0]
  /\ reading = [b \in Client |-> 0]
-----------------------------------------------------------------------------
(* collect_metrics_loop: observe, keep the reading, broadcast it and its events *)

\* Mutant of Poll: the reading is kept only after it was broadcast.
PollKeptLate(n) ==
  /\ up /\ cast = Quiet /\ polls < MaxPolls /\ nextId + n <= MaxEvents + 1
  /\ nextId' = nextId + n
  /\ polls' = polls + 1
  /\ latest' = polls
  /\ IF connections = {}
     THEN UNCHANGED <<connVars, queue>>
     ELSE StartCast /\ queue' = <<Metrics(polls + 1)>>
                                  \o [i \in 1 .. n |-> Event(nextId + i - 1)]
  /\ UNCHANGED <<boots, wire, chan, browserVars>>

Poll(n) ==
  /\ up
  /\ cast = Quiet
  /\ polls < MaxPolls
  /\ nextId + n <= MaxEvents + 1
  /\ nextId' = nextId + n
  /\ polls' = polls + 1
  /\ latest' = polls + 1
  /\ IF connections = {}
     THEN UNCHANGED <<connVars, queue>>
     ELSE /\ StartCast
          /\ queue' = <<Metrics(polls + 1)>>
                      \o [i \in 1 .. n |-> Event(nextId + i - 1)]
  /\ UNCHANGED <<boots, wire, chan, browserVars>>

SendOne(s) ==
  /\ wire[s] = "open"
  /\ Sent(s)
  /\ Push(s, Head(queue))
  /\ UNCHANGED <<ringVars, queue, wire, browserVars>>

\* A send to a closed socket raises; one to a slow browser times out with its frame
\* already written.
SendTimesOut(s) ==
  /\ SendFailed(s)
  /\ IF wire[s] = "open" THEN Push(s, Head(queue)) ELSE UNCHANGED chan
  /\ UNCHANGED <<ringVars, queue, wire, browserVars>>

\* Mutant of More: the loop never takes up the events after the reading.
MoreNever == FALSE

\* When the broadcast is over the loop takes up its next message, unless the set is
\* empty: then it skips what is left.
More == Len(queue) > 1
NextMessage == queue' = IF connections' = {} THEN <<>> ELSE Tail(queue)

FinishCast ==
  /\ EndCast(More)
  /\ IF cast.failed = {} THEN NextMessage ELSE UNCHANGED queue
  /\ UNCHANGED <<ringVars, wire, chan, browserVars>>

CloseOne(s) ==
  /\ CloseFailed(s, More)
  /\ wire' = [wire EXCEPT ![s] = "closed"]
  /\ IF cast.failed = {s} THEN NextMessage ELSE UNCHANGED queue
  /\ UNCHANGED <<ringVars, chan, browserVars>>
-----------------------------------------------------------------------------
(* websocket_endpoint *)

Admit(s) ==
  /\ Join(s)
  /\ UNCHANGED <<ringVars, queue, wire, chan, browserVars>>

Reject(s) ==
  /\ Refuse(s)
  /\ UNCHANGED <<ringVars, queue, wire, chan, browserVars>>

SendSnapshot(s) ==
  /\ handler[s] = "snapshot"
  /\ Advance(s)
  /\ IF latest = 0
     THEN UNCHANGED chan
     ELSE wire[s] = "open" /\ Push(s, Metrics(latest))
  /\ UNCHANGED <<ringVars, queue, wire, browserVars>>

SendBacklog(s) ==
  /\ handler[s] = "backlog"
  /\ wire[s] = "open"
  /\ Advance(s)
  /\ Push(s, Backlog)
  /\ UNCHANGED <<ringVars, queue, wire, browserVars>>

Recheck(s) ==
  /\ handler[s] \in {"open", "recheck"}
  /\ Advance(s)
  /\ UNCHANGED <<ringVars, queue, wire, chan, browserVars>>

\* The handler meets the closed socket, or catalog-api refuses its re-check.
Depart(s) ==
  /\ wire[s] = "closed" \/ handler[s] = "recheck"
  /\ Leave(s)
  /\ UNCHANGED <<ringVars, queue, wire, chan, browserVars>>

\* A handler that has ended closes its socket.
HangUp(s) ==
  /\ handler[s] = "done"
  /\ wire[s] = "open"
  /\ wire' = [wire EXCEPT ![s] = "closed"]
  /\ UNCHANGED <<connVars, ringVars, queue, chan, browserVars>>
-----------------------------------------------------------------------------
(* The browser *)

Connect(b, s) ==
  /\ current[b] = NoSocket
  /\ Handshake(s)
  /\ current' = [current EXCEPT ![b] = s]
  /\ settled' = [settled EXCEPT ![b] = FALSE]
  /\ wire' = [wire EXCEPT ![s] = "open"]
  /\ UNCHANGED <<ringVars, queue, chan, log, lastId, reading>>

\* updateDashboard
ShowReading(b, frame) ==
  /\ frame.kind = "metrics"
  /\ reading' = [reading EXCEPT ![b] = frame.last]
  /\ UNCHANGED <<settled, log, lastId>>

\* Mutants of the browser's two ways to take events: no id is skipped, and a backlog
\* never lowers the last id.
ShowEventAlways(b, frame) ==
  /\ frame.kind = "event"
  /\ log' = [log EXCEPT ![b] = Append(@, frame.last)]
  /\ lastId' = [lastId EXCEPT ![b] = frame.last]
  /\ UNCHANGED <<settled, reading>>

ShowBacklogKeepingId(b, frame) ==
  /\ frame.kind = "backlog"
  /\ log' = [log EXCEPT ![b] = Ids(frame.first, frame.last)]
  /\ lastId' = [lastId EXCEPT ![b] = IF frame.last > @ THEN frame.last ELSE @]
  /\ settled' = [settled EXCEPT ![b] = TRUE]
  /\ UNCHANGED reading

\* applyServerEvent: an id the backlog already covered is not shown twice.
ShowEvent(b, frame) ==
  /\ frame.kind = "event"
  /\ IF frame.last <= lastId[b]
     THEN UNCHANGED <<log, lastId>>
     ELSE /\ log' = [log EXCEPT ![b] = Append(@, frame.last)]
          /\ lastId' = [lastId EXCEPT ![b] = frame.last]
  /\ UNCHANGED <<settled, reading>>

\* applyEventBacklog: the server's history replaces what this browser had.
ShowBacklog(b, frame) ==
  /\ frame.kind = "backlog"
  /\ log' = [log EXCEPT ![b] = Ids(frame.first, frame.last)]
  /\ lastId' = [lastId EXCEPT ![b] = frame.last]
  /\ settled' = [settled EXCEPT ![b] = TRUE]
  /\ UNCHANGED reading

Deliver(b) ==
  LET s == current[b] IN
  /\ s # NoSocket
  /\ chan[s] # <<>>
  /\ chan' = [chan EXCEPT ![s] = Tail(@)]
  /\ \/ ShowReading(b, Head(chan[s]))
     \/ ShowEvent(b, Head(chan[s]))
     \/ ShowBacklog(b, Head(chan[s]))
  /\ UNCHANGED <<connVars, ringVars, queue, wire, current>>

\* onclose, once every frame before it is handled.
SeeClose(b) ==
  LET s == current[b] IN
  /\ s # NoSocket
  /\ wire[s] = "closed"
  /\ chan[s] = <<>>
  /\ current' = [current EXCEPT ![b] = NoSocket]
  /\ UNCHANGED <<connVars, ringVars, queue, wire, chan, settled, log, lastId, reading>>

\* The network drops the socket with the frames on it.
LoseSocket(b) ==
  LET s == current[b] IN
  /\ s # NoSocket
  /\ wire' = [wire EXCEPT ![s] = "closed"]
  /\ chan' = [chan EXCEPT ![s] = <<>>]
  /\ current' = [current EXCEPT ![b] = NoSocket]
  /\ UNCHANGED <<connVars, ringVars, queue, settled, log, lastId, reading>>
-----------------------------------------------------------------------------
(* The console process *)

Stop ==
  /\ boots < MaxBoots
  /\ Shutdown
  /\ queue' = <<>>
  /\ wire' = [s \in Socket |-> IF wire[s] = "none" THEN "none" ELSE "closed"]
  /\ UNCHANGED <<ringVars, chan, browserVars>>

Restart ==
  /\ Boot
  /\ boots' = boots + 1
  /\ nextId' = 1
  /\ latest' = 0
  /\ UNCHANGED <<polls, queue, wire, chan, browserVars>>

FeedNext ==
  \/ \E n \in 0 .. 2 : Poll(n)
  \/ \E s \in Socket :
       \/ SendOne(s) \/ SendTimesOut(s) \/ CloseOne(s)
       \/ Admit(s) \/ Reject(s) \/ SendSnapshot(s) \/ SendBacklog(s) \/ Recheck(s)
       \/ Depart(s) \/ HangUp(s)
  \/ FinishCast
  \/ \E b \in Client :
       \/ \E s \in Socket : Connect(b, s)
       \/ Deliver(b) \/ SeeClose(b) \/ LoseSocket(b)
  \/ Stop \/ Restart

FeedSpec == FeedInit /\ [][FeedNext]_feedVars

\* The event loop runs every coroutine that can go on: each send ends in time or by its
\* timeout, each handler goes on to its next await, and a browser handles what arrives.
FeedFairness ==
  /\ WF_feedVars(FinishCast)
  /\ \A s \in Socket :
       /\ WF_feedVars(SendOne(s) \/ SendTimesOut(s))
       /\ WF_feedVars(CloseOne(s))
       /\ WF_feedVars(Admit(s) \/ Reject(s))
       /\ WF_feedVars(SendSnapshot(s))
       /\ WF_feedVars(SendBacklog(s))
       /\ WF_feedVars(HangUp(s))
  /\ \A b \in Client : WF_feedVars(Deliver(b) \/ SeeClose(b))

FairFeedSpec == FeedSpec /\ FeedFairness
-----------------------------------------------------------------------------
(* Properties *)

\* Once its socket has delivered the backlog, a browser's log has no gap and shows no event
\* twice, although backlog and broadcasts interleave on the socket in any order and event ids
\* start again after a restart; and when nothing is under way, a browser that is being served
\* shows every event up to the newest: none fell between the backlog and the first broadcast
\* (applyServerEvent, applyEventBacklog, websocket_endpoint).
LogUnbroken ==
  \A b \in Client : current[b] # NoSocket /\ settled[b] =>
    /\ \A i \in 1 .. Len(log[b]) - 1 : log[b][i + 1] = log[b][i] + 1
    /\ (current[b] \in connections /\ chan[current[b]] = <<>> /\ cast = Quiet)
         => lastId[b] = nextId - 1 /\ (nextId > 1 => log[b][Len(log[b])] = nextId - 1)

\* A browser never goes back to an older reading, on one socket or across reconnects:
\* the loop keeps the reading before it broadcasts it (collect_metrics_loop).
ReadingsNeverGoBack ==
  [][\A b \in Client : reading'[b] >= reading[b]]_feedVars

\* Every event reaches every browser that stays connected, as a broadcast or in a
\* backlog, even with other sockets slow or dead.
EventsArrive ==
  \A b \in Client, k \in 1 .. MaxEvents :
    (current[b] # NoSocket /\ nextId > k) ~> (current[b] = NoSocket \/ lastId[b] >= k)
=============================================================================
