# Verification of the operations console

TLA+ models of the operations console in `src/dashboard/` (a FastAPI backend and a
plain-JavaScript page), the TLC configurations that check them on small instances, and
proofs that TLAPS checks for every value of the constants.

The backend runs on one asyncio event loop, so every model has the same grain: **a step is
what runs between two awaits** (or, in the page, between two callbacks). Everything that
can happen during an await is another action. Source lines are named in `PROJECT.json`
under `map`.

## 1. The system

| Component | Source | State it keeps | Operations | Status |
|---|---|---|---|---|
| Session gate | `session_auth.py` | positive cache, recorded refusals, WebSocket tickets, an httpx client | validate, validate (fresh), mint, redeem, forget, configure | modelled, proved |
| WebSocket connections | `dashboard.py` 195-256, 990-1080 | the set of sockets, the gauge, handlers suspended in sends and re-checks | join, leave, broadcast, drop the failed, close_all | modelled, proved |
| Live feed | `dashboard.py`, `events.py`, `static/dashboard.js` | latest reading, event ring and ids; in the page log, last id, reading | poll, broadcast, snapshot, backlog, deliver, reconnect, restart | modelled, proved |
| Queue health rules | `events.py` 199-275 | per queue: zero-ack run, marker wait, last reported condition | one reading | modelled, proved |
| Collection loop | `dashboard.py` 380-500 | latest snapshot, viewers, last HTTP read | collect, broadcast, wait, wake, fail, retry | modelled, proved |
| Browser session | `static/admin.js` 590-836, `static/dashboard.js` 655-828 | session generation, view, sign-out flags, cookie, socket, reconnect timer | load, sign in, sign out, check, read, ticket, reconnect | modelled, proved |
| Overview: queue health, attention bar, drawer, alerts | `static/dashboard.js` | layout and its shared request, sample histories, the bar and its collapsed state, the last reading, alerts | readings over HTTP and socket, layout, alerts polls, drawer, toggle, start, stop | modelled, proved |
| Run progress (page) | `static/dashboard.js` | run of a pipeline, its last progress, polls under way, what is drawn | poll in four steps, matrix reading, lost feed, switch of the view | modelled, proved |
| Activity log (page) | `static/dashboard.js` | merged log, last server event id, audit polls under way | backlog, live event, audit poll, local entry, trim | modelled, proved |
| Identity Ledger tab | `static/admin.js` | choice, read numbers, retry timers, spinners, drawn panels | read, supersede, build-wait and retry, refresh, close | modelled, proved |
| Admin panels | `static/admin.js` | range, history and audit pages, triggers, dead-letter purge, toast | tabs, range buttons, paging, refresh, confirm | modelled, proved |
| Extraction Analysis tab | `static/admin.js` | version, rules ticked and picked, report, violations, record, comparison, prompt | select, tick, show, compare, generate, copy | modelled, proved |
| Rate tracker | `queue_metrics.py`, `dashboard.py` 608-643 | counters and time of the last scrape per queue | scrape (loop, on demand), fail, update | modelled, proved |
| Other event transitions | `events.py` 107-197 | last service, datastore, broker and dead-letter states | one reading | modelled, proved |
| Service, queue, database polls | `dashboard.py` 502-763, `platform_health.py` | the job cache and the lock of the database connection | the polls of a reading | modelled, proved: a failed poll is a reading of its own kind |
| Admin proxy | `admin_proxy.py` | none | login, logout, forwarded calls | logout, login and the effect of a 401 are actions of SessionGate and BrowserSession |
| Telemetry | `telemetry.py` | instruments, the source and snapshot of the Neo4j gauges | register, reset, observe, refresh | the gauges (proved); spans and histograms are only written |
| History, alerts, progress (server) | `history.py`, `grafana_alerts.py`, `progress.py` | none | reshape other services' answers | not modelled: no state |
| Configuration, topology, links | `config.py`, `topology.py`, `deep_links.py`, `url_redaction.py` | none after start | | not modelled: pure |

How they interact: the **loop** collects a reading (the **polls**, the **rate tracker**),
gives it to the event detector (**queue rules**), keeps it, and broadcasts it through the
**connections** to every socket. A socket is admitted by the **gate**, which alone asks
catalog-api about a bearer; the page fetches a ticket over HTTP with its cookie and opens
the socket with the ticket. The number of sockets and the time of the last HTTP read set
the pace of the loop. In the browser, `admin.js` owns the session and tells `dashboard.js`
by document events to start or stop its feed; `dashboard.js` asks `admin.js` for a check
when it is refused. The parts of the signed-in page (Overview, runs, log, ledger, tabs,
analysis) start and stop with the session, each with requests and timers of its own that
may outlive it.

What is hard in it: state read before an await on catalog-api and used after it (gate);
one socket set changed by handlers, broadcasts and shutdown (connections); two sources of
the same events on one socket, and event ids that start again after a restart (feed);
registers that summarise a history of irregular readings (rules, other transitions);
answers of two scrapes that overtake each other (rates); a cache filled by two collections at
once (jobs); a thread beside the event loop (graph gauges); a cadence that depends
on who looks (loop); answers about one session handled when another is on screen
(browser); in the page, requests shared between sessions, answers that overtake each
other, two views drawn from one state at different moments, histories wiped under a drawn
cell, retries of reads that are no longer wanted. `PROJECT.json` lists each at its line
under `hazards`, with the properties that would catch it.

What makes each component correct:

- *gate*: a grant rests on catalog-api's recent word, a refusal on its present one; a
  ticket opens one socket; a dead session loses its socket; the stores stay bounded;
- *connections*: no socket stays in the set without a handler; the gauge counts the set;
- *feed*: every event reaches a connected browser, once and in order; readings only advance;
- *rules*: a condition says what the readings showed; each new problem is announced once;
- *other transitions*: whoever reads only the events knows the state; none is told twice, missed
  or made up;
- *rates*: a rate is of real acks, none counted twice;
- *jobs*: a record shown is recent and never gives way to an older one;
- *graph gauges*: one export reports one reading of the store, and none of a closed driver;
- *loop*: readings are fresh while somebody watches, and never stop when nobody does;
- *browser*: only the session on screen can be ended, and only for cause; the feed follows
  the view and never waits for nobody;
- *Overview*: the cell shows the newest reading, the bar says what the matrix says, and
  nothing of the view outlives its session but by a late answer;
- *runs, log*: what is drawn is the run, the progress and the cell as last known; the log is
  sorted by time, complete down to what a cut left, without doubles;
- *ledger, tabs, analysis*: a panel shows what is chosen now, a retry is owed exactly where
  the page says "building", a prompt is made of the rules ticked.

## 2. The modules

| Module | Models | Built on |
|---|---|---|
| `SessionLease` | what the gate promises: grants within a window of catalog-api's word | |
| `SessionGate` | the gate with its stores and its suspended callers | refines `SessionLease` |
| `SessionGateProofs` | theorems about both, and that the stores stay bounded | `SessionGate`, TLAPS |
| `LiveConnections` | set, gauge, handlers, one broadcast at a time | |
| `EventFeed` | the loop's messages through the connections to the browsers | composes `LiveConnections` |
| `LiveConnectionsProofs` | theorems about the connections and the feed | `EventFeed`, TLAPS |
| `QueueConditions` | `_work_queues_of` for one queue | |
| `QueueHistory` | the rules under every short history of readings | drives `QueueConditions` |
| `QueueHealth` | the page's rules: a queue's sample history, trend, lag and cell | |
| `QueueWindow` | the server's rules and the page's history of the same readings | composes `QueueHistory`, `QueueHealth` |
| `StatusEvents` | the detector's events of services, datastores, broker and dead-letter queue | |
| `RateTracker` | the ack rate of a queue under concurrent scrapes and a broker restart | |
| `JobReading` | the databases and the job record under one lock, and the job cache | |
| `GraphGauges` | the gauges of the graph store, read by a thread through the event loop | |
| `Detector` | what the console makes of its readings | composes `QueueWindow`, `StatusEvents`, `RateTracker`, `JobReading`, `GraphGauges` |
| `EventDetectorProofs` | lemmas about the event detector: the rules against their history, the page's window of the same readings, the other events | `QueueWindow`, `StatusEvents`, TLAPS |
| `DetectorProofs` | theorems about the detector | `Detector`, `EventDetectorProofs` |
| `CollectLoop` | the loop on a clock, with viewers and one queue that stalls | drives `QueueConditions` |
| `CollectLoopProofs` | theorems about it | `CollectLoop`, TLAPS |
| `BrowserSession` | one tab: page, Overview's socket, cookie and the console's answers | |
| `BrowserSessionProofs` | theorems about it | `BrowserSession`, TLAPS |
| `PageSession` | which session is on screen; shared by the parts of the page | |
| `Attention` | `derive`: the items of the attention bar | |
| `Overview` | layout, readings over HTTP and socket, matrix, drawer, alerts, bar | `PageSession`, `QueueHealth`, `Attention` |
| `RunProgress` | the runs, their polls, headline and Run progress view | `PageSession`, `QueueHealth` |
| `ActivityLog` | the log merged from server, audit log and page | `PageSession` |
| `LedgerReads` | the Identity Ledger's superseding and retried reads | `PageSession` |
| `PanelReads` | the unguarded reads of admin.js: who draws, who shows the spinner | `PageSession` |
| `AdminPanels` | tabs, ranges, audit pages, triggers, dead-letter purge, toast | `PanelReads` |
| `ExtractionAnalysis` | versions, rules, violations, records, comparison, prompt | `AdminPanels` |
| `Console` | the signed-in view: every part under every way sessions begin and end | composes the page's parts |
| `OverviewProofs` | lemmas about the Overview and the runs | `Overview`, `RunProgress`, TLAPS |
| `ConsoleProofs` | lemmas about the tabs, the analysis, the ledger and the log; the theorems about the console | `Console`, `OverviewProofs` |
| `MCGate`, `MCConnections`, `MCFeed` | symmetry sets for TLC | |

### SessionGate

`cache`, `invalid` and `tickets` are the three bounded dictionaries, each entry with its
deadline (`until`) and the time it was put there (`put`), which orders the evictions.
`handler` is what each coroutine is doing: `checking` (awaiting catalog-api), `sending`
(the first messages of a socket) or `open` (awaiting a frame or its re-check). `revokedAt`
and `expiresAt` are catalog-api's own record, which no code of the console reads.

- `ServeFromCache`, `RefuseFromRecord`, `AskCatalog`: the three ways `validate_token` goes
  before its await; `CatalogAnswers`, `CatalogFails`: the answer is decided at catalog-api
  but not yet handled; `Grant`, `RefuseInvalid`, `RefuseUnavailable`: what the coroutine does
  with it when it resumes (fill the cache, mint a ticket, admit or close a socket, record).
- `OpenSocket` redeems a ticket and starts the fresh check; `SendInitial`, `StartRecheck`,
  `SocketLost` are the life of the socket; `Forget`, `Logout`, `ProxyRefused` come from the
  proxy; `Tick` moves the clock, never beyond a deadline of something suspended.

Time is discrete. `Timeout` bounds a check (the httpx timeouts do). `SendTime` bounds the
first messages of a socket, to which **the code sets no limit**: `RevokedSocketCloses`
holds relative to it. The monotonic and the wall clock are taken to agree.

### LiveConnections and EventFeed

`connections`, `gauge`, `handler` (each socket's coroutine) and `cast` (the broadcast under
way: who has been sent to, who failed, who is being closed). `EventFeed` adds the loop's
queue of messages for one reading, each socket's frames in flight, and the browser's
`log`, `lastId` and `reading`. A send that times out may have written its frame; a lost
socket loses its frames; a restart empties the ring, and ids begin at 1 again. Closes of
failed sockets end (their fairness), and the serialisation of a message does not raise.

### QueueConditions, QueueHistory, QueueWindow, CollectLoop

`Observe(r, at)` is `_work_queues_of` for one queue and one reading. `QueueHistory` applies
it to every sequence of readings and keeps them in `past`, so that its properties speak of
the readings and not of the registers. `QueueWindow` hands the same readings, with the
server's verdict, to the page's own history (`QueueHealth`) and compares the two; readings
that reach the page late, twice or not at all are the `Overview`'s. `CollectLoop` gives the rules the readings its
cadence produces from a queue whose consumer stops acknowledging (`Freeze`). The loop wakes
when its sleep ends (no oversleeping).

### StatusEvents, RateTracker, JobReading, GraphGauges, Detector

`StatusEvents` follows one subject: a service, a probed platform service, a datastore, or the
broker scrape of a pipeline with its dead-letter queue, which alone share a step. `serving` and
`depth` are the registers, `told` the history of readings with their events; the properties
compare what the events said with what was read. An event is known by its kind; its level and
wording are left out. A probe is turned off by an environment variable that is read again at
each poll; the code is written for one that changes, and is modelled for it.

`RateTracker` is `get_queue_info` with its tracker for one queue: a scrape is sent, answered
by the broker (`ScrapeAnswered` takes the counter), and handled or failed. The collection
loop scrapes for ever, `Requests` only until a reading is kept; they run side by side.
`acked` is the truth, `total` the broker's counter, which a restart sets to zero; `ratedAcks`,
`first`, `newest` and `overtaken` are history variables. The publish rate is computed likewise.

`JobReading` is the part of a collection that goes through the console's PostgreSQL
connection. `lock` is the asyncio lock with those that wait for it, first come first served;
`collection` what each collection has so far; `jobsShown` a history variable. A query has no
time limit in the code, and none is assumed.

`GraphGauges` has two threads: the metric reader's (`exporter`, on one of the five callbacks)
and the event loop (`ReadStore`, and the starts and shutdowns). Callbacks of one export run
back to back: time passes only while one waits. `GaugeAssumption` takes the refresh budget (10 s)
to be below the snapshot's time, half an export interval (30 s by default);
`OTEL_METRIC_EXPORT_INTERVAL` below 20 s breaks it.

`Detector` puts these and the queue rules into one state. No step of one reads a variable of
another (the rules see a rate only as computed zero, positive or unknown), so `matter` picks
the one whose steps are explored.

### BrowserSession

`calls` are the requests whose answer is not handled yet, with the cookie each was sent
with and the generation it was sent for; requests that nothing tells apart are one. The
answer to a request is decided when it is handled (`Serve`), or is one given before the
session died, a cached grant, a 503 or nothing at all (`Fail`). `Jar` is what the browser
does with `Set-Cookie`, whoever asked. `Resumed`, `Verified`, `ReadAnswered`,
`LookAnswered`, `TicketAnswered`, `SignedIn`, `SignedOut` are the continuations in the
page. A session check may fail in other ways too (`failed`): the page words these as a revoked
session (`admin.js:687`), the model keeps them apart. Sign-outs in flight are told apart by a
number; `clicked`, `crossed` and `left` remember in which sessions Sign out was clicked, in which
of them while a sign-out without a cookie was under way, and which the page then let go. These and
`ended` are history variables. `look` stands for every read of the
Overview (they all hand a refusal to the page). The expiry timer is a check like the
watch; the bearer an old console left in localStorage is not modelled. The form's button
keeps it to one sign-in at a time; the Enter key, which does not, is left out.

### The signed-in page: Console and its parts

`Console` is the page between sign-in and sign-out. Each part keeps its own variables and
takes its own `Start...` and `Stop...` step in `SignIn` and `SignOut`, which stand for
`showPanel` and `showLogin` with the session events they announce. The parts share nothing
else that a step changes (the tabs and the analysis share the panel reads, and are looked at
over one state), so `focus` picks the one whose steps are explored and the others stand
still: the reachable states of a part are the same as in the full product. `extras` counts the
steps that a part could take for ever (losses, repeats, clicks); each part bounds it.

- `Overview`: a reading is one of five kinds; it may lack the work queue, the dead-letter queue
  or both. `topology` is the session whose request fetched the layout drawn; `asking` and
  `waiting` are the one `topologyRequest` that every caller shares; `initial` the requests for
  `/api/metrics` under way, which are **not** tied to a session. `UpdateQueues`, `Apply`,
  `UpdateAttention` are what one callback does, in its order. `heard`, `unfed` and `strayed`
  are history variables: readings since a break, a cell drawn before the break, an answer to
  another session's request.
- `RunProgress`: a poll passes through the history of the runs, the layout and the progress of
  the run; only its first and last step ask whose session it is. `Headline`, `Eta`, `Gap` and
  `Section` are the functions of the same names; the cell is one of the assessments `_cellModel`
  makes, unavailable among them. `lapsed` and `overlapped` are history
  variables. Polls are numbered by the lowest place that is free.
- `ActivityLog`: what happens (an event, an audited action, an entry of the page) is told apart by
  its number in `happened`, and has the time its clock showed. Server, catalog-api and browser have
  a clock each, which need not agree nor advance, and all events of one reading bear one time
  (`events.py:119-122`); ties are the normal case. A backlog brings them oldest first
  (`dashboard.js:2301`), live events put each new one ahead of the others (2267), the sort keeps
  them as they are. `events` is what the server has numbered since it last started; `trimmed` is
  the time of the oldest entry a cut left, `delivered` the events handed over on this connection.
  One reading brings at most as many events as the ring keeps (`LogAssumption`; the ring has 200
  places).
- `LedgerReads`: reads carry the number they were given and what was chosen then.
- `PanelReads`: a read without a guard draws when it is answered; `crossed` remembers that two
  reads of a panel overlapped, `missed` that the newest failed. `AdminPanels` and
  `ExtractionAnalysis` are the handlers that send them. The filter of the audit log is not told
  apart from its page, and the page of the violations not from their rule.

## 3. The runs

| Run | Question | Bounds and why they suffice |
|---|---|---|
| `gate` | do grants, refusals, tickets, sockets and re-checks rest on catalog-api's word, in bounded stores, as `SessionLease` promises? | one bearer, two coroutines, two tickets competing for room for one, clock to 5: an entry can be put, expire, be evicted and be put late by a check that outlived the revocation; a socket can open, send, re-check and be closed. Bearers competing for a store are covered by the theorems |
| `gate_logout` (violation) | does a logout end cache rides? | one bearer, two coroutines |
| `connections_gauge` (violation) | does the gauge count the set? | two sockets |
| `feed` | are log and reading unbroken; no ghosts, no overcount | two sockets (one replaced while its handler is still leaving), ring of 2, three events (the ring overflows), two readings, one restart |
| `feed_live` | does every event arrive? | two sockets, two events in one reading |
| `queues` | does a condition say what the readings showed, and does the page's window agree with the detector; do the events tell every transition; do rates count each ack once; are job record and graph gauges of one recent reading? | rules: five readings, the first at time 0, gaps at and beyond the limit, 11 kinds of reading; other events: five readings of any kind, depths 0 to 2 (growth in two steps, a shrinking that does not empty, an outage between); rates: two acks, time to 2, the loop and one on-demand read, one broker restart (one scrape can overtake another, and a counter can come back to its old total); jobs: one load, time to 3 with a cache of 2, the loop and one on-demand read, three collections; gauges: two starts, a snapshot of 3 and a budget of 1, time to 5 (a second export finds the snapshot young or old) |
| `queues_wait` (violation) | is an expected wait never announced? | four readings |
| `loop` | do readings stay fresh and never stop; is a watched stall seen? | clock to 20, one viewer visit, one HTTP read, one failed cycle |
| `loop_idle` (violation) | is a stall seen with nobody watching? | idle interval equal to the gap limit, as in the code, a stall of the same length |
| `browser` | does every late answer leave the tab consistent? | two sessions, two sign-outs in flight, and one surprise (a reload, a round of the session watch, a further read, a 503 or another failure, a dropped or refused socket, a grant of a dead session); lost sign-outs are not counted |
| `browser_late401` (violation) | does a late refusal spare the later session? | two sessions |
| `console` | over two sessions, does each part of the page show what it ought to, whatever answers late, twice, out of order or never? | two sessions; Overview: two readings of five kinds, one extra (a loss, a poll, a click); runs: five steps of catalog-api's history (a second run starts), two polls at a time, one extra; log: three things that happen, at either of two times, up to two events in one reading, a log and a ring of 2, audit pages of 1, one extra (ties, clocks that go back, a cut through a tie); ledger: two choices, one extra (the theorems cover any number); tabs: two ranges, two pages, two clicks; analysis: two versions, two rules, three clicks |

`CHECK_DEADLOCK FALSE` stands where the bounds, or a browser with nothing left to do, really
stop the system. Horizons and maxima are named as bounds beside their CONSTANTS.

**Fairness** is used in `feed_live` only. `FeedFairness` is weak fairness of each coroutine's
next step: the event loop runs every ready coroutine, sends end or time out, and a browser
handles the frames it has. Nobody is obliged to connect, no reading has to be taken, and
nothing is assumed of failures.

### What the violations show

- `gate_logout`: a check under way when `forget` runs puts the bearer back into the cache,
  so a later request rides it although `proxy_logout` promises re-validation.
- `connections_gauge`: a handler that leaves while its failed send awaits its turn is
  subtracted by `_discard_websocket` and again by `broadcast`: the gauge stays too low.
  (`GaugeNeverOvercounts` holds.)
- `queues_wait`: from a problem into an expected wait, `kind` is `None` and an error event
  `queue-None` is raised.
- `loop_idle`: idle readings are `IDLE_POLL_SECONDS` plus a collection apart, more than
  `GAP_SECONDS`: the run of zero acks starts afresh at each and no stall is ever reported.
- `browser_late401`: the refusal of an old session's request clears whatever cookie the
  browser has; after a new sign-in it is the new session's, whose next request ends it.

### Seen while modelling

The properties of `console` hold **with exceptions they name**; each exception is a
behaviour of the code:

- *Overview*: when the feed is lost the histories are cleared while the cells stay drawn
  (`dashboard.js:798`), so the next update of the bar drops an alarm the matrix still shows,
  against the comment at 158-160 (`unfed`). The layout and the first `/api/metrics` read are
  not tied to the session (1103, 1237; the comment at 683 says nothing outlives it), and the
  layout request is shared across a stop and a start (`strayed`). A late answer to
  `/api/metrics` that lacks the queue wipes the newer history until the next frames fill it
  again (1471-1474); `NewestReadingShown` then counts from there, and does not speak against it. The id of an alert holds its place in the list (245), so an alert that moves
  counts as new and opens a collapsed bar.
- *Runs*: overlapping polls are told apart by session only, so an older answer may be drawn
  last, and a progress read refused with 401 or 503 leaves the previous run's entry under the
  new run; either may stand until a poll has the progress to itself (`overlapped`, kept for the
  rest of the session).
- *Log*: events of one reading, which bear one time, stand oldest first when a backlog brought
  them and newest first when they came live. So a cut through a tie keeps the lower numbers of a
  backlog and drops the later events of the same reading: the property promises that what is lost
  is no newer than what is kept, not that it is older. An entry the page adds itself when a request
  fails after the sign-out stays in the log; a cut is final, also for entries that were there only
  until the next audit poll replaced its own (`trimmed`).
- *Ledger*: a building answer after the sign-out arms its retry timer (`admin.js:2958`); the
  retry is sent without a session and ends with a refusal. `RetryIsOwed` holds throughout.
- *Tabs and analysis*: reads of ranges, history, audit pages and the analysis are unguarded:
  of two that overlap the slower is drawn last, and the first to end hides the spinner of
  both (`crossed`). The violations and the skipped records of one version stay under the
  report of the next. Rules stay picked when the table is drawn afresh with no box ticked
  (2416-2507), and the prompt for the new version is then made of them (`redrawn`).

The properties of `queues` name theirs likewise:

- *Rates*: until the loop has kept its first reading, an on-demand scrape shares its tracker.
  An answer composed earlier but handled later becomes the baseline, and the next rate counts
  again acks that one had counted (`overtaken`). After a restart of the broker a counter that
  has come back to the same total gives 0.0, where the docstring says the counter "really did
  not move" (`queue_metrics.py:85`; `reset`).
- *Jobs*: a failure to read the record is cached like the record, so a moment's failure hides the
  last load for `JOB_CACHE_SECONDS`.
- *Graph gauges*: a callback that took its source before the shutdown detached it may find the
  driver closed and report the store down, which `reset_neo4j_gauges` is there to avoid
  (`telemetry.py:628-632`). With an export interval below 20 s a slow refresh outlasts the
  snapshot's time, and each callback of one export may wait for a refresh of its own, against
  `docs/telemetry.md:38`.
- *Other events*: a dead-letter queue that shrinks without emptying is not announced. A platform
  service turned off after it was announced as down is forgotten without an event, and no
  recovery follows when it is turned on again: its last event stays "down".

Elsewhere, without a run of their own: a queue whose consumer has just come back is called
stalled at once, from zero acks counted while it had none (`events.py:221`, against the
comment at line 42).

The sign-out button stays enabled and `logout` is not guarded by `ownsSession` (`admin.js:804-822`).
Two things follow. A click whose answer comes after the next sign-in puts that session behind the
login form as "You signed out.", although nobody clicked in it and catalog-api honours it; when the
click gets no answer its cookie stays too, and a reload resumes the session. `SignedOutStaysOut`
therefore speaks of sessions in which Sign out was clicked (`left`). And the answer to a sign-out
that carried no cookie clears none, but takes away the mark by which the next load retries a lost
one (line 818): a session clicked in while such a sign-out is under way may come back
(`crossed`), which is the exception the property names.

## 4. What is proved

The theorems hold for every value of the constants: with no bound on the number of bearers,
coroutines, tickets, sockets, readings, scrapes, collections, exports, sessions or reads that
TLC needs, nor on any interval. They assume what the modules assume of their constants:

- `GateAssumption`: intervals are naturals, those of tickets, refusals, checks and re-checks
  and the limits of the stores positive, `NoToken` is no bearer; the clock is bounded by an
  arbitrary `Horizon`. `LiveConnections` assumes nothing of its sockets beyond finiteness.
- `FeedAssumption`: `NoSocket` is no socket, the ring keeps at least one event, the bounds are
  naturals.
- `LoopAssumption`: the intervals are positive naturals, the bounds naturals. `StallSeen` also
  has the hypothesis `Cycle + Setbacks <= GapTime`: the longest time between two readings with
  somebody watching, failed cycles included, is within `GAP_SECONDS`. The settings of the code
  (2 s between cycles, a gap limit of 30 s, a retry after 5 s) fulfil it as long as a broadcast, a
  collection and what fails in between take no more than 28 s; beyond it each reading may begin the run of zero acks afresh, as
  `loop_idle` shows with nobody watching. The run `loop` is at the boundary (4 = 4).
- `ConditionAssumption`: the limits of the rules are naturals and `STALL_SECONDS` is positive
  (with 0 the first reading of a backlog would be a stall), and `None` is none of the names of
  the conditions. The other parts of `Detector`: their bounds are naturals, the
  refresh budget of the gauges is below the snapshot's time, and readers are told apart.
- `BrowserAssumption`: the bounds are naturals and there is a session to have.
- `WindowAssumption` and `HealthAssumption`: the page's limits are naturals, and an unknown rate
  is no number.
- `PageAssumption`, `OverviewAssumption`, `RunAssumption`, `LogAssumption`, `LedgerAssumption`,
  `PanelAssumption`, `AnalysisAssumption`: at least one session, the log, the backlog and an audit
  page hold at least one entry, times are positive, one reading makes no more events than the ring
  keeps, a view has at least one page, the first choices are choices and no marks, the bounds are
  naturals. The code's own sizes are constants above these.

- `SessionGateProofs`: `TypeCorrect`, `RevocationBitesAlways`, `NeverGrantedPastExpiryAlways`,
  `LiveSessionNeverInvalidAlways`, `SocketsSeeRevocationAlways`, `RevokedSocketClosesAlways`,
  `TicketOpensOneSocketAlways`, `LogoutVoidsTicketsAlways`, `StoresBoundedAlways`, and
  `GateImplementsLease`: the gate implements `SessionLease`.
- `LiveConnectionsProofs`: `ConnTypeCorrect`, `NoGhostsAlways`, `GaugeNeverOvercountsAlways`;
  `FeedRunsOnConnections` (the feed implements the connection set) and from it
  `FeedKeepsConnections`; `FeedInvariant`, `LogIsUnbroken`, `ReadingsAdvance`: every property of
  the run `feed`.
- `CollectLoopProofs`: `ReadingsFresh`, `StallSeen`.
- `DetectorProofs`, with the lemmas of `EventDetectorProofs`: `DetectorInvariant`,
  `DetectorTypeCorrect`, `ConditionsAreReal`, `ProblemsAnnounced`, `TransitionsTold`,
  `WindowHonest`, `RatesCounted`, `JobsCurrent`, `GaugesAgree`: every invariant of the run
  `queues`.
- `BrowserSessionProofs`: `BrowserInvariant`, `BrowserTypeCorrect`, `FeedFollowsThePanel`,
  `FeedIsNeverStranded`, `SessionsEndForCause`, `SignOutIsFinal`: every invariant of the run
  `browser`.
- `ConsoleProofs`, with the lemmas of `OverviewProofs`: `ConsoleInductive`, `ConsoleTypeCorrect`,
  `NewestReadingShownAlways`, `BarAgreesWithMatrixAlways`, `OutlivesOnlyByLateAnswerAlways`,
  `RunViewIsCurrentAlways`, `LogKeepsNewestAlways`, `LedgerShowsChoiceAlways`,
  `RetryIsOwedAlways`, `PanelsShowChosenAlways`, `AnalysisIsOfVersionAlways`: every invariant of
  the run `console`.

So every invariant that a passing run checks holds for every value of the constants. The
inductive invariants were model-checked on the configurations of the same runs before they were
proved.

**The argument for the gate.** None of the properties is inductive: whether a cached grant
is recent depends on when its check was asked, which the cache does not record. `IInv`
therefore measures everything against catalog-api's record: a cache entry ends at most
`CacheTTL` after now and `Timeout + CacheTTL` after its bearer died, and not past its expiry
(`CacheInv`); a recorded refusal is of a dead bearer (`InvalidInv`); a suspended check is at
most `Timeout` old, and an answer on its way was true when it was asked (`CheckInv`); a
socket's deadline is within the lease (`SendingInv`, `OpenInv`). Each part is preserved by a
lemma of its own (`CacheStep`, `InvalidStep`, `HandlerStep`, `TicketStep`, `ReplyStep`), which
`StepInv` puts together; `LeaseStep` maps each action to a step of the lease or a stutter.

**For the stores**, one lemma does the work: storing an entry and then evicting the oldest
other one, when that took the store over its limit, leaves a finite store within its limit
(`CachePutBounded`, `InvalidAddBounded` and `TicketIssueBounded` apply it). Every other step
only loses entries.

**For the connections**, a socket enters the set with its handler's join and leaves at the
latest with the handler, which gives `NoGhosts`; the gauge is only ever decremented for
sockets that leave the set, at least once each.

**For the feed**, the log says nothing of what is still on its way, so `ChainInv` does: each
event on a socket finds its predecessor *covered*, by the browser's last id or by an event ahead
of it, and the next event to be broadcast (`Coming`) will find its own. While a backlog is on
its way the chain begins there, and events ahead of it may be in any order: the backlog that
replaces them ends with the newest id. That a broadcast which ends leaves `Coming` the same for
every socket that stays, whether it goes on to the next event, drops its queue because the set is
empty or closes a socket first, is `FinishKeepsComing`. `ChainInv` needs to know that a
broadcast's messages are the newest ids (`QueueInv`), that it waits only for sockets past their
handshake (`CastInv`), and that a socket carries one backlog, belongs to one browser and, once
closed, has left the set (`SocketInv`). `ReadingInv` orders the readings in the same way: none on
a socket is older than the one before it or than the one its browser shows, none is newer than
the last one taken, which the loop keeps before it broadcasts it. Sockets, browsers, events,
readings and restarts are unbounded in all of it.

**For the detector**, `DetectorInv` is the conjunction of the invariants of its parts.
The rules keep registers, the properties speak of readings: `HistoryInv` says what each register
tells of `past`: since when acks have been zero (`RunsCounted`), which reading a marker waits for
(`Remembered`), what was announced and what was read since (`Announced`), and what the verdict
was drawn from (`Judged`). `StatusInv` does the same for the other events. `RateInv` follows the
acks: each scrape under way saw a total no later one undercuts (`Counts`), a rate is of acks
between two totals (`RateHonest`) and those are counted once but after an overtaking or a restart
(`CountedOnce`). `JobInv` orders the collections that wait for the lock (`Queued`, `InTurn`) by
the age of what they will find (`Dated`). `GaugeInv` says that a refresh belongs to one export
and one source (`OneEach`, `SnapshotsOwned`), that it ends within its budget
(`RefreshWithinBudget`), and that what an export has observed is one snapshot
(`ObservedInOrder`).

**For the page's window**, what `record` keeps is compared with the readings themselves:
`WindowInv` says that the samples are those of the last readings (`SamplesOfLast`), in one piece
and all but the oldest within the window, and that the oldest is younger than the window only
where the piece begins (`WindowKept`). `SampleRecorded` is what one call of `record` does to such
a history. Here and in the page a greatest element of a finite set is needed; `HasGreatest` finds
it without induction, as the element that the fewest others exceed.

**For the loop**, `ReadingsStayFresh` looks back at the last reading; what bounds its age is when
the next one is due. `FreshInv` gives that deadline for every place the loop may be waiting at,
with somebody watching (`NextWatched`) and without (`NextIdle`), and accounts for the cycles that
failed (`Lost`). A stall goes through stages: no reading since it is watched, no scrape, no zero
rate, a run of zeros too short. `StallCountsUp` gives each stage the deadline at which it is over.

**For the browser**, the late answers are what matters: `BrowserInv` says of every request under
way what its answer can do to a page that has moved on. No request but a sign-out is ahead of the
page's generation (`NoneAhead`); a request that carried no cookie was sent without
one, and there is none still (`CookieGone`); a page that loads, or a sign-in, is alone (`LoadAlone`, `SignInAlone`). `SignOutInv` adds that no check
and no cookie can bring back a session signed out of (`NoWayBack`), and that while a sign-out
without a cookie is under way, whose answer clears nothing, the cookie is of no session clicked in
but a crossed one (`BareSignOuts`). It holds for any number of sign-outs under way.

**For the console**, `ConsoleInv` says that the part looked at keeps its invariant and that the
Overview, the runs and the log have otherwise not begun; ledger and panels, whose steps the other
parts leave alone, keep theirs in any case. Every part is proved against its own steps and against
each way a session begins and ends.

- *Overview*: `OverviewInv` orders the readings (`ReadingsTaken`), ties each request to a session
  that has begun (`RequestsBegun`), asks for the layout only while there is none (`LayoutFirst`),
  and says that the history ends with the newest reading heard (`HistoryHeard`) and that cell, bar
  and header are what follows from it unless a feed was lost since they were drawn (`BarDerived`).
  That much is inductive by itself (`OverviewCore`); `LoggedAsDrawn` adds that the dead-letter state
  drawn is the one logged.
  `BarAgreesWithMatrix` follows because the items of the bar are told apart by what they are about.
- *Runs*: what is drawn may lag behind only while a poll of the session bears news (`DrawnAsKnown`);
  polls that do not overlap read the progress of the run shown (`OnePoll`).
- *Log*: events, actions and entries are told apart by their numbers, whatever their times
  (`EachIsOne`), the log is sorted, tells nothing twice, and an entry of an event is the server's
  (`LogOrdered`), and on an open connection the entries of the server are of events up to the last
  number seen, and what is delivered is in the log unless its time is at or below the cut's
  (`FeedTold`). Merging is a filter, a sort and a cut. Filter and sort place
  each entry at its rank, one more than the number of entries that go before it; that the ranks of
  finitely many entries in a total order are `1..n`, each taken once, is proved by counting
  (`Ranked`, `ListedIs`), since induction over sequences is out of reach. From it follow
  what a sort and a filter keep (`SortedIs`, `FilteredIs`) and what a cut leaves (`Logged`).
- *Ledger*: that the answer drawn is the choice depends on what the read under way was asked.
  `LedgerInv` adds that reads of a name are numbered apart and none above the newest
  (`ReadsNumbered`), that the newest asked for what is chosen now unless the work was closed
  (`NewestAsksChoice`), and that the two retried panels always have a choice
  (`RetriedAreChosen`), without which a retry could ask for nothing.
- *Tabs and analysis*: a panel none of whose reads overlapped has at most the newest under way and
  at rest shows what it asked for (`CallsInOrder`), errors and spinners follow the newest read
  (`ErrorsTold`), what is in front was asked for as chosen (`FrontAsked`), and the report asked for
  last is of the version selected (`VersionAsked`).

Only model-checked: liveness (`EventsArrive`; TLAPS proves no liveness under fairness), and what
the runs that expect a violation show.

Nothing in the modules is recursive.

## 5. Not modelled

Rendering, formatting, charts, the topology diagram's geometry, the burn-up curve, the cards
of services, platform and databases beyond what the bar says of them, deep links into a tab,
the theme toggle; parsing of headers, cookies, bodies and paths; the check that a request is
same-origin; redaction; configuration; the reshaping of answers of Prometheus, Grafana and
the extractors. They keep no state that a later step reads.

Within what is modelled, one member stands for all of its kind: a pipeline with one cell, one
service, one platform target, one datastore; the ledger's filters and page are one choice.

## 6. What could follow

An abstract session (signed out, or on screen) that `BrowserSession` implements; the transport's
close, if the code comes to set a limit for it.
