---------------------------- MODULE CollectLoop ----------------------------
(***************************************************************************)
(* The background collection loop (collect_metrics_loop and                *)
(* _wait_for_next_cycle in dashboard/dashboard.py) on a clock, with the    *)
(* viewers that set its pace and one work queue whose consumer stops       *)
(* acknowledging.  The queue is judged by the rules of QueueConditions:    *)
(* the module asks whether the cadence of the loop lets them see a stall.  *)
(***************************************************************************)
EXTENDS QueueConditions

CONSTANTS
  Active,      \* ACTIVE_POLL_SECONDS
  Idle,        \* IDLE_POLL_SECONDS
  Grace,       \* VIEWER_GRACE_SECONDS
  Retry,       \* the sleep after a failed cycle
  MaxCollect,  \* bound: the longest collection, by the timeouts of the polls
  MaxCast,     \* bound: the longest broadcast, by the timeouts of the sends
  MaxFails,    \* bound: the cycles that raise
  MaxVisits,   \* bound: the WebSockets opened
  MaxReads,    \* bound: the HTTP reads of the snapshot
  Horizon      \* bound: the clock

ASSUME LoopAssumption ==
  /\ {Active, Idle, Grace, Retry, MaxCollect} \subseteq Nat \ {0}
  /\ {MaxCast, MaxFails, MaxVisits, MaxReads, Horizon} \subseteq Nat

VARIABLES
  now,
  phase,        \* where the loop is suspended
  due,          \* when that await ends at the latest
  waited,       \* the local of _wait_for_next_cycle
  open,         \* some WebSocket is registered
  readAt,       \* _last_snapshot_read
  scrapedAt,    \* when the RateTracker took its baseline
  frozenAt,     \* when the queue's consumer stopped acknowledging
  watchedSince, \* since when has_viewers() has been true
  fails, visits, reads

loopVars == <<now, phase, due, waited, open, readAt, scrapedAt, frozenAt, watchedSince,
              fails, visits, reads, queueVars>>
viewVars  == <<open, readAt, watchedSince, visits, reads>>

LoopInit ==
  /\ QueueInit
  /\ now = 0 /\ phase = "collecting" /\ due = MaxCollect /\ waited = 0
  /\ open = FALSE /\ readAt = None /\ watchedSince = None
  /\ scrapedAt = None /\ frozenAt = None
  /\ fails = 0 /\ visits = 0 /\ reads = 0
-----------------------------------------------------------------------------
\* has_viewers, at time t
HasViewers(isOpen, read, t) == isOpen \/ (read # None /\ t - read < Grace)

Watch(isOpen, read, t) ==
  watchedSince' = IF ~HasViewers(isOpen, read, t) THEN None
                  ELSE IF watchedSince = None THEN t ELSE watchedSince

Collecting == phase = "collecting" /\ now > due - MaxCollect  \* a collection takes time
ScrapeTimes == (due - MaxCollect)..now

\* The queue has a backlog and a consumer; its ack rate is the one RateTracker computes
\* from the acks since the last scrape.
Reading ==
  Scrape(TRUE, TRUE,
         IF ~counted THEN "unknown"
         ELSE IF frozenAt # None /\ frozenAt <= scrapedAt THEN "zero" ELSE "flowing",
         FALSE)

BeginCollect == phase' = "collecting" /\ due' = now + MaxCollect /\ waited' = 0
Rest == phase' = "resting" /\ due' = now + Retry /\ fails' = fails + 1 /\ UNCHANGED waited

\* The polls answered: the reading is stamped now, observed, kept and broadcast.
CollectEnds ==
  /\ Collecting
  /\ \E s \in ScrapeTimes : scrapedAt' = s
  /\ Observe(Reading, now)
  /\ phase' = "casting" /\ due' = now + MaxCast
  /\ UNCHANGED <<now, waited, frozenAt, fails, viewVars>>

\* A poll raised, before or after the broker was scraped.
CollectFails ==
  /\ Collecting
  /\ fails < MaxFails
  /\ \/ UNCHANGED <<scrapedAt, counted>>
     \/ counted' = TRUE /\ \E s \in ScrapeTimes : scrapedAt' = s
  /\ Rest
  /\ UNCHANGED <<now, frozenAt, viewVars, seenAt, zeroSince, awaitingSince, reported,
                 condition, event>>

\* The sends are over; _wait_for_next_cycle begins.
CastEnds ==
  /\ phase = "casting"
  /\ phase' = "waiting" /\ due' = now + Active /\ waited' = 0
  /\ UNCHANGED <<now, scrapedAt, frozenAt, fails, viewVars, queueVars>>

\* The broadcast raised, after the reading was observed.
CastFails ==
  /\ phase = "casting"
  /\ fails < MaxFails
  /\ Rest
  /\ UNCHANGED <<now, scrapedAt, frozenAt, viewVars, queueVars>>

\* _wait_for_next_cycle: one active tick of the wait is over.
WakeIf(enough) ==
  /\ phase = "waiting" /\ now = due
  /\ IF enough
     THEN BeginCollect
     ELSE phase' = "waiting" /\ due' = now + Active /\ waited' = waited + Active
  /\ UNCHANGED <<now, scrapedAt, frozenAt, fails, viewVars, queueVars>>

\* Mutants of Wake: only viewers end the wait, and only the idle interval does.
WakeForViewers == WakeIf(HasViewers(open, readAt, now))
WakeWhenIdle   == WakeIf(waited + Active >= Idle)

\* The wait is cut short by a viewer, or is over.
Wake == WakeIf(HasViewers(open, readAt, now) \/ waited + Active >= Idle)

\* The sleep after a failed cycle is over.
Resume ==
  /\ phase = "resting" /\ now = due
  /\ BeginCollect
  /\ UNCHANGED <<now, scrapedAt, frozenAt, fails, viewVars, queueVars>>
-----------------------------------------------------------------------------
ViewerOpens ==
  /\ ~open /\ visits < MaxVisits
  /\ open' = TRUE /\ visits' = visits + 1
  /\ Watch(TRUE, readAt, now)
  /\ UNCHANGED <<now, phase, due, waited, readAt, scrapedAt, frozenAt, fails, reads, queueVars>>

ViewerLeaves ==
  /\ open
  /\ open' = FALSE
  /\ Watch(FALSE, readAt, now)
  /\ UNCHANGED <<now, phase, due, waited, readAt, scrapedAt, frozenAt, fails, visits, reads,
                 queueVars>>

\* note_snapshot_read, by GET /api/metrics
SnapshotRead ==
  /\ reads < MaxReads
  /\ readAt' = now /\ reads' = reads + 1
  /\ Watch(open, now, now)
  /\ UNCHANGED <<now, phase, due, waited, open, scrapedAt, frozenAt, fails, visits, queueVars>>

\* The queue's consumer stops acknowledging, and its backlog stays.
Freeze ==
  /\ frozenAt = None
  /\ frozenAt' = now
  /\ UNCHANGED <<now, phase, due, waited, scrapedAt, fails, viewVars, queueVars>>

\* Time passes, never beyond the end of what the loop awaits.
Tick ==
  /\ now < Horizon /\ now < due
  /\ now' = now + 1
  /\ Watch(open, readAt, now + 1)
  /\ UNCHANGED <<phase, due, waited, open, readAt, scrapedAt, frozenAt, fails, visits, reads,
                 queueVars>>

LoopNext ==
  \/ CollectEnds \/ CollectFails \/ CastEnds \/ CastFails \/ Wake \/ Resume
  \/ ViewerOpens \/ ViewerLeaves \/ SnapshotRead \/ Freeze \/ Tick

LoopSpec == LoopInit /\ [][LoopNext]_loopVars
-----------------------------------------------------------------------------
Later(a, b) == IF b = None \/ a > b THEN a ELSE b
Cycle     == MaxCast + Active + MaxCollect       \* from one reading to the next, watched
Setbacks  == MaxFails * (Retry + MaxCollect)     \* what the failed cycles add

\* While somebody watches, the reading shown is never older than one active cycle: a
\* viewer who arrives in the middle of an idle wait ends it within one active tick, as the
\* comment at ACTIVE_POLL_SECONDS promises, and failed cycles only add their retries.  With
\* nobody watching, the loop still takes a reading every idle interval: the event backlog has
\* no longer hole in it (_wait_for_next_cycle, and the retry of a failed cycle).
ReadingsStayFresh ==
  /\ watchedSince # None => now - Later(watchedSince, seenAt) <= Cycle + Setbacks
  /\ now - Later(0, seenAt) <= Idle + Cycle + Setbacks

\* A stall that lasts is reported while somebody watches: the readings of an active loop
\* are close enough together for the run of zero acks never to start afresh.
StallSeenWatched ==
  (/\ frozenAt # None /\ watchedSince # None
   /\ now - Later(frozenAt, watchedSince) >= StallTime + 4 * Cycle + Setbacks)
  => condition = "stalled"

\* events.py says that "a stall is detected while no browser is open": a stall that has
\* lasted long enough for several idle intervals is reported.  The idle interval and a
\* collection together exceed GAP_SECONDS, so every idle reading starts the run afresh.
StallSeenIdle ==
  (frozenAt # None /\ now - frozenAt >= 2 * StallTime + 2 * Idle + 4 * Cycle + Setbacks)
  => condition = "stalled"
=============================================================================
