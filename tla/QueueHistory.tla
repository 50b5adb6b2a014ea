--------------------------- MODULE QueueHistory ---------------------------
(***************************************************************************)
(* The queue health rules under every history of readings: what a          *)
(* condition, and the event it raises, says of the readings that led to    *)
(* it.  The rules keep three registers for a queue; the history variable   *)
(* past keeps every reading, so that the promises of the documentation can *)
(* be stated over the readings themselves.                                 *)
(***************************************************************************)
EXTENDS QueueConditions, Sequences

CONSTANTS
  Gaps,        \* how far apart two readings may be; the first is at time 0
  MaxReadings  \* bound: the readings of a history

ASSUME HistoryAssumption == Gaps \subseteq Nat \ {0} /\ MaxReadings \in Nat

VARIABLE past  \* the readings so far, with the condition and the event each was given

historyVars == <<queueVars, past>>

Clock == IF past = <<>> THEN 0 ELSE past[Len(past)].at

HistoryInit == QueueInit /\ past = <<>>

\* One reading of the collection loop, observed as collect_metrics_loop does.
HistoryNext ==
  /\ Len(past) < MaxReadings
  /\ \E r \in Readings, gap \in IF past = <<>> THEN {0} ELSE Gaps :
       /\ Observe(r, Clock + gap)
       /\ past' = Append(past, [r |-> r, at |-> Clock + gap,
                                condition |-> condition', event |-> event'])

HistorySpec == HistoryInit /\ [][HistoryNext]_historyVars
-----------------------------------------------------------------------------
\* The readings that listed the queue since the last failed scrape.
Listed == {i \in DOMAIN past :
             past[i].r.present /\ \A j \in i..Len(past) : past[j].r.scraped}
Latest == past[Len(past)]

\* P held of every listed reading since the i-th, no two in a row further apart than gap.
Run(i, P(_), gap) ==
  /\ \A j \in Listed : j >= i => P(past[j].r)
  /\ \A j, k \in Listed : (i <= j /\ j < k /\ ~\E m \in Listed : j < m /\ m < k)
                            => past[k].at - past[j].at <= gap
Lasted(P(_), gap, time) == \E i \in Listed : Run(i, P, gap) /\ Latest.at - past[i].at >= time
Now(P(_)) == past # <<>> /\ Latest.r.scraped /\ Latest.r.present /\ P(Latest.r)

ZeroAcks(r) == r.backlog /\ r.acks = "zero"
Consumed(r) == r.backlog /\ r.consumed
Orphaned(r) == r.backlog /\ ~r.consumed
Waiting(r)  == Orphaned(r) /\ r.listed
Forever     == Clock + 1
-----------------------------------------------------------------------------
\* A queue is stalled exactly when its last reading shows a backlog and consumers, and its
\* readings have shown a backlog and zero acks for STALL_SECONDS, with no failed scrape
\* and no gap over GAP_SECONDS in between; and a queue with a backlog and no consumer is
\* excused as awaiting its marker exactly while its service has listed it in every listed
\* reading of less than awaiting_marker_seconds: the excuse runs out however the readings are
\* spaced, and is renewed only by a reading that is not waiting, or by a failed scrape
\* (_work_queues_of, _condition_of, _awaiting_marker_for).
ConditionIsReal ==
  /\ condition = "stalled" <=> Now(Consumed) /\ Lasted(ZeroAcks, GapTime, StallTime)
  /\ Now(Orphaned) =>
       (condition = "awaiting-marker" <=> Now(Waiting) /\ ~Lasted(Waiting, Forever, MarkerTime))

\* A problem that began after the baseline was announced: once some listed reading since
\* the last failed scrape had another condition, the last event of the queue names the
\* problem it has now (the known/previous test of _work_queues_of).
ProblemsAreAnnounced ==
  (condition \in {"no-consumer", "stalled"}
     /\ \E i \in Listed : past[i].condition # condition)
  => \E i \in Listed : /\ past[i].event = condition
                       /\ \A j \in Listed : j > i => past[j].event = "none"

\* events.py says that "an expected wait is not announced as a problem": a reading that
\* leaves the queue awaiting its marker raises no event.  The code raises an error named
\* "queue-None" when the queue had a problem before.
WaitNotAnnounced == condition = "awaiting-marker" => event = "none"
=============================================================================
