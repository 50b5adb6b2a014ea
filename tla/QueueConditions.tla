-------------------------- MODULE QueueConditions --------------------------
(***************************************************************************)
(* The queue health rules of the event detector (EventDetector in          *)
(* dashboard/events.py): for a work queue of one pipeline, the condition   *)
(* each reading is given (no consumer, stalled, awaiting its marker) and   *)
(* the events that announce a change of condition.  Queues share only      *)
(* whether the broker scrape succeeded, so one queue stands for each.      *)
(* QueueHistory drives the rules with every short history of readings,     *)
(* CollectLoop with the readings that the collection loop takes.           *)
(***************************************************************************)
EXTENDS Integers

CONSTANTS
  StallTime,   \* STALL_SECONDS
  GapTime,     \* GAP_SECONDS
  MarkerTime,  \* awaiting_marker_seconds
  None         \* an absent entry of a dict of the detector

ASSUME ConditionAssumption ==
  /\ None \notin Int /\ None \notin {"healthy", "no-consumer", "stalled"}
  /\ StallTime \in Nat \ {0} /\ GapTime \in Nat /\ MarkerTime \in Nat

VARIABLES
  seenAt,        \* _seen_at: the last reading that listed the queue
  zeroSince,     \* _zero_since: the start of the run of computed zero acks
  awaitingSince, \* _awaiting_since: the start of the wait for the marker
  reported,      \* _conditions: the kind last reported, "healthy" for None
  counted,       \* RateTracker has a baseline for the queue
  condition,     \* QueueInfo.condition of the last reading
  event          \* the event of the last reading, by what follows "queue-" in its kind

queueVars == <<seenAt, zeroSince, awaitingSince, reported, counted, condition, event>>
-----------------------------------------------------------------------------
\* What one reading says of the pipeline: the scrape failed, the queue is not listed,
\* or its backlog, consumers and ack rate, and whether its service lists its type in
\* awaiting_extraction_complete.
Scrape(backlog, consumed, acks, listed) ==
  [scraped |-> TRUE, present |-> TRUE, backlog |-> backlog, consumed |-> consumed,
   acks |-> acks, listed |-> listed]
Missing == [Scrape(FALSE, FALSE, "unknown", FALSE) EXCEPT !.present = FALSE]
Outage  == [Missing EXCEPT !.scraped = FALSE]

Readings ==
  {Missing, Outage}
  \cup {Scrape(FALSE, TRUE, acks, FALSE) : acks \in {"zero", "unknown"}}
  \cup {Scrape(TRUE, TRUE, acks, FALSE) : acks \in {"zero", "flowing", "unknown"}}
  \cup {Scrape(TRUE, FALSE, acks, listed) : acks \in {"zero", "unknown"}, listed \in BOOLEAN}

\* RateTracker.update: a rate needs a baseline in the last successful scrape; a reset
\* counter leaves it unknown.
Computable(r) == r.present /\ r.acks # "unknown" => counted
Counted(r)    == IF r.scraped THEN r.present ELSE counted

QueueInit ==
  /\ seenAt = None /\ zeroSince = None /\ awaitingSince = None
  /\ reported = None
  /\ counted = FALSE
  /\ condition = "none"
  /\ event = "none"
-----------------------------------------------------------------------------
\* Mutants of ZeroSince: a gap does not end the run, and a gap of exactly GAP_SECONDS does.
ZeroSinceOverGaps(r, at) ==
  IF ~(r.backlog /\ r.acks = "zero") THEN None
  ELSE IF zeroSince = None THEN at ELSE zeroSince
ZeroSinceShortGap(r, at) ==
  LET kept == IF seenAt # None /\ at - seenAt >= GapTime THEN None ELSE zeroSince
  IN IF ~(r.backlog /\ r.acks = "zero") THEN None
     ELSE IF kept = None THEN at ELSE kept

\* The run of computed zero acks, begun afresh after a gap.
ZeroSince(r, at) ==
  LET kept == IF seenAt # None /\ at - seenAt > GapTime THEN None ELSE zeroSince
  IN IF ~(r.backlog /\ r.acks = "zero") THEN None
     ELSE IF kept = None THEN at ELSE kept

\* Mutant of AwaitingSince: a wait that ended is never forgotten.
AwaitingSinceOnce(r, at) ==
  IF awaitingSince # None THEN awaitingSince
  ELSE IF r.backlog /\ ~r.consumed /\ r.listed THEN at ELSE None

\* _awaiting_marker_for
AwaitingSince(r, at) ==
  IF ~(r.backlog /\ ~r.consumed /\ r.listed) THEN None
  ELSE IF awaitingSince = None THEN at ELSE awaitingSince

\* _condition_of
ConditionOf(r, zeroFor, awaitingFor) ==
  CASE r.backlog /\ ~r.consumed ->
         IF awaitingFor # None /\ awaitingFor < MarkerTime
         THEN "awaiting-marker" ELSE "no-consumer"
    [] r.backlog /\ r.consumed /\ zeroFor >= StallTime -> "stalled"
    [] OTHER -> "none"

\* An expected wait is reported as if the queue were healthy.
KindOf(c) == IF c \in {"none", "awaiting-marker"} THEN "healthy" ELSE c

\* Mutant of EventOf: a problem that turns into another one is not announced.
EventOfHealthy(c) ==
  IF reported \in {None, KindOf(c)} \/ (reported # "healthy" /\ c # "none") THEN "none"
  ELSE CASE c = "none" -> "recovered" [] c = "awaiting-marker" -> "None" [] OTHER -> c

\* The event of a change of kind: an error named for the new kind when there is a
\* condition, even an expected wait, else a recovery.
EventOf(c) ==
  IF reported \in {None, KindOf(c)} THEN "none"
  ELSE CASE c = "none" -> "recovered" [] c = "awaiting-marker" -> "None" [] OTHER -> c

Forget ==
  /\ seenAt' = None /\ zeroSince' = None /\ awaitingSince' = None /\ reported' = None
  /\ condition' = "none"
  /\ event' = "none"

Assess(r, at) ==
  LET c == ConditionOf(r, IF zeroSince' = None THEN 0 ELSE at - zeroSince',
                          IF awaitingSince' = None THEN None ELSE at - awaitingSince')
  IN /\ seenAt' = at
     /\ zeroSince' = ZeroSince(r, at)
     /\ awaitingSince' = AwaitingSince(r, at)
     /\ condition' = c
     /\ reported' = KindOf(c)
     /\ event' = EventOf(c)

\* _work_queues_of for one reading
Observe(r, at) ==
  /\ Computable(r)
  /\ \/ ~r.scraped /\ Forget
     \/ r.scraped /\ r.present /\ Assess(r, at)
     \/ /\ r.scraped /\ ~r.present
        /\ condition' = "none"
        /\ event' = "none"
        /\ UNCHANGED <<seenAt, zeroSince, awaitingSince, reported>>
  /\ counted' = Counted(r)
-----------------------------------------------------------------------------
\* Type invariant of the detector's registers for one queue.
QueueTypeOK ==
  /\ {seenAt, zeroSince, awaitingSince} \subseteq Nat \cup {None}
  /\ reported \in {None, "healthy", "no-consumer", "stalled"}
  /\ counted \in BOOLEAN
  /\ condition \in {"none", "no-consumer", "awaiting-marker", "stalled"}
  /\ event \in {"none", "no-consumer", "stalled", "recovered", "None"}
=============================================================================
