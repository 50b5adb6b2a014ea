---------------------------- MODULE QueueHealth ----------------------------
(***************************************************************************)
(* The Overview matrix's rules (QueueHealth in static/dashboard.js): the   *)
(* short history the page keeps of a queue, and what one cell of the       *)
(* matrix says of its work queue and its dead-letter queue.  No state: the *)
(* histories are the Overview's.  Whether a queue is stalled or without a  *)
(* consumer is the server's verdict (QueueConditions), carried by the      *)
(* samples.                                                                *)
(***************************************************************************)
EXTENDS Integers, Sequences, FiniteSetsExt

CONSTANTS
  TrendTime,   \* TREND_SECONDS
  GapTime,     \* GAP_SECONDS
  MinChange,   \* TREND_MIN_CHANGE
  LagLimits,   \* the finite limits of LAG_BINS, a set
  Unknown      \* a rate that could not be computed

ASSUME HealthAssumption ==
  /\ {TrendTime, GapTime, MinChange} \subseteq Nat
  /\ LagLimits \subseteq Nat /\ IsFiniteSet(LagLimits)
  /\ Unknown \notin Int

\* A sample: when, the backlog, the ack rate, the server's condition.
Latest(samples) == samples[Len(samples)]
-----------------------------------------------------------------------------
\* What a sample that is not late is added to: a gap starts afresh, one of the same time is
\* replaced.
Joined(samples, s) ==
  IF samples = <<>> \/ s.t - Latest(samples).t > GapTime THEN <<>>
  ELSE IF s.t = Latest(samples).t THEN SubSeq(samples, 1, Len(samples) - 1) ELSE samples

\* The newest sample at or before the start of the window stays as its baseline.
Windowed(samples, start) ==
  LET base == {i \in DOMAIN samples : samples[i].t <= start}
  IN SubSeq(samples, IF base = {} THEN 1 ELSE Max(base), Len(samples))

\* Mutants of Record: a gap does not start the history afresh; the baseline before the
\* window is not kept; a late sample is taken for the newest.
RecordOverGaps(samples, s) ==
  IF samples = <<>> \/ s.t > Latest(samples).t
  THEN Windowed(Append(samples, s), s.t - TrendTime) ELSE samples
RecordNoBaseline(samples, s) ==
  IF samples # <<>> /\ s.t < Latest(samples).t THEN samples
  ELSE SelectSeq(Append(Joined(samples, s), s), LAMBDA old : old.t > s.t - TrendTime)
RecordLate(samples, s) == Append(Joined(samples, s), s)

\* record: a late sample is dropped.
Record(samples, s) ==
  IF samples # <<>> /\ s.t < Latest(samples).t THEN samples
  ELSE Windowed(Append(Joined(samples, s), s), s.t - TrendTime)

\* zeroAckSeconds: how long the newest run of zero acks with a backlog has lasted.
ZeroAckTime(samples) ==
  LET run == {i \in DOMAIN samples : \A j \in i..Len(samples) :
                samples[j].ack = 0 /\ samples[j].messages > 0}
  IN IF run = {} THEN 0 ELSE Latest(samples).t - samples[Min(run)].t

\* lagSeconds, meanAckRate, lagBin: the bin of the time the backlog takes at the mean of the
\* computed ack rates, a fraction that is compared without dividing.
LagBin(samples) ==
  LET last  == Latest(samples)
      rated == {i \in DOMAIN samples : /\ samples[i].ack # Unknown
                                       /\ last.t - samples[i].t <= TrendTime}
      acks  == MapThenSumSet(LAMBDA i : samples[i].ack, rated)
      bins  == {l \in LagLimits : last.messages * Cardinality(rated) < l * acks}
  IN CASE samples = <<>> -> "unknown"
       [] samples # <<>> /\ last.messages = 0 -> "none"
       [] samples # <<>> /\ last.messages # 0 /\ rated = {} -> "unknown"
       [] OTHER -> IF bins = {} THEN "beyond"
                   ELSE IF Min(bins) = Min(LagLimits) THEN "short" ELSE "long"

\* depthChange: the depth now against the start of the window.
DepthChange(samples) ==
  IF samples = <<>> THEN 0 ELSE Latest(samples).messages - Head(samples).messages

\* coverage: the time the history covers, up to the window.
Coverage(samples) ==
  IF samples = <<>> THEN 0 ELSE Min({TrendTime, Latest(samples).t - Head(samples).t})

\* trend
Trend(samples) ==
  CASE DepthChange(samples) >= MinChange /\ DepthChange(samples) > 0 -> "rising"
    [] -DepthChange(samples) >= MinChange /\ DepthChange(samples) < 0 -> "falling"
    [] OTHER -> "steady"

\* assessQueue: the server's condition, an expected wait drawn quietly.
AssessQueue(samples) ==
  IF samples = <<>> THEN [state |-> "unknown", kind |-> "missing"]
  ELSE LET c == Latest(samples).condition
       IN CASE c = "awaiting-marker" -> [state |-> "ok", kind |-> c]
            [] c \in {"stalled", "no-consumer"} -> [state |-> "crit", kind |-> c]
            [] OTHER -> [state |-> "ok", kind |-> IF Latest(samples).messages = 0
                                                  THEN "drained" ELSE "flowing"]

\* assessDlq: critical while it grows, a warning while it holds messages.
AssessDlq(samples) ==
  CASE samples = <<>> -> [state |-> "unknown", kind |-> "dlq-missing"]
    [] samples # <<>> /\ DepthChange(samples) > 0 -> [state |-> "crit", kind |-> "dlq-growing"]
    [] samples # <<>> /\ DepthChange(samples) <= 0 ->
         IF Latest(samples).messages > 0 THEN [state |-> "warn", kind |-> "dlq-static"]
         ELSE [state |-> "ok", kind |-> "dlq-empty"]

\* worst
Worst(a, b) ==
  LET rank == [unknown |-> 0, ok |-> 1, warn |-> 2, crit |-> 3]
  IN IF rank[b] > rank[a] THEN b ELSE a

\* _cellModel: what a cell says, from the histories of its two queues.
CellModel(unavailable, work, dead) ==
  LET off    == [state |-> "unknown", kind |-> "unavailable"]
      health == IF unavailable THEN off ELSE AssessQueue(work)
      dlq    == IF unavailable THEN off ELSE AssessDlq(dead)
  IN [health |-> health, dlq |-> dlq, state |-> Worst(health.state, dlq.state),
      lag |-> LagBin(work), trend |-> Trend(work)]
=============================================================================
