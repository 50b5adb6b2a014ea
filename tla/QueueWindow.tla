---------------------------- MODULE QueueWindow ----------------------------
(***************************************************************************)
(* The same readings of a queue on both sides of the wire: the detector of *)
(* the server gives each its condition (QueueHistory), and the page, which *)
(* is handed every reading, keeps a short history of the queue (record of  *)
(* QueueHealth in static/dashboard.js; the Overview's updateQueues).       *)
(***************************************************************************)
EXTENDS QueueHistory

CONSTANTS TrendTime, MinChange, LagLimits, Unknown  \* QueueHealth's

ASSUME WindowAssumption == {TrendTime, MinChange} \subseteq Nat /\ Unknown \notin Int

Page == INSTANCE QueueHealth

VARIABLE samples  \* queueHistory of the queue

windowVars == <<historyVars, samples>>

\* A reading as the page samples it.
Sample(entry) ==
  LET r == entry.r
  IN [t |-> entry.at, messages |-> IF r.backlog THEN 1 ELSE 0,
      ack |-> CASE r.acks = "zero" -> 0 [] r.acks = "flowing" -> 1 [] OTHER -> Unknown,
      condition |-> entry.condition]

\* updateQueues: a queue the reading does not list has no history.
Sampled(entry) ==
  IF ~entry.r.scraped \/ ~entry.r.present THEN <<>> ELSE Page!Record(samples, Sample(entry))

WindowInit == HistoryInit /\ samples = <<>>
WindowNext == HistoryNext /\ samples' = Sampled(past'[Len(past')])
WindowSpec == WindowInit /\ [][WindowNext]_windowVars
-----------------------------------------------------------------------------
\* The readings in one piece up to the latest: all of them list the queue, and no two in a
\* row are further apart than GAP_SECONDS.
Unbroken(i) ==
  \A j \in i..Len(past) :
    /\ past[j].r.scraped /\ past[j].r.present
    /\ j > i => past[j].at - past[j - 1].at <= GapTime

\* What the page shows of a queue (trend, lag, zero acks) rests on an honest history: it holds
\* every reading of the unbroken run up to now that falls in the window, and the newest one
\* at or before its start, which the change over the window is measured from, and nothing
\* older and nothing across a gap.  And the page never contradicts the detector: it draws a
\* queue stalled or without a consumer exactly when the detector said so of its last reading,
\* and the time without acks it shows never exceeds the time the detector has counted
\* (record, updateQueues, assessQueue, zeroAckSeconds; ZeroSince of the detector).
WindowIsHonest ==
  LET piece  == {i \in DOMAIN past : Unbroken(i)}
      before == {i \in piece : past[i].at <= Clock - TrendTime}
      kept   == IF before = {} THEN piece ELSE {i \in piece : \A j \in before : j <= i}
  IN /\ {samples[i].t : i \in DOMAIN samples} = {past[i].at : i \in kept}
     /\ samples # <<>> =>
          /\ Page!AssessQueue(samples).state = "crit" <=> condition \in {"stalled", "no-consumer"}
          /\ Page!ZeroAckTime(samples) > 0 =>
               zeroSince # None /\ Page!ZeroAckTime(samples) <= Clock - zeroSince
=============================================================================
