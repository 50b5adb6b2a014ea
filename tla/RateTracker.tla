----------------------------- MODULE RateTracker -----------------------------
(***************************************************************************)
(* The ack rate of a queue (RateTracker in dashboard/queue_metrics.py and  *)
(* get_queue_info in dashboard/dashboard.py): counters scraped from the    *)
(* broker, and the change between two scrapes over the time between their  *)
(* answers.  The collection loop scrapes all the time; until it has kept   *)
(* its first reading, GET /api/metrics collects one of its own beside it,  *)
(* through the same tracker.  An answer is composed at the broker and      *)
(* handled later, so the answers of two scrapes may overtake each other.   *)
(***************************************************************************)
EXTENDS Integers

CONSTANTS
  Requests,   \* reads of /api/metrics that found no reading kept
  MaxAcks,    \* bound: acks of the queue's consumers
  MaxRateTime \* bound: the time

LoopScrape == "loop"  \* collect_metrics_loop

ASSUME RateAssumption == LoopScrape \notin Requests /\ {MaxAcks, MaxRateTime} \subseteq Nat

VARIABLES
  time,      \* time.monotonic
  acked,     \* acks in all
  total,     \* acked_total at the broker, from 0 again when it restarts
  restarted, \* the broker has restarted
  kept,      \* latest_metrics is there
  scrapes,   \* by who scrapes: nothing, sent, the answer composed, or the answer handled
  previous,  \* _previous of the queue
  rate,      \* the last rate computed, or not computable; and the acks it stands for
  ratedAcks, \* acks in the rates computed so far
  first,     \* acks when the first scrape handled was composed
  newest,    \* of the scrapes handled that list the queue, the one composed last
  overtaken  \* a scrape was handled after one composed later

brokerVars  == <<time, acked, total, restarted>>
trackerVars == <<previous, rate, ratedAcks, first, newest, overtaken>>
rateVars    == <<brokerVars, kept, scrapes, trackerVars>>
-----------------------------------------------------------------------------
Scrapers   == Requests \cup {LoopScrape}
NotScraped == [stage |-> "none", total |-> 0, acked |-> 0, listed |-> FALSE, restarted |-> FALSE]
Scraped    == [NotScraped EXCEPT !.stage = "scraped"]
NoBaseline == [at |-> -1, total |-> 0, acked |-> 0, restarted |-> FALSE]
NotComputable == [over |-> 0, change |-> 0, acks |-> 0, reset |-> FALSE]

\* No scrape yet.
RateInit ==
  /\ time = 0 /\ acked = 0 /\ total = 0 /\ restarted = FALSE /\ kept = FALSE
  /\ scrapes = [s \in Scrapers |-> NotScraped]
  /\ previous = NoBaseline /\ rate = NotComputable
  /\ ratedAcks = 0 /\ first = -1 /\ overtaken = FALSE
  /\ newest = [acked |-> 0, restarted |-> FALSE]

\* Time passes, and consumers ack.
PassTime ==
  /\ time < MaxRateTime /\ time' = time + 1
  /\ UNCHANGED <<acked, total, restarted, kept, scrapes, trackerVars>>
QueueAcks ==
  /\ acked < MaxAcks /\ acked' = acked + 1 /\ total' = total + 1
  /\ UNCHANGED <<time, restarted, kept, scrapes, trackerVars>>

\* The broker restarts: its counters begin at zero.
BrokerRestarts ==
  /\ ~restarted /\ restarted' = TRUE /\ total' = 0
  /\ UNCHANGED <<time, acked, kept, scrapes, trackerVars>>

\* get_queue_info: the loop at each of its turns, a request while no reading is kept.
SendScrape(s) ==
  /\ scrapes[s].stage = "none" /\ (s \in Requests => ~kept)
  /\ scrapes' = [scrapes EXCEPT ![s].stage = "sent"]
  /\ UNCHANGED <<brokerVars, kept, trackerVars>>

\* The broker composes its answer; a queue may be missing from it.
ScrapeAnswered(s) ==
  /\ scrapes[s].stage = "sent"
  /\ \E listed \in BOOLEAN :
       scrapes' = [scrapes EXCEPT ![s] = [stage |-> "answered", total |-> total, acked |-> acked,
                                          listed |-> listed, restarted |-> restarted]]
  /\ UNCHANGED <<brokerVars, kept, trackerVars>>

\* It is refused, lost or malformed: the tracker is left alone.
ScrapeFails(s) ==
  /\ scrapes[s].stage \in {"sent", "answered"}
  /\ scrapes' = [scrapes EXCEPT ![s] = Scraped]
  /\ UNCHANGED <<brokerVars, kept, trackerVars>>

\* _rate, over the time since the baseline was handled.
\* Mutant: a counter that goes down gives a rate.
RateOfAny(sample) ==
  IF previous = NoBaseline \/ time <= previous.at THEN NotComputable
  ELSE [over |-> time - previous.at, change |-> sample.total - previous.total,
        acks |-> sample.acked - previous.acked, reset |-> sample.restarted # previous.restarted]
RateOf(sample) ==
  IF previous = NoBaseline \/ time <= previous.at \/ sample.total < previous.total
  THEN NotComputable
  ELSE [over |-> time - previous.at, change |-> sample.total - previous.total,
        acks |-> sample.acked - previous.acked, reset |-> sample.restarted # previous.restarted]

\* RateTracker.update: every scrape that is parsed becomes the baseline; a queue it lacks has
\* none.
\* Mutant: only the first becomes the baseline.
BaselineOnce(sample) ==
  IF ~sample.listed THEN NoBaseline
  ELSE IF previous # NoBaseline THEN previous
  ELSE [at |-> time, total |-> sample.total, acked |-> sample.acked, restarted |-> sample.restarted]
Baseline(sample) ==
  IF ~sample.listed THEN NoBaseline
  ELSE [at |-> time, total |-> sample.total, acked |-> sample.acked, restarted |-> sample.restarted]

\* Composed earlier.
Older(sample, than) ==
  sample.acked < than.acked \/ (than.restarted /\ ~sample.restarted)

UpdateRates(sample) ==
  /\ previous' = Baseline(sample)
  /\ rate' = IF sample.listed THEN RateOf(sample) ELSE NotComputable
  /\ ratedAcks' = ratedAcks + rate'.change
  /\ first' = IF sample.listed /\ first = -1 THEN sample.acked ELSE first
  /\ overtaken' = (overtaken \/ (sample.listed /\ Older(sample, newest)))
  /\ newest' = IF sample.listed /\ ~Older(sample, newest)
               THEN [acked |-> sample.acked, restarted |-> sample.restarted] ELSE newest

\* The answer is handled.
ScrapeHandled(s) ==
  /\ scrapes[s].stage = "answered"
  /\ UpdateRates(scrapes[s])
  /\ scrapes' = [scrapes EXCEPT ![s] = Scraped]
  /\ UNCHANGED <<brokerVars, kept>>

\* The rest of the reading is collected; the loop keeps its own, unless that failed.
CollectionEnds(s) ==
  /\ scrapes[s].stage = "scraped"
  /\ scrapes' = [scrapes EXCEPT ![s] = NotScraped]
  /\ kept' \in {kept, kept \/ s = LoopScrape}
  /\ UNCHANGED <<brokerVars, trackerVars>>

RateNext ==
  \/ PassTime \/ QueueAcks \/ BrokerRestarts
  \/ \E s \in Scrapers : \/ SendScrape(s) \/ ScrapeAnswered(s) \/ ScrapeFails(s)
                         \/ ScrapeHandled(s) \/ CollectionEnds(s)
-----------------------------------------------------------------------------
(* Properties *)

RateTypeOK ==
  /\ time \in 0..MaxRateTime /\ acked \in 0..MaxAcks /\ total \in 0..acked
  /\ {restarted, kept, overtaken} \subseteq BOOLEAN
  /\ previous.at \in -1..time /\ previous.total \in 0..previous.acked
  /\ ratedAcks \in Nat /\ first \in -1..acked

\* A rate is never negative, and "a computed 0.0 means the counter really did not move": no ack
\* fell between the two scrapes, unless the broker restarted between them and counted up to the
\* same total again.  And no ack is counted in two rates, unless a scrape was handled after one
\* that was composed later: then the older one becomes the baseline and the next rate counts
\* again what the newer one had counted (RateTracker.update, GET /api/metrics beside the loop).
RatesCountOnce ==
  /\ rate.over > 0 => rate.change >= 0 /\ (rate.change = 0 /\ ~rate.reset => rate.acks = 0)
  /\ (~overtaken /\ first # -1) => ratedAcks <= acked - first
=============================================================================
