-------------------------- MODULE DetectorProofs --------------------------
(***************************************************************************)
(* The theorems about Detector: every invariant the run queues checks      *)
(* holds for all limits, cadences and bounds.  The module proves the       *)
(* invariants of the rates (RateTracker), the job readings (JobReading)    *)
(* and the gauges (GraphGauges), takes those of the rules, the page's      *)
(* window and the other events from EventDetectorProofs, and composes      *)
(* them.                                                                   *)
(***************************************************************************)
EXTENDS Detector, EventDetectorProofs

(* The rates of a queue *)

\* What a scrape under way holds, a baseline, the rates shown, and the newest acks handled.
Attempts == [stage : {"none", "sent", "answered", "scraped"}, total : Nat, acked : Nat,
           listed : BOOLEAN, restarted : BOOLEAN]
Baselines == [at : Int, total : Nat, acked : Nat, restarted : BOOLEAN]
Rates  == [over : Int, change : Nat, acks : Int, reset : BOOLEAN]
Newest == [acked : Nat, restarted : BOOLEAN]

\* The types of the broker and of the tracker, and nothing counted ahead of the broker.
RateTypes ==
  /\ time \in 0..MaxRateTime /\ acked \in 0..MaxAcks /\ total \in 0..acked
  /\ restarted \in BOOLEAN /\ kept \in BOOLEAN /\ overtaken \in BOOLEAN
  /\ scrapes \in [Scrapers -> Attempts]
  /\ previous \in Baselines /\ previous.at >= -1 /\ previous.at <= time
  /\ rate \in Rates
  /\ ratedAcks \in Nat /\ first \in Int /\ first >= -1 /\ first <= acked
  /\ newest \in Newest /\ newest.acked <= acked

\* What a scrape or a baseline counted: the broker counts the acks again from a restart, and
\* since is what had been acked by then.
Composed(x, since) ==
  /\ x.acked <= acked
  /\ x.restarted => restarted /\ x.total = x.acked - since
  /\ ~x.restarted => x.total = x.acked

\* The queue, the answers under way and the baseline all count from the same restart.
CountsFrom(since) ==
  /\ restarted => total = acked - since
  /\ ~restarted => total = acked
  /\ \A s \in Scrapers : scrapes[s].stage = "answered" => Composed(scrapes[s], since)
  /\ Composed(previous, since)
Counts == \E since \in Nat : CountsFrom(since)

\* Without a change of the count, or a reset, no rate is shown.
RateHonest == rate.change = 0 /\ ~rate.reset => rate.acks = 0

\* What the rates have counted is what was acked between the first scrape handled and the
\* newest, and without a first one nothing is kept.
CountedOnce ==
  /\ first = -1 => previous = NoBaseline /\ ratedAcks = 0 /\ newest.acked = 0 /\ ~newest.restarted
  /\ ~overtaken =>
       /\ previous # NoBaseline =>
            previous.acked = newest.acked /\ previous.restarted = newest.restarted
       /\ first # -1 => ratedAcks <= newest.acked - first

\* The inductive invariant of the rates: RatesCountOnce compares the rates with acks that only
\* the broker knows, which a restart hides from the tracker.
RateInv == RateTypes /\ Counts /\ RateHonest /\ CountedOnce

\* The first state satisfies the invariant of the rates.
LEMMA RateInvInit == RateInit => RateInv
<1> SUFFICES ASSUME RateInit PROVE RateInv
  OBVIOUS
<1>1. /\ NotScraped \in Attempts /\ NotScraped.stage = "none"
      /\ NoBaseline \in Baselines /\ NoBaseline.at = -1 /\ NoBaseline.total = 0
      /\ NoBaseline.acked = 0 /\ NoBaseline.restarted = FALSE
      /\ NotComputable \in Rates
      /\ NotComputable.acks = 0
  BY DEF NotScraped, NoBaseline, NotComputable, Attempts, Baselines, Rates
<1>2. RateTypes
  <2>1. /\ newest \in Newest /\ newest.acked = 0 /\ scrapes \in [Scrapers -> Attempts]
        /\ previous = NoBaseline /\ rate = NotComputable
    BY <1>1 DEF RateInit, Newest
  <2>2. 0 \in 0..MaxRateTime /\ 0 \in 0..MaxAcks /\ 0 \in 0..0
    BY RateAssumption
  <2>3. /\ time = 0 /\ acked = 0 /\ total = 0 /\ ratedAcks = 0 /\ first = -1
        /\ restarted \in BOOLEAN /\ kept \in BOOLEAN /\ overtaken \in BOOLEAN
    BY DEF RateInit
  <2>4. QED BY <1>1, <2>1, <2>2, <2>3 DEF RateTypes
<1>3. CountsFrom(0)
  BY <1>1 DEF RateInit, CountsFrom, Composed
<1>4. RateHonest /\ CountedOnce
  BY <1>1 DEF RateInit, RateHonest, CountedOnce
<1>5. QED BY <1>2, <1>3, <1>4 DEF RateInv, Counts

\* What the types say of the fields of a scrape, a baseline and the rates.
LEMMA RateFields ==
  ASSUME RateTypes
  PROVE  /\ time \in Nat /\ acked \in Nat /\ total \in Nat /\ total <= acked /\ first \in Int
         /\ \A s \in Scrapers : /\ scrapes[s] \in Attempts /\ scrapes[s].total \in Nat
                                /\ scrapes[s].acked \in Nat /\ scrapes[s].listed \in BOOLEAN
                                /\ scrapes[s].restarted \in BOOLEAN
         /\ previous.at \in Int /\ previous.total \in Nat /\ previous.acked \in Nat
         /\ previous.restarted \in BOOLEAN /\ previous \in Baselines
         /\ newest.acked \in Nat /\ newest.restarted \in BOOLEAN
         /\ rate.change \in Nat
         /\ NoBaseline \in Baselines /\ NoBaseline.at = -1 /\ NoBaseline.total = 0
         /\ NoBaseline.acked = 0 /\ NoBaseline.restarted = FALSE
         /\ NotScraped \in Attempts /\ Scraped \in Attempts /\ Scraped.stage = "scraped"
         /\ NotScraped.stage = "none"
<1>1. \A x \in Attempts : /\ x.total \in Nat /\ x.acked \in Nat /\ x.listed \in BOOLEAN
                        /\ x.restarted \in BOOLEAN
  BY DEF Attempts
<1>2. \A x \in Baselines : /\ x.at \in Int /\ x.total \in Nat /\ x.acked \in Nat
                           /\ x.restarted \in BOOLEAN
  BY DEF Baselines
<1>7. Scraped \in Attempts /\ Scraped.stage = "scraped"
  BY DEF NotScraped, Scraped, Attempts
<1>3. /\ NotScraped \in Attempts
      /\ NotScraped.stage = "none" /\ NoBaseline \in Baselines
      /\ NoBaseline.at = -1 /\ NoBaseline.total = 0
      /\ NoBaseline.acked = 0 /\ NoBaseline.restarted = FALSE
  BY DEF NotScraped, NoBaseline, Attempts, Baselines
<1>4. time \in Nat /\ acked \in Nat /\ total \in Nat /\ total <= acked /\ first \in Int
  BY RateAssumption DEF RateTypes
<1>5. newest.acked \in Nat /\ newest.restarted \in BOOLEAN /\ rate.change \in Nat
  BY DEF RateTypes, Newest, Rates
<1>6. QED BY <1>1, <1>2, <1>3, <1>4, <1>5, <1>7 DEF RateTypes

\* Only scrapes and kept change, and every answered scrape is an answer of before, or composed now.

\* A scrape that is sent, answered with the counts of the moment, or ended keeps the invariant.
LEMMA ScrapesKeep ==
  ASSUME RateInv, NEW s \in Scrapers, NEW x \in Attempts, scrapes' = [scrapes EXCEPT ![s] = x],
         x.stage = "answered" => x.total = total /\ x.acked = acked /\ x.restarted = restarted,
         UNCHANGED <<brokerVars, trackerVars>>, kept' \in BOOLEAN
  PROVE  RateInv'
<1> USE DEF RateInv, brokerVars, trackerVars
<1>1. scrapes' \in [Scrapers -> Attempts] /\ scrapes'[s] = x
      /\ \A d \in Scrapers : d # s => scrapes'[d] = scrapes[d]
  BY DEF RateTypes
<1>2. RateTypes'
  BY <1>1 DEF RateTypes
<1>3. PICK since \in Nat : CountsFrom(since)
  BY DEF Counts
<1>4. x.stage = "answered" => Composed(x, since)
  BY <1>3, RateFields DEF CountsFrom, Composed
<1>5. CountsFrom(since)'
  BY <1>1, <1>3, <1>4 DEF CountsFrom, Composed
<1>6. RateHonest' /\ CountedOnce'
  BY DEF RateHonest, CountedOnce, NoBaseline
<1>7. QED BY <1>2, <1>5, <1>6 DEF Counts

\* What the broker does by itself keeps the invariant.
LEMMA BrokerKeeps ==
  ASSUME RateInv, PassTime \/ QueueAcks \/ BrokerRestarts PROVE RateInv'
<1> USE DEF RateInv, trackerVars
<1>1. /\ UNCHANGED <<kept, scrapes, trackerVars>>
      /\ time' >= time /\ acked' >= acked /\ time' \in 0..MaxRateTime /\ acked' \in 0..MaxAcks
      /\ total' \in 0..acked' /\ restarted' \in BOOLEAN /\ time' \in Int /\ acked' \in Nat
  <2>1. time \in Nat /\ acked \in Nat /\ total \in Nat /\ total <= acked
        /\ MaxRateTime \in Nat /\ MaxAcks \in Nat
    BY RateFields, RateAssumption
  <2>2. CASE PassTime
    BY <2>1, <2>2 DEF RateTypes, PassTime
  <2>3. CASE QueueAcks
    BY <2>1, <2>3 DEF RateTypes, QueueAcks
  <2>4. CASE BrokerRestarts
    BY <2>1, <2>4 DEF RateTypes, BrokerRestarts
  <2>5. QED BY <2>2, <2>3, <2>4
<1>2. RateTypes'
  <2>1. /\ acked \in Nat /\ time \in Nat /\ newest.acked \in Nat /\ previous.at \in Int
    BY RateFields
  <2>2. QED BY <1>1, <2>1 DEF RateTypes
<1>3. RateHonest' /\ CountedOnce'
  BY <1>1 DEF RateHonest, CountedOnce, NoBaseline
<1>4. PICK since \in Nat : CountsFrom(since)
  BY DEF Counts
<1>5. CASE PassTime
  <2>1. CountsFrom(since)'
    BY <1>4, <1>5 DEF PassTime, CountsFrom, Composed
  <2>2. QED BY <1>2, <1>3, <2>1 DEF Counts
<1>6. CASE QueueAcks
  <2>1. CountsFrom(since)'
    BY <1>4, <1>6, RateFields DEF QueueAcks, CountsFrom, Composed
  <2>2. QED BY <1>2, <1>3, <2>1 DEF Counts
<1>7. CASE BrokerRestarts
  <2>1. PICK n \in Nat : n = acked
    BY RateFields
  <2>2. CountsFrom(n)'
    BY <1>4, <1>7, <2>1, RateFields DEF BrokerRestarts, CountsFrom, Composed
  <2>3. QED BY <1>2, <1>3, <2>2 DEF Counts
<1>8. QED BY <1>5, <1>6, <1>7

\* An answer handled, in whatever order, keeps the invariant: a smaller count is taken for a
\* restart, and the baseline moves on (RateTracker.queue_rates, get_queue_info).
LEMMA HandledKeeps ==
  ASSUME RateInv, NEW s \in Scrapers, ScrapeHandled(s) PROVE RateInv'
<1> USE DEF RateInv, brokerVars
<1> DEFINE x == scrapes[s]
<1>1. /\ scrapes' = [scrapes EXCEPT ![s] = Scraped] /\ x.stage = "answered" /\ UpdateRates(x)
      /\ UNCHANGED <<time, acked, total, restarted, kept>>
  BY DEF ScrapeHandled
<1>2. PICK since \in Nat : CountsFrom(since)
  BY DEF Counts
<1>3. /\ x \in Attempts /\ Composed(x, since) /\ Composed(previous, since)
      /\ x.total \in Nat /\ x.acked \in Nat /\ x.restarted \in BOOLEAN /\ x.listed \in BOOLEAN
  BY <1>1, <1>2, RateFields DEF CountsFrom
<1> HIDE DEF x
<1>4. /\ scrapes' \in [Scrapers -> Attempts]
      /\ \A d \in Scrapers : scrapes'[d].stage = "answered" => scrapes'[d] = scrapes[d]
  BY <1>1, RateFields DEF RateTypes
<1>5. /\ previous' \in Baselines /\ previous'.at >= -1 /\ previous'.at <= time
      /\ ~x.listed => previous' = NoBaseline
      /\ x.listed => /\ previous'.acked = x.acked /\ previous'.total = x.total
                     /\ previous'.restarted = x.restarted
  <2>1. CASE ~x.listed
    BY <2>1, <1>1, RateFields DEF UpdateRates, Baseline
  <2>2. CASE x.listed
    BY <2>2, <1>1, <1>3, RateFields DEF UpdateRates, Baseline, Baselines
  <2>3. QED BY <2>1, <2>2, <1>3
<1>6. Composed(previous', since)
  <2>1. CASE ~x.listed
    <3>1. /\ previous'.acked = 0 /\ previous'.total = 0 /\ previous'.restarted = FALSE
          /\ acked \in Nat
      BY <1>5, <2>1, RateFields
    <3>2. QED BY <3>1 DEF Composed
  <2>2. CASE x.listed
    BY <1>3, <1>5, <2>2 DEF Composed
  <2>3. QED BY <2>1, <2>2, <1>3
<1>7. CountsFrom(since)'
  BY <1>1, <1>2, <1>4, <1>6 DEF CountsFrom, Composed
<1>8. /\ rate' \in Rates /\ (rate'.change = 0 /\ ~rate'.reset => rate'.acks = 0)
      /\ rate'.change = 0 \/ /\ x.listed /\ previous # NoBaseline
                             /\ rate'.change = x.total - previous.total
  <2>1. NotComputable \in Rates /\ NotComputable.change = 0 /\ NotComputable.acks = 0
    BY DEF NotComputable, Rates
  <2>2. CASE x.listed /\ ~(previous = NoBaseline \/ time <= previous.at \/ x.total < previous.total)
    <3> DEFINE r == [over |-> time - previous.at, change |-> x.total - previous.total,
                     acks |-> x.acked - previous.acked,
                     reset |-> x.restarted # previous.restarted]
    <3>1. rate' = r
      BY <1>1, <2>2 DEF UpdateRates, RateOf
    <3>2. /\ time - previous.at \in Int /\ x.total - previous.total \in Nat
          /\ x.acked - previous.acked \in Int /\ (x.restarted # previous.restarted) \in BOOLEAN
      BY <1>3, <2>2, RateFields
    <3>3. r \in Rates
      BY <3>2 DEF Rates
    <3>4. (x.total - previous.total = 0 /\ x.restarted = previous.restarted)
             => x.acked - previous.acked = 0
      BY <1>3, RateFields DEF Composed
    <3>5. QED BY <2>2, <3>1, <3>3, <3>4
  <2>3. CASE ~(/\ x.listed
               /\ ~(previous = NoBaseline \/ time <= previous.at \/ x.total < previous.total))
    BY <1>1, <2>1, <2>3 DEF UpdateRates, RateOf
  <2>4. QED BY <2>2, <2>3
<1>9. /\ ratedAcks' = ratedAcks + rate'.change /\ rate'.change \in Nat /\ ratedAcks' \in Nat
      /\ ratedAcks \in Nat
  BY <1>1, <1>8 DEF UpdateRates, RateTypes, Rates
<1>10. /\ x.listed /\ first = -1 => first' = x.acked
       /\ ~(x.listed /\ first = -1) => first' = first
       /\ first' \in Int /\ first' >= -1 /\ first' <= acked
  BY <1>1, <1>3 DEF UpdateRates, RateTypes, Composed
<1>11. /\ newest' \in Newest /\ newest'.acked <= acked
       /\ (x.listed /\ ~Older(x, newest)) => newest'.acked = x.acked
                                             /\ newest'.restarted = x.restarted
       /\ ~(x.listed /\ ~Older(x, newest)) => newest' = newest
  <2>1. CASE x.listed /\ ~Older(x, newest)
    BY <1>1, <1>3, <2>1 DEF UpdateRates, Newest, Composed
  <2>2. CASE ~(x.listed /\ ~Older(x, newest))
    BY <1>1, <2>2 DEF UpdateRates, RateTypes
  <2>3. QED BY <2>1, <2>2
<1>12. /\ overtaken' \in BOOLEAN
       /\ ~overtaken' => ~overtaken /\ (x.listed => ~Older(x, newest))
  BY <1>1 DEF UpdateRates, RateTypes
<1>13. RateTypes'
  BY <1>1, <1>4, <1>5, <1>8, <1>9, <1>10, <1>11, <1>12 DEF RateTypes
<1>14. RateHonest'
  BY <1>8 DEF RateHonest
<1>15. first' = -1 => /\ previous' = NoBaseline /\ ratedAcks' = 0 /\ newest'.acked = 0
                      /\ ~newest'.restarted
  <2> SUFFICES ASSUME first' = -1 PROVE /\ previous' = NoBaseline /\ ratedAcks' = 0
                                        /\ newest'.acked = 0 /\ ~newest'.restarted
    OBVIOUS
  <2>1. ~x.listed /\ first = -1
    BY <1>3, <1>10
  <2>2. previous = NoBaseline /\ ratedAcks = 0 /\ newest.acked = 0 /\ ~newest.restarted
    BY <2>1 DEF CountedOnce
  <2>3. newest' = newest /\ previous' = NoBaseline
    BY <2>1, <1>5, <1>11
  <2>4. rate'.change = 0
    BY <2>1, <1>8
  <2>5. ratedAcks' = 0
    BY <2>2, <2>4, <1>9
  <2>6. QED BY <2>2, <2>3, <2>5
<1>16. ~overtaken' =>
         /\ previous' # NoBaseline => previous'.acked = newest'.acked
                                      /\ previous'.restarted = newest'.restarted
         /\ first' # -1 => ratedAcks' <= newest'.acked - first'
  <2> SUFFICES ASSUME ~overtaken'
               PROVE  /\ previous' # NoBaseline => previous'.acked = newest'.acked
                                                   /\ previous'.restarted = newest'.restarted
                      /\ first' # -1 => ratedAcks' <= newest'.acked - first'
    OBVIOUS
  <2>1. CASE ~x.listed
    BY <1>5, <1>8, <1>9, <1>10, <1>11, <1>12, <2>1 DEF CountedOnce
  <2>2. CASE x.listed /\ first = -1
    <3>1. ratedAcks' = 0 /\ first' = x.acked /\ newest'.acked = x.acked
      BY <1>8, <1>9, <1>10, <1>11, <1>12, <2>2 DEF CountedOnce
    <3>2. QED BY <1>3, <1>5, <1>11, <1>12, <2>2, <3>1
  <2>3. CASE x.listed /\ first # -1
    <3>1. ratedAcks <= newest.acked - first /\ first' = first
          /\ x.acked >= newest.acked /\ (newest.restarted => x.restarted)
      BY <1>3, <1>10, <1>12, <2>3, RateFields DEF CountedOnce, Older
    <3>2. rate'.change <= x.acked - newest.acked
      <4>1. CASE rate'.change = 0
        BY <3>1, <4>1, <1>3, RateFields
      <4>2. CASE previous # NoBaseline /\ rate'.change = x.total - previous.total
        <5>1. previous.acked = newest.acked /\ previous.restarted = newest.restarted
          BY <4>2, <1>12 DEF CountedOnce
        <5>2. QED BY <4>2, <5>1, <3>1, <1>3, RateFields DEF Composed
      <4>3. QED BY <4>1, <4>2, <1>8
    <3>3. QED BY <3>1, <3>2, <1>3, <1>5, <1>9, <1>11, <1>12, <2>3, RateFields
  <2>4. QED BY <2>1, <2>2, <2>3, <1>3
<1>17. CountedOnce'
  BY <1>15, <1>16 DEF CountedOnce, NoBaseline
<1>18. QED BY <1>7, <1>13, <1>14, <1>17 DEF Counts

\* Every step of the rates keeps their invariant.
LEMMA RateInvStep == RateInv /\ [RateNext]_rateVars => RateInv'
<1> SUFFICES ASSUME RateInv, [RateNext]_rateVars PROVE RateInv'
  OBVIOUS
<1>1. RateTypes
  BY DEF RateInv
<1>2. CASE PassTime \/ QueueAcks \/ BrokerRestarts
  BY <1>2, BrokerKeeps
<1>3. ASSUME NEW s \in Scrapers, SendScrape(s) PROVE RateInv'
  <2> DEFINE x == [scrapes[s] EXCEPT !.stage = "sent"]
  <2>1. x \in Attempts /\ x.stage = "sent" /\ kept' \in BOOLEAN
    BY <1>1, <1>3, RateFields DEF SendScrape, Attempts, RateTypes
  <2>2. scrapes' = [scrapes EXCEPT ![s] = x] /\ UNCHANGED <<brokerVars, trackerVars>>
    BY <1>3 DEF SendScrape
  <2> HIDE DEF x
  <2>3. QED BY <2>1, <2>2, ScrapesKeep
<1>4. ASSUME NEW s \in Scrapers, ScrapeAnswered(s) PROVE RateInv'
  <2>1. PICK listed \in BOOLEAN :
          scrapes' = [scrapes EXCEPT ![s] = [stage |-> "answered", total |-> total,
                        acked |-> acked, listed |-> listed, restarted |-> restarted]]
    BY <1>4 DEF ScrapeAnswered
  <2> DEFINE x == [stage |-> "answered", total |-> total, acked |-> acked,
                   listed |-> listed, restarted |-> restarted]
  <2>2. /\ x \in Attempts /\ x.total = total /\ x.acked = acked /\ x.restarted = restarted
        /\ scrapes' = [scrapes EXCEPT ![s] = x]
    BY <1>1, <2>1, RateFields DEF Attempts, RateTypes
  <2>3. kept' \in BOOLEAN /\ UNCHANGED <<brokerVars, trackerVars>>
    BY <1>1, <1>4 DEF ScrapeAnswered, RateTypes
  <2> HIDE DEF x
  <2>4. QED BY <2>2, <2>3, ScrapesKeep
<1>5. ASSUME NEW s \in Scrapers, ScrapeFails(s) \/ CollectionEnds(s) PROVE RateInv'
  <2>1. \E x \in {Scraped, NotScraped} : scrapes' = [scrapes EXCEPT ![s] = x]
    BY <1>5 DEF ScrapeFails, CollectionEnds
  <2>2. kept' \in BOOLEAN /\ UNCHANGED <<brokerVars, trackerVars>>
    BY <1>1, <1>5 DEF ScrapeFails, CollectionEnds, RateTypes
  <2>3. QED BY <1>1, <2>1, <2>2, ScrapesKeep, RateFields
<1>6. ASSUME NEW s \in Scrapers, ScrapeHandled(s) PROVE RateInv'
  BY <1>6, HandledKeeps
<1>7. CASE UNCHANGED rateVars
  <2> USE <1>7 DEF RateInv, rateVars, brokerVars, trackerVars
  <2>1. PICK since \in Nat : CountsFrom(since)
    BY DEF Counts
  <2>2. CountsFrom(since)'
    BY <2>1 DEF CountsFrom, Composed
  <2>3. RateTypes' /\ RateHonest' /\ CountedOnce'
    BY DEF RateTypes, RateHonest, CountedOnce, NoBaseline
  <2>4. QED BY <2>2, <2>3 DEF Counts
<1>8. QED BY <1>2, <1>3, <1>4, <1>5, <1>6, <1>7 DEF RateNext

\* The invariant gives the types and says that no acks are counted twice.
LEMMA RateInvSafe == RateInv => RateTypeOK /\ RatesCountOnce
<1> SUFFICES ASSUME RateInv PROVE RateTypeOK /\ RatesCountOnce
  OBVIOUS
<1> USE DEF RateInv
<1>1. previous.total \in 0..previous.acked
  <2>1. PICK since \in Nat : CountsFrom(since)
    BY DEF Counts
  <2>2. QED BY <2>1, RateFields DEF CountsFrom, Composed
<1>2. RateTypeOK
  <2>1. /\ previous.at >= -1 /\ previous.at <= time /\ first >= -1 /\ first <= acked
        /\ {restarted, kept, overtaken} \subseteq BOOLEAN /\ ratedAcks \in Nat
        /\ time \in 0..MaxRateTime /\ acked \in 0..MaxAcks /\ total \in 0..acked
    BY DEF RateTypes
  <2>2. previous.at \in -1..time /\ first \in -1..acked
    BY <2>1, RateFields
  <2>3. QED BY <1>1, <2>1, <2>2 DEF RateTypeOK
<1>3. RatesCountOnce
  <2>1. rate.over > 0 => rate.change >= 0 /\ (rate.change = 0 /\ ~rate.reset => rate.acks = 0)
    BY RateFields DEF RateHonest
  <2>2. (~overtaken /\ first # -1) => ratedAcks <= acked - first
    <3>1. newest.acked <= acked /\ ratedAcks \in Nat
      BY DEF RateTypes
    <3>2. QED BY <3>1, RateFields DEF CountedOnce
  <2>3. QED BY <2>1, <2>2 DEF RatesCountOnce
<1>4. QED BY <1>2, <1>3
-----------------------------------------------------------------------------
(* The job readings *)

\* The types of a job, of what a collection holds, of a place in the queue, and of what is shown.
Job == [load : Int, read : Int]
Work == [begun : Int, databases : BOOLEAN, row : Job, job : Job]
Tasks == [who : Collectors, reads : {"databases", "job"}]
Shown == [who : Collectors, begun : Int, job : Job]
JobTypes ==
  /\ jobClock \in 0..MaxJobTime /\ loads \in 0..MaxLoads /\ jobKept \in BOOLEAN
  /\ jobCache \in [at : Int, job : Job] /\ lock \in Seq(Tasks)
  /\ collection \in [Collectors -> Work]
  /\ jobsShown \in Seq(Shown)

\* A place in the lock's queue belongs to a collection that still lacks what it asks for.
Asks(i) ==
  /\ collection[lock[i].who].begun >= 0
  /\ lock[i].reads = "databases" => ~collection[lock[i].who].databases
  /\ lock[i].reads = "job" => /\ collection[lock[i].who].job = NotYet
                              /\ i > 1 => collection[lock[i].who].row = NotYet

\* Nobody queues twice, and everybody in the queue asks.
Queued ==
  /\ \A i, j \in 1..Len(lock) : lock[i] = lock[j] => i = j
  /\ \A i \in 1..Len(lock) : Asks(i)

\* The cached job was read at or after the time the cache is dated.
CacheDated ==
  /\ jobCache.job.load >= -2 /\ jobCache.at >= -1 /\ jobCache.at <= jobClock
  /\ jobCache # NoCache => jobCache.job.read >= jobCache.at /\ jobCache.job # NotYet

\* What a collection holds is no older than its beginning, less the life of the cache.
WorkDated(work) ==
  /\ work.begun <= jobClock /\ work.begun >= -1
  /\ work.row # NotYet => work.row.read >= work.begun
  /\ work.job # NotYet => work.job.read > work.begun - JobTime
  /\ work.job.load >= -2

\* The same of everything under way and of everything shown.
Dated ==
  /\ CacheDated /\ \A c \in Collectors : WorkDated(collection[c])
  /\ \A i \in 1..Len(jobsShown) : jobsShown[i].job.read > jobsShown[i].begun - JobTime

\* No job known to anybody is newer than l.
Covers(l) ==
  /\ jobCache.job.load <= l
  /\ \A c \in Collectors : collection[c].job.load <= l
  /\ \A i \in 1..Len(jobsShown) : jobsShown[i].job.load <= l

\* The row that the holder of the lock has read is the newest of all jobs.
HolderCovers ==
  \A c \in Collectors : (Holds(Task(c, "job")) /\ collection[c].row # NotYet) =>
    /\ collection[c].row.load >= 0 /\ collection[c].row.load <= loads
    /\ Covers(collection[c].row.load)

\* What the loop is about to show is not older than what it has shown.
LoopCovers ==
  (collection[LoopReader].job # NotYet /\ collection[LoopReader].job.load # Unreadable) =>
     \A i \in 1..Len(jobsShown) : jobsShown[i].who = LoopReader =>
       jobsShown[i].job.load <= collection[LoopReader].job.load

\* What the loop has shown never went back.
ShownInOrder ==
  \A i, j \in 1..Len(jobsShown) :
    /\ i < j /\ jobsShown[i].who = LoopReader /\ jobsShown[j].who = LoopReader
    /\ jobsShown[j].job.load # Unreadable
    => jobsShown[i].job.load <= jobsShown[j].job.load

\* The lock orders the reads: the cache, or the row of its holder, is the newest job known.
InTurn ==
  /\ Covers(loads) /\ (jobCache.job.load # Unreadable => Covers(jobCache.job.load))
  /\ HolderCovers /\ LoopCovers /\ ShownInOrder

\* The inductive invariant of the job readings: JobsAreCurrent is about what is shown, and rests
\* on what the collections under way hold and on the order in which the lock admits them.
JobInv == JobTypes /\ Queued /\ Dated /\ InTurn

\* The first state satisfies the invariant of the job readings.
LEMMA JobInvInit == JobInit => JobInv
<1> SUFFICES ASSUME JobInit PROVE JobInv
  OBVIOUS
<1> USE JobAssumption DEF JobInit, NotYet, Idle, NoCache
<1>1. /\ lock = <<>> /\ jobsShown = <<>> /\ LoopReader \in Collectors
      /\ \A c \in Collectors : collection[c] = Idle
  BY DEF Collectors
<1>2. JobTypes
  <2>1. Idle \in Work /\ NoCache \in [at : Int, job : Job]
    BY DEF Work, Job
  <2>2. 0 \in 0..MaxJobTime /\ 0 \in 0..MaxLoads
    OBVIOUS
  <2>3. collection \in [Collectors -> Work] /\ jobCache \in [at : Int, job : Job]
    BY <2>1
  <2>4. lock \in Seq(Tasks) /\ jobsShown \in Seq(Shown)
    BY <1>1
  <2>5. jobClock = 0 /\ loads = 0 /\ jobKept = FALSE
    OBVIOUS
  <2> HIDE DEF JobInit
  <2>6. QED BY <2>2, <2>3, <2>4, <2>5 DEF JobTypes
<1>3. Queued
  BY <1>1 DEF Queued
<1>4. Dated
  BY <1>1 DEF Dated, CacheDated, WorkDated
<1>5. Covers(loads) /\ Covers(jobCache.job.load)
  BY <1>1 DEF Covers
<1>6. HolderCovers /\ LoopCovers /\ ShownInOrder
  BY <1>1 DEF HolderCovers, LoopCovers, ShownInOrder, Holds
<1>7. QED BY <1>2, <1>3, <1>4, <1>5, <1>6 DEF JobInv, InTurn

\* What the types say of the fields of the cache, the collections, the lock and the readings.
LEMMA JobFields ==
  ASSUME JobTypes
  PROVE  /\ jobClock \in Nat /\ loads \in Nat /\ Len(lock) \in Nat /\ Len(jobsShown) \in Nat
         /\ jobCache.at \in Int /\ jobCache.job \in Job
         /\ jobCache.job.load \in Int /\ jobCache.job.read \in Int
         /\ \A c \in Collectors :
              /\ collection[c] \in Work /\ collection[c].begun \in Int
              /\ collection[c].databases \in BOOLEAN
              /\ collection[c].row \in Job /\ collection[c].job \in Job
              /\ collection[c].row.load \in Int /\ collection[c].row.read \in Int
              /\ collection[c].job.load \in Int /\ collection[c].job.read \in Int
         /\ \A i \in 1..Len(lock) : /\ lock[i] \in Tasks /\ lock[i].who \in Collectors
                                    /\ lock[i] = Task(lock[i].who, lock[i].reads)
         /\ \A i \in 1..Len(jobsShown) :
              /\ jobsShown[i].who \in Collectors /\ jobsShown[i].begun \in Int
              /\ jobsShown[i].job \in Job
              /\ jobsShown[i].job.load \in Int /\ jobsShown[i].job.read \in Int
         /\ LoopReader \in Collectors /\ NotYet \in Job /\ NotYet.load = -2 /\ Idle \in Work
<1> USE JobAssumption
<1>1. \A j \in Job : j.load \in Int /\ j.read \in Int
  BY DEF Job
<1>2. NotYet \in Job /\ NotYet.load = -2
  BY DEF NotYet, Job
<1>3. Idle \in Work
  BY <1>2 DEF Idle, Work
<1>4. \A w \in Work : /\ w.begun \in Int /\ w.databases \in BOOLEAN
                      /\ w.row \in Job /\ w.job \in Job
  BY DEF Work
<1>5. \A t \in Tasks : t.who \in Collectors /\ t = Task(t.who, t.reads)
  BY DEF Tasks, Task
<1>6. /\ jobClock \in Nat /\ loads \in Nat /\ Len(lock) \in Nat /\ Len(jobsShown) \in Nat
      /\ jobCache.at \in Int /\ jobCache.job \in Job
      /\ \A c \in Collectors : collection[c] \in Work
      /\ \A i \in 1..Len(lock) : lock[i] \in Tasks
  BY DEF JobTypes
<1>7. \A i \in 1..Len(jobsShown) :
         /\ jobsShown[i].who \in Collectors /\ jobsShown[i].begun \in Int
         /\ jobsShown[i].job \in Job
  <2>1. \A i \in 1..Len(jobsShown) : jobsShown[i] \in Shown
    BY DEF JobTypes
  <2>2. QED BY <2>1 DEF Shown
<1>8. LoopReader \in Collectors
  BY DEF Collectors
<1>9. QED BY <1>1, <1>2, <1>3, <1>4, <1>5, <1>6, <1>7, <1>8

\* An update of one collection leaves the others alone.
LEMMA OthersKeep ==
  ASSUME JobTypes, NEW c \in Collectors, NEW work \in Work,
         collection' = [collection EXCEPT ![c] = work]
  PROVE  /\ collection' \in [Collectors -> Work] /\ collection'[c] = work
         /\ \A d \in Collectors : d # c => collection'[d] = collection[d]
BY DEF JobTypes

\* Its holder leaves the lock to the next, and every place moves up.
LEMMA Released ==
  ASSUME JobTypes, Queued, NEW c \in Collectors, NEW r \in {"databases", "job"},
         Holds(Task(c, r)), Release(Task(c, r))
  PROVE  /\ Len(lock) >= 1 /\ lock[1] = Task(c, r) /\ Len(lock') = Len(lock) - 1
         /\ lock' \in Seq(Tasks) /\ \A i \in 1..Len(lock') : lock'[i] = lock[i + 1]
         /\ \A i \in 1..Len(lock') : lock'[i] # Task(c, r)
<1>1. Len(lock) \in Nat /\ Len(lock) >= 1 /\ lock[1] = Task(c, r) /\ lock \in Seq(Tasks)
  BY DEF Holds, JobTypes
<1>2. /\ Len(lock') = Len(lock) - 1 /\ lock' \in Seq(Tasks)
      /\ \A i \in 1..Len(lock') : lock'[i] = lock[i + 1]
  <2>1. PICK i \in DOMAIN lock :
          /\ lock[i] = Task(c, r)
          /\ lock' = [j \in 1..Len(lock) - 1 |-> lock[IF j < i THEN j ELSE j + 1]]
    BY DEF Release
  <2>2. DOMAIN lock = 1..Len(lock)
    BY <1>1
  <2>3. i = 1
    BY <1>1, <2>1, <2>2 DEF Queued
  <2>4. lock' = [j \in 1..Len(lock) - 1 |-> lock[j + 1]]
    BY <1>1, <2>1, <2>3
  <2>5. \A j \in 1..Len(lock) - 1 : lock[j + 1] \in Tasks
    BY <1>1
  <2>6. QED BY <1>1, <2>4, <2>5
<1>3. ASSUME NEW i \in 1..Len(lock') PROVE lock'[i] # Task(c, r)
  <2>1. i + 1 \in 1..Len(lock) /\ 1 \in 1..Len(lock) /\ i + 1 # 1
    BY <1>1, <1>2
  <2>2. QED BY <2>1, <1>1, <1>2 DEF Queued
<1>4. QED BY <1>1, <1>2, <1>3

\* Time and the recording of a job keep the invariant.
LEMMA TimeAndLoads ==
  ASSUME JobInv, JobTimePasses \/ LoadRecorded PROVE JobInv'
<1> USE DEF JobInv
<1>1. /\ UNCHANGED <<jobKept, jobCache, lock, collection, jobsShown>>
      /\ jobClock' \in 0..MaxJobTime /\ loads' \in 0..MaxLoads
      /\ jobClock' >= jobClock /\ loads' >= loads /\ jobClock' \in Int /\ loads' \in Int
      /\ jobClock \in Int /\ loads \in Int
  BY JobAssumption DEF JobTypes, JobTimePasses, LoadRecorded
<1>2. JobTypes'
  BY <1>1 DEF JobTypes
<1>3. Queued'
  BY <1>1 DEF Queued, Asks
<1>4. CacheDated'
  BY <1>1, JobFields DEF Dated, CacheDated
<1>5. ASSUME NEW c \in Collectors PROVE WorkDated(collection[c])'
  BY <1>1, JobFields DEF Dated, WorkDated
<1>6. Dated'
  BY <1>1, <1>4, <1>5 DEF Dated
<1>7. \A l \in Int : Covers(l) => Covers(l)'
  BY <1>1 DEF Covers
<1>8. Covers(loads)'
  <2>1. Covers(loads)
    BY DEF InTurn
  <2>2. /\ jobCache.job.load \in Int
        /\ \A c \in Collectors : collection[c].job.load \in Int
        /\ \A i \in 1..Len(jobsShown) : jobsShown[i].job.load \in Int
    BY JobFields
  <2>3. QED BY <1>1, <2>1, <2>2 DEF Covers
<1>9. HolderCovers'
  <2> SUFFICES ASSUME NEW c \in Collectors, Holds(Task(c, "job")), collection[c].row # NotYet
               PROVE  /\ collection[c].row.load >= 0 /\ collection[c].row.load <= loads'
                      /\ Covers(collection[c].row.load)'
    BY <1>1 DEF HolderCovers, Holds
  <2>1. collection[c].row.load \in Int /\ collection[c].row.load >= 0
        /\ collection[c].row.load <= loads /\ Covers(collection[c].row.load)
    BY JobFields DEF HolderCovers, InTurn
  <2>2. QED BY <1>1, <1>7, <2>1 DEF Covers
<1>10. InTurn'
  BY <1>1, <1>7, <1>8, <1>9, JobFields DEF InTurn, LoopCovers, ShownInOrder
<1>11. QED BY <1>2, <1>3, <1>6, <1>10

\* A collection that begins, and queues, keeps the invariant.
LEMMA BeginReadingKeeps ==
  ASSUME JobInv, NEW c \in Collectors, BeginReading(c) PROVE JobInv'
<1> USE DEF JobInv
<1> DEFINE job  == IF CacheServes THEN jobCache.job ELSE NotYet
           work == [Idle EXCEPT !.begun = jobClock, !.job = job]
<1>1. /\ collection[c] = Idle /\ collection' = [collection EXCEPT ![c] = work]
      /\ UNCHANGED <<jobClock, loads, jobKept, jobCache, jobsShown>>
      /\ lock' = (lock \o <<Task(c, "databases")>>)
                   \o (IF CacheServes THEN <<>> ELSE <<Task(c, "job")>>)
  BY DEF BeginReading
<1>2. /\ job \in Job /\ job.load \in Int /\ jobClock \in Nat /\ jobClock \in Int
      /\ NotYet \in Job /\ NotYet.load = -2 /\ Len(lock) \in Nat
      /\ Idle.job = NotYet /\ Idle.begun = -1
  BY JobFields DEF Idle
<1>3. /\ job # NotYet => job.read > jobClock - JobTime
      /\ job.load >= -2
      /\ job = NotYet \/ (job = jobCache.job /\ CacheServes)
  <2>1. NotYet.load >= -2
    BY <1>2
  <2>2. CASE CacheServes
    <3>1. /\ jobCache.job.load >= -2 /\ jobClock - jobCache.at < JobTime
          /\ jobCache.job.read >= jobCache.at
          /\ jobCache.job.read \in Int /\ jobCache.at \in Int /\ JobTime \in Int
      BY <2>2, JobFields, JobAssumption DEF CacheServes, Dated, CacheDated
    <3>2. job = jobCache.job
      BY <2>2
    <3>3. QED BY <1>2, <2>2, <3>1, <3>2
  <2>3. CASE ~CacheServes
    BY <2>1, <2>3
  <2>4. QED BY <2>2, <2>3
<1>4. CacheServes \/ job = NotYet
  OBVIOUS
<1> HIDE DEF job
<1>5. /\ work \in Work /\ work.begun = jobClock /\ work.databases = FALSE
      /\ work.row = NotYet /\ work.job = job
  BY <1>2 DEF Work, Idle
<1> HIDE DEF work
<1>6. /\ collection' \in [Collectors -> Work] /\ collection'[c] = work
      /\ \A d \in Collectors : d # c => collection'[d] = collection[d]
  BY <1>1, <1>5, OthersKeep
<1>7. Task(c, "databases") \in Tasks /\ Task(c, "job") \in Tasks
      /\ Task(c, "databases") # Task(c, "job")
  BY DEF Task, Tasks
<1>8. /\ lock' \in Seq(Tasks) /\ Len(lock') >= Len(lock) + 1 /\ Len(lock') \in Nat
      /\ \A i \in 1..Len(lock) : lock'[i] = lock[i]
      /\ lock'[Len(lock) + 1] = Task(c, "databases")
      /\ \A i \in 1..Len(lock') : i > Len(lock) + 1 =>
           i = Len(lock) + 2 /\ lock'[i] = Task(c, "job") /\ job = NotYet
  <2>1. lock \in Seq(Tasks)
    BY DEF JobTypes
  <2>2. CASE CacheServes
    BY <1>1, <1>7, <2>1, <2>2
  <2>3. CASE ~CacheServes
    BY <1>1, <1>4, <1>7, <2>1, <2>3
  <2>4. QED BY <2>2, <2>3
<1>9. JobTypes'
  BY <1>1, <1>6, <1>8 DEF JobTypes
<1>10. \A i \in 1..Len(lock) : lock[i].who # c
  <2>1. \A i \in 1..Len(lock) : collection[lock[i].who].begun >= 0
    BY DEF Queued, Asks
  <2>2. QED BY <1>1, <1>2, <2>1
<1>11. \A i \in 1..Len(lock') : i \in 1..Len(lock) \/ i = Len(lock) + 1 \/ i = Len(lock) + 2
  BY <1>2, <1>8
<1>12. ASSUME NEW i \in 1..Len(lock'), NEW j \in 1..Len(lock'), lock'[i] = lock'[j]
       PROVE  i = j
  <2>1. \A k \in 1..Len(lock') : lock'[k].who = c <=> k \notin 1..Len(lock)
    BY <1>2, <1>8, <1>10, <1>11 DEF Task
  <2>2. CASE i \in 1..Len(lock)
    BY <1>8, <1>12, <2>1, <2>2 DEF Queued
  <2>3. CASE i \notin 1..Len(lock)
    BY <1>2, <1>7, <1>8, <1>11, <1>12, <2>1, <2>3
  <2>4. QED BY <2>2, <2>3
<1>13. ASSUME NEW i \in 1..Len(lock') PROVE Asks(i)'
  <2>1. CASE i \in 1..Len(lock)
    <3>1. lock[i].who \in Collectors
      BY <2>1, JobFields
    <3>2. lock'[i] = lock[i] /\ collection'[lock[i].who] = collection[lock[i].who] /\ Asks(i)
      BY <1>6, <1>8, <1>10, <2>1, <3>1 DEF Queued
    <3>3. QED BY <3>2 DEF Asks
  <2>2. CASE i = Len(lock) + 1
    BY <1>2, <1>5, <1>6, <1>8, <2>2 DEF Asks, Task
  <2>3. CASE i = Len(lock) + 2
    <3>1. lock'[i] = Task(c, "job") /\ job = NotYet
      BY <1>2, <1>8, <2>3
    <3>2. QED BY <1>2, <1>5, <1>6, <2>3, <3>1 DEF Asks, Task
  <2>4. QED BY <1>11, <2>1, <2>2, <2>3
<1>14. Queued'
  BY <1>12, <1>13 DEF Queued
<1>15. ASSUME NEW d \in Collectors PROVE WorkDated(collection[d])'
  <2>1. CASE d # c
    <3>1. collection'[d] = collection[d] /\ WorkDated(collection[d])
      BY <1>6, <2>1 DEF Dated
    <3>2. QED BY <1>1, <3>1 DEF WorkDated
  <2>2. CASE d = c
    BY <1>1, <1>2, <1>3, <1>5, <1>6, <2>2 DEF WorkDated
  <2>3. QED BY <2>1, <2>2
<1>16. Dated'
  BY <1>1, <1>15 DEF Dated, CacheDated
<1>17. ASSUME NEW l \in Int, Covers(l) PROVE Covers(l)'
  <2>1. collection'[c].job.load <= l
    BY <1>1, <1>2, <1>3, <1>5, <1>6, <1>17 DEF Covers
  <2>2. QED BY <1>1, <1>6, <1>17, <2>1 DEF Covers
<1>18. HolderCovers'
  <2> SUFFICES ASSUME NEW d \in Collectors, Holds(Task(d, "job"))', collection'[d].row # NotYet
               PROVE  /\ collection'[d].row.load >= 0 /\ collection'[d].row.load <= loads'
                      /\ Covers(collection[d].row.load)'
    BY DEF HolderCovers
  <2>1. d # c /\ collection'[d] = collection[d]
    BY <1>5, <1>6
  <2>2. Holds(Task(d, "job"))
    <3>1. lock'[1] = Task(d, "job") /\ 1 \in 1..Len(lock')
      BY <1>2, <1>8 DEF Holds
    <3>2. Task(d, "job").who = d /\ Task(c, "databases").who = c
      BY DEF Task
    <3>3. Len(lock) > 0
      BY <1>2, <1>8, <2>1, <3>1, <3>2
    <3>4. QED BY <1>2, <1>8, <3>1, <3>3 DEF Holds, JobTypes
  <2>3. /\ collection[d].row.load \in Int /\ collection[d].row.load >= 0
        /\ collection[d].row.load <= loads /\ Covers(collection[d].row.load)
    BY <2>1, <2>2, JobFields DEF HolderCovers, InTurn
  <2>4. Covers(collection[d].row.load)'
    BY <1>17, <2>1, <2>3 DEF Covers
  <2>5. QED BY <1>1, <2>1, <2>3, <2>4
<1>19. LoopCovers'
  <2>1. CASE c = LoopReader
    <3>1. work.job = job
      BY <1>5
    <3>2. (job # NotYet /\ job.load # Unreadable) => Covers(job.load)
      BY <1>3 DEF InTurn
    <3>3. QED BY <1>1, <1>6, <2>1, <3>1, <3>2 DEF LoopCovers, Covers
  <2>2. CASE c # LoopReader
    BY <1>1, <1>6, <2>2, JobFields DEF LoopCovers, InTurn
  <2>3. QED BY <2>1, <2>2
<1>20. InTurn'
  BY <1>1, <1>17, <1>18, <1>19, JobFields DEF InTurn, ShownInOrder
<1>21. QED BY <1>9, <1>14, <1>16, <1>20

\* Whoever gives the lock away leaves a queue in which everybody still asks, and a holder that
\* has read nothing yet.
LEMMA ReleaseKeeps ==
  ASSUME JobInv, NEW c \in Collectors, NEW r \in {"databases", "job"},
         Holds(Task(c, r)), Release(Task(c, r)),
         \A d \in Collectors :
           /\ collection'[d].begun = collection[d].begun /\ collection'[d].row = collection[d].row
           /\ (d # c \/ r # "databases") => collection'[d].databases = collection[d].databases
           /\ (d # c \/ r # "job") => collection'[d].job = collection[d].job
  PROVE  lock' \in Seq(Tasks) /\ Queued' /\ HolderCovers'
<1> USE DEF JobInv
<1>1. /\ Len(lock) >= 1 /\ lock[1] = Task(c, r) /\ Len(lock') = Len(lock) - 1
      /\ lock' \in Seq(Tasks) /\ \A i \in 1..Len(lock') : lock'[i] = lock[i + 1]
      /\ \A i \in 1..Len(lock') : lock'[i] # Task(c, r)
      /\ Len(lock) \in Nat
  BY Released, JobFields
<1>2. ASSUME NEW i \in 1..Len(lock')
      PROVE  /\ i + 1 \in 1..Len(lock) /\ i + 1 > 1 /\ lock'[i] = lock[i + 1]
             /\ lock[i + 1].who \in Collectors /\ Asks(i + 1)
             /\ lock[i + 1].who # c \/ lock[i + 1].reads # r
  <2>1. i + 1 \in 1..Len(lock) /\ i + 1 > 1 /\ lock'[i] = lock[i + 1]
    BY <1>1
  <2>2. lock[i + 1] = Task(lock[i + 1].who, lock[i + 1].reads) /\ lock[i + 1].who \in Collectors
    BY <2>1, JobFields
  <2>3. Asks(i + 1)
    BY <2>1 DEF Queued
  <2>4. QED BY <1>1, <2>1, <2>2, <2>3
<1>3. ASSUME NEW i \in 1..Len(lock') PROVE Asks(i)'
  BY <1>2 DEF Asks
<1>4. ASSUME NEW i \in 1..Len(lock'), NEW j \in 1..Len(lock'), lock'[i] = lock'[j] PROVE i = j
  <2>1. i + 1 = j + 1
    BY <1>2, <1>4 DEF Queued
  <2>2. QED BY <2>1
<1>5. Queued'
  BY <1>3, <1>4 DEF Queued
<1>6. ASSUME NEW d \in Collectors, Holds(Task(d, "job"))' PROVE collection'[d].row = NotYet
  <2>1. 1 \in 1..Len(lock') /\ lock'[1] = Task(d, "job")
    BY <1>1, <1>6 DEF Holds
  <2>2. lock[1 + 1].who = d /\ lock[1 + 1].reads = "job"
    BY <1>2, <2>1 DEF Task
  <2>3. QED BY <1>2, <2>1, <2>2 DEF Asks
<1>7. QED BY <1>1, <1>5, <1>6 DEF HolderCovers

\* The read of the databases keeps the invariant.
LEMMA DatabasesReadKeeps ==
  ASSUME JobInv, NEW c \in Collectors, DatabasesRead(c) PROVE JobInv'
<1> USE DEF JobInv
<1> DEFINE work == [collection[c] EXCEPT !.databases = TRUE]
<1>1. /\ Holds(Task(c, "databases")) /\ Release(Task(c, "databases"))
      /\ collection' = [collection EXCEPT ![c] = work]
      /\ UNCHANGED <<jobClock, loads, jobKept, jobCache, jobsShown>>
  BY DEF DatabasesRead
<1>2. /\ work \in Work /\ work.begun = collection[c].begun /\ work.databases = TRUE
      /\ work.row = collection[c].row /\ work.job = collection[c].job
  BY JobFields DEF Work
<1> HIDE DEF work
<1>3. /\ collection' \in [Collectors -> Work] /\ collection'[c] = work
      /\ \A d \in Collectors : d # c => collection'[d] = collection[d]
  BY <1>1, <1>2, OthersKeep
<1>4. \A d \in Collectors :
        /\ collection'[d].begun = collection[d].begun /\ collection'[d].row = collection[d].row
        /\ collection'[d].job = collection[d].job
        /\ d # c => collection'[d].databases = collection[d].databases
  BY <1>2, <1>3
<1>5. lock' \in Seq(Tasks) /\ Queued' /\ HolderCovers'
  BY <1>1, <1>4, ReleaseKeeps
<1>6. JobTypes'
  BY <1>1, <1>3, <1>5 DEF JobTypes
<1>7. Dated'
  BY <1>1, <1>4 DEF Dated, CacheDated, WorkDated
<1>8. \A l : Covers(l) => Covers(l)'
  BY <1>1, <1>4 DEF Covers
<1>9. LoopCovers' /\ ShownInOrder'
  BY <1>1, <1>4, JobFields DEF LoopCovers, ShownInOrder, InTurn
<1>10. InTurn'
  BY <1>1, <1>5, <1>8, <1>9 DEF InTurn
<1>11. QED BY <1>5, <1>6, <1>7, <1>10

\* The read of the job's row, under the lock, keeps the invariant.
LEMMA RowReadKeeps ==
  ASSUME JobInv, NEW c \in Collectors, RowRead(c) PROVE JobInv'
<1> USE DEF JobInv
<1> DEFINE row  == [load |-> loads, read |-> jobClock]
           work == [collection[c] EXCEPT !.row = row]
<1>1. /\ Holds(Task(c, "job")) /\ collection[c].row = NotYet
      /\ collection' = [collection EXCEPT ![c] = work]
      /\ UNCHANGED <<jobClock, loads, jobKept, jobCache, lock, jobsShown>>
  BY DEF RowRead
<1>2. row \in Job /\ row.load = loads /\ row.read = jobClock
  BY JobFields DEF Job
<1> HIDE DEF row
<1>3. /\ work \in Work /\ work.begun = collection[c].begun /\ work.row = row
      /\ work.databases = collection[c].databases /\ work.job = collection[c].job
  BY <1>2, JobFields DEF Work
<1> HIDE DEF work
<1>4. /\ collection' \in [Collectors -> Work] /\ collection'[c] = work
      /\ \A d \in Collectors : d # c => collection'[d] = collection[d]
  BY <1>1, <1>3, OthersKeep
<1>5. /\ \A d \in Collectors :
           /\ collection'[d].begun = collection[d].begun /\ collection'[d].job = collection[d].job
           /\ collection'[d].databases = collection[d].databases
           /\ d # c => collection'[d].row = collection[d].row
      /\ collection'[c].row = row
  BY <1>3, <1>4
<1>6. JobTypes'
  BY <1>1, <1>4 DEF JobTypes
<1>7. lock[1] = Task(c, "job") /\ 1 \in 1..Len(lock)
  BY <1>1, JobFields DEF Holds, JobTypes
<1>8. ASSUME NEW i \in 1..Len(lock) PROVE Asks(i)'
  <2>1. Asks(i) /\ lock[i].who \in Collectors /\ lock[i] = Task(lock[i].who, lock[i].reads)
    BY JobFields DEF Queued
  <2>2. lock[i].reads = "job" /\ i > 1 => lock[i].who # c
    BY <1>7, <2>1 DEF Queued
  <2>3. QED BY <1>1, <1>5, <2>1, <2>2 DEF Asks
<1>9. Queued'
  BY <1>1, <1>8 DEF Queued
<1>10. ASSUME NEW d \in Collectors PROVE WorkDated(collection[d])'
  BY <1>1, <1>2, <1>5, JobFields DEF Dated, WorkDated
<1>11. Dated'
  BY <1>1, <1>10 DEF Dated, CacheDated
<1>12. \A l : Covers(l) => Covers(l)'
  BY <1>1, <1>5 DEF Covers
<1>13. ASSUME NEW d \in Collectors, Holds(Task(d, "job"))'
       PROVE  d = c
  BY <1>1, <1>7, <1>13 DEF Holds, Task
<1>14. HolderCovers'
  <2>1. Covers(loads)' /\ loads \in Nat /\ loads' = loads
    BY <1>1, <1>12, JobFields DEF InTurn
  <2>2. QED BY <1>2, <1>5, <1>13, <2>1 DEF HolderCovers, Covers
<1>15. LoopCovers' /\ ShownInOrder'
  BY <1>1, <1>5, JobFields DEF LoopCovers, ShownInOrder, InTurn
<1>16. InTurn'
  BY <1>1, <1>12, <1>14, <1>15 DEF InTurn
<1>17. QED BY <1>6, <1>9, <1>11, <1>16

\* The job's read, ended with a row or with an error, keeps the invariant and fills the cache.
LEMMA JobEndsKeeps ==
  ASSUME JobInv, NEW c \in Collectors, NEW job \in Job, Holds(Task(c, "job")), JobEnds(c, job),
         job.read >= collection[c].begun, job # NotYet,
         job.load = Unreadable \/ (job = collection[c].row)
  PROVE  JobInv'
<1> USE DEF JobInv
<1> DEFINE work == [collection[c] EXCEPT !.job = job]
<1>1. /\ Release(Task(c, "job")) /\ jobCache' = [at |-> collection[c].begun, job |-> job]
      /\ collection' = [collection EXCEPT ![c] = work]
      /\ UNCHANGED <<jobClock, loads, jobKept, jobsShown>>
  BY DEF JobEnds, Stamp
<1>2. /\ work \in Work /\ work.begun = collection[c].begun /\ work.row = collection[c].row
      /\ work.databases = collection[c].databases /\ work.job = job
  BY JobFields DEF Work
<1> HIDE DEF work
<1>3. /\ collection' \in [Collectors -> Work] /\ collection'[c] = work
      /\ \A d \in Collectors : d # c => collection'[d] = collection[d]
  BY <1>1, <1>2, OthersKeep
<1>4. /\ \A d \in Collectors :
           /\ collection'[d].begun = collection[d].begun /\ collection'[d].row = collection[d].row
           /\ collection'[d].databases = collection[d].databases
           /\ d # c => collection'[d].job = collection[d].job
      /\ collection'[c].job = job
  BY <1>2, <1>3
<1>5. lock' \in Seq(Tasks) /\ Queued' /\ HolderCovers'
  BY <1>1, <1>4, ReleaseKeeps
<1>6. /\ jobCache' \in [at : Int, job : Job] /\ jobCache'.at = collection[c].begun
      /\ jobCache'.job = job
  BY <1>1, JobFields
<1>7. JobTypes'
  BY <1>1, <1>3, <1>5, <1>6 DEF JobTypes
<1>8. /\ collection[c].begun >= 0 /\ collection[c].begun <= jobClock
      /\ collection[c].begun \in Int /\ job.load \in Int /\ job.read \in Int
      /\ collection[c].row # NotYet /\ job.load # Unreadable =>
           job.load >= 0 /\ job.load <= loads /\ Covers(job.load)
  <2>1. lock[1] = Task(c, "job") /\ 1 \in 1..Len(lock)
    BY JobFields DEF Holds, JobTypes
  <2>2. Asks(1) /\ lock[1].who = c
    BY <2>1 DEF Queued, Task
  <2>3. collection[c].begun >= 0 /\ collection[c].begun <= jobClock
    BY <2>2 DEF Asks, Dated, WorkDated
  <2>4. job.load \in Int /\ job.read \in Int /\ collection[c].begun \in Int
    BY JobFields DEF Job
  <2>5. (collection[c].row # NotYet /\ job.load # Unreadable) =>
           job.load >= 0 /\ job.load <= loads /\ Covers(job.load)
    BY DEF HolderCovers, InTurn
  <2>6. QED BY <2>3, <2>4, <2>5
<1>9. job.load = Unreadable \/ (job.load >= 0 /\ job.load <= loads /\ Covers(job.load))
  BY <1>8
<1>10. job.load >= -1 /\ job.load <= loads /\ loads \in Nat
  BY <1>8, <1>9, JobFields DEF Unreadable
<1>11. CacheDated'
  BY <1>1, <1>6, <1>8, <1>10 DEF CacheDated
<1>12. ASSUME NEW d \in Collectors PROVE WorkDated(collection[d])'
  <2>1. WorkDated(collection[d])
    BY DEF Dated
  <2>2. CASE d # c
    BY <1>1, <1>4, <2>1, <2>2 DEF WorkDated
  <2>3. CASE d = c
    BY <1>1, <1>4, <1>8, <1>10, <2>1, <2>3, JobAssumption DEF WorkDated
  <2>4. QED BY <2>2, <2>3
<1>13. Dated'
  BY <1>1, <1>11, <1>12 DEF Dated
<1>14. ASSUME NEW l \in Int, Covers(l), job.load <= l PROVE Covers(l)'
  BY <1>1, <1>4, <1>6, <1>14 DEF Covers
<1>15. Covers(loads)' /\ (jobCache.job.load # Unreadable => Covers(jobCache.job.load))'
  <2>1. Covers(loads)'
    BY <1>1, <1>10, <1>14 DEF Covers, InTurn
  <2>2. job.load # Unreadable => Covers(job.load)'
    BY <1>8, <1>9, <1>14
  <2>3. QED BY <1>6, <2>1, <2>2 DEF Covers
<1>16. LoopCovers'
  <2>1. CASE c = LoopReader
    BY <1>1, <1>4, <1>9, <2>1 DEF LoopCovers, Covers
  <2>2. CASE c # LoopReader
    BY <1>1, <1>4, <2>2, JobFields DEF LoopCovers, InTurn
  <2>3. QED BY <2>1, <2>2
<1>17. InTurn'
  BY <1>1, <1>5, <1>15, <1>16 DEF InTurn, ShownInOrder
<1>18. QED BY <1>5, <1>7, <1>13, <1>17

\* A reading shown keeps the invariant.
LEMMA ReadingEndsKeeps ==
  ASSUME JobInv, NEW c \in Collectors, ReadingEnds(c) PROVE JobInv'
<1> USE DEF JobInv
<1> DEFINE shown == [who |-> c, begun |-> collection[c].begun, job |-> collection[c].job]
<1>1. /\ collection[c].databases /\ collection[c].job # NotYet
      /\ jobsShown' = Append(jobsShown, shown)
      /\ collection' = [collection EXCEPT ![c] = Idle]
      /\ jobKept' = (jobKept \/ c = LoopReader)
      /\ UNCHANGED <<jobClock, loads, jobCache, lock>>
  BY DEF ReadingEnds
<1>2. /\ shown \in Shown /\ shown.who = c /\ shown.begun = collection[c].begun
      /\ shown.job = collection[c].job
  BY JobFields DEF Shown
<1> HIDE DEF shown
<1>3. /\ jobsShown' \in Seq(Shown) /\ Len(jobsShown') = Len(jobsShown) + 1
      /\ Len(jobsShown) \in Nat
      /\ \A i \in 1..Len(jobsShown) : jobsShown'[i] = jobsShown[i]
      /\ jobsShown'[Len(jobsShown) + 1] = shown
  BY <1>1, <1>2 DEF JobTypes
<1>4. /\ collection' \in [Collectors -> Work] /\ collection'[c] = Idle
      /\ \A d \in Collectors : d # c => collection'[d] = collection[d]
  BY <1>1, JobFields, OthersKeep
<1>5. Idle.begun = -1 /\ Idle.row = NotYet /\ Idle.job = NotYet /\ NotYet.load = -2
  BY DEF Idle, NotYet
<1>6. JobTypes'
  BY <1>1, <1>3, <1>4 DEF JobTypes
<1>7. ASSUME NEW i \in 1..Len(lock) PROVE Asks(i)'
  <2>1. Asks(i) /\ lock[i] \in Tasks /\ lock[i].who \in Collectors
    BY JobFields DEF Queued
  <2>2. lock[i].who # c
    BY <1>1, <2>1 DEF Asks, Tasks
  <2>3. QED BY <1>1, <1>4, <2>1, <2>2 DEF Asks
<1>8. Queued'
  BY <1>1, <1>7 DEF Queued
<1>9. ASSUME NEW d \in Collectors PROVE WorkDated(collection[d])'
  <2>1. WorkDated(collection[d])
    BY DEF Dated
  <2>2. CASE d # c
    BY <1>1, <1>4, <2>1, <2>2 DEF WorkDated
  <2>3. CASE d = c
    BY <1>1, <1>4, <1>5, <2>3, JobFields DEF WorkDated
  <2>4. QED BY <2>2, <2>3
<1>10. WorkDated(collection[c])
  BY DEF Dated
<1>11. \A i \in 1..Len(jobsShown') : i \in 1..Len(jobsShown) \/ i = Len(jobsShown) + 1
  BY <1>3
<1>12. \A i \in 1..Len(jobsShown') : jobsShown'[i].job.read > jobsShown'[i].begun - JobTime
  <2>1. shown.job.read > shown.begun - JobTime
    BY <1>1, <1>2, <1>10 DEF WorkDated
  <2>2. QED BY <1>3, <1>11, <2>1 DEF Dated
<1>13. Dated'
  BY <1>1, <1>9, <1>12 DEF Dated, CacheDated
<1>14. ASSUME NEW l \in Int, Covers(l) PROVE Covers(l)'
  <2>1. collection'[c].job.load <= l
    <3>1. -2 <= l
      BY <1>10, <1>14, JobFields DEF Covers, WorkDated
    <3>2. QED BY <1>4, <1>5, <3>1
  <2>2. \A i \in 1..Len(jobsShown') : jobsShown'[i].job.load <= l
    BY <1>2, <1>3, <1>11, <1>14 DEF Covers
  <2>3. QED BY <1>1, <1>4, <1>14, <2>1, <2>2 DEF Covers
<1>15. HolderCovers'
  <2> SUFFICES ASSUME NEW d \in Collectors, Holds(Task(d, "job"))', collection'[d].row # NotYet
               PROVE  /\ collection'[d].row.load >= 0 /\ collection'[d].row.load <= loads'
                      /\ Covers(collection[d].row.load)'
    BY DEF HolderCovers
  <2>1. d # c /\ collection'[d] = collection[d] /\ Holds(Task(d, "job"))
    BY <1>1, <1>4, <1>5 DEF Holds
  <2>2. /\ collection[d].row.load >= 0 /\ collection[d].row.load <= loads
        /\ Covers(collection[d].row.load) /\ collection[d].row.load \in Int
    BY <2>1, JobFields DEF HolderCovers, InTurn
  <2>3. Covers(collection[d].row.load)'
    BY <1>14, <2>1, <2>2 DEF Covers
  <2>4. QED BY <1>1, <2>1, <2>2, <2>3
<1>16. LoopCovers' /\ ShownInOrder'
  <2>1. CASE c = LoopReader
    <3>1. LoopCovers'
      BY <1>4, <1>5, <2>1 DEF LoopCovers
    <3>2. shown.job.load # Unreadable => \A i \in 1..Len(jobsShown) :
             jobsShown[i].who = LoopReader => jobsShown[i].job.load <= shown.job.load
      BY <1>1, <1>2, <2>1 DEF LoopCovers, InTurn
    <3>3. ShownInOrder'
      <4> SUFFICES ASSUME NEW i \in 1..Len(jobsShown'), NEW j \in 1..Len(jobsShown'), i < j,
                          jobsShown'[i].who = LoopReader, jobsShown'[j].who = LoopReader,
                          jobsShown'[j].job.load # Unreadable
                   PROVE  jobsShown'[i].job.load <= jobsShown'[j].job.load
        BY DEF ShownInOrder
      <4>1. i \in 1..Len(jobsShown) /\ jobsShown'[i] = jobsShown[i]
        BY <1>3
      <4>2. CASE j \in 1..Len(jobsShown)
        BY <1>3, <4>1, <4>2 DEF ShownInOrder, InTurn
      <4>3. CASE j = Len(jobsShown) + 1
        BY <1>3, <3>2, <4>1, <4>3
      <4>4. QED BY <1>11, <4>2, <4>3
    <3>4. QED BY <3>1, <3>3
  <2>2. CASE c # LoopReader
    <3>1. collection'[LoopReader] = collection[LoopReader]
      BY <1>4, <2>2, JobFields
    <3>2. \A i \in 1..Len(jobsShown') : jobsShown'[i].who = LoopReader =>
             i \in 1..Len(jobsShown) /\ jobsShown'[i] = jobsShown[i]
      BY <1>2, <1>3, <1>11, <2>2
    <3>3. LoopCovers'
      BY <3>1, <3>2 DEF LoopCovers, InTurn
    <3>4. ShownInOrder'
      BY <3>2 DEF ShownInOrder, InTurn
    <3>5. QED BY <3>3, <3>4
  <2>3. QED BY <2>1, <2>2
<1>17. InTurn'
  <2>1. Covers(loads)' /\ (jobCache.job.load # Unreadable => Covers(jobCache.job.load))'
    <3>1. ASSUME NEW l \in Int, l = loads, l = loads' PROVE Covers(loads)'
      BY <1>14, <3>1 DEF InTurn, Covers
    <3>2. ASSUME NEW l \in Int, l = jobCache.job.load, l = jobCache'.job.load
          PROVE  (jobCache.job.load # Unreadable => Covers(jobCache.job.load))'
      BY <1>14, <3>2 DEF InTurn, Covers
    <3>3. QED BY <1>1, <3>1, <3>2, JobFields
  <2>2. QED BY <1>15, <1>16, <2>1 DEF InTurn
<1>18. QED BY <1>6, <1>8, <1>13, <1>17

\* Every step of the job readings keeps their invariant.
LEMMA JobInvStep == JobInv /\ [JobNext]_jobVars => JobInv'
<1> SUFFICES ASSUME JobInv, [JobNext]_jobVars PROVE JobInv'
  OBVIOUS
<1>1. CASE JobTimePasses \/ LoadRecorded
  BY <1>1, TimeAndLoads
<1>2. ASSUME NEW c \in Collectors, JobRead(c) PROVE JobInv'
  <2>1. /\ collection[c].row # NotYet /\ collection[c].row \in Job
        /\ collection[c].row.read >= collection[c].begun
    BY <1>2, JobFields DEF JobRead, JobInv, Dated, WorkDated
  <2>2. QED BY <1>2, <2>1, JobEndsKeeps DEF JobRead
<1>3. ASSUME NEW c \in Collectors, JobFails(c) PROVE JobInv'
  <2> DEFINE job == [load |-> Unreadable, read |-> jobClock]
  <2>1. job \in Job /\ job.load = Unreadable /\ job.read = jobClock /\ job # NotYet
    BY JobFields DEF Job, Unreadable, NotYet, JobInv
  <2>2. Holds(Task(c, "job")) /\ JobEnds(c, job)
    BY <1>3 DEF JobFails
  <2> HIDE DEF job
  <2>3. job.read >= collection[c].begun
    BY <2>1, JobFields DEF JobInv, Dated, WorkDated
  <2>4. QED BY <2>1, <2>2, <2>3, JobEndsKeeps
<1>4. CASE UNCHANGED jobVars
  <2> USE <1>4 DEF JobInv, jobVars
  <2>1. JobTypes' /\ Queued'
    BY DEF JobTypes, Queued, Asks
  <2>2. Dated'
    BY DEF Dated, CacheDated, WorkDated
  <2>3. InTurn'
    BY DEF InTurn, Covers, HolderCovers, LoopCovers, ShownInOrder, Holds
  <2>4. QED BY <2>1, <2>2, <2>3
<1>5. QED
  BY <1>1, <1>2, <1>3, <1>4, BeginReadingKeeps, DatabasesReadKeeps, RowReadKeeps, ReadingEndsKeeps
  DEF JobNext

\* The invariant gives the types and says that the jobs shown are current.
LEMMA JobInvSafe == JobInv => JobTypeOK /\ JobsAreCurrent
<1> SUFFICES ASSUME JobInv PROVE JobTypeOK /\ JobsAreCurrent
  OBVIOUS
<1> USE DEF JobInv
<1>1. DOMAIN lock = 1..Len(lock) /\ DOMAIN jobsShown = 1..Len(jobsShown)
  BY DEF JobTypes
<1>2. JobsAreCurrent
  BY <1>1 DEF JobsAreCurrent, Dated, InTurn, ShownInOrder
<1>3. jobCache.at \in -1..jobClock
  BY JobFields DEF Dated, CacheDated
<1>4. ASSUME NEW c \in Collectors
      PROVE  collection[c].begun \in -1..jobClock /\ collection[c].job.load \in -2..MaxLoads
  <2>1. /\ collection[c].begun >= -1 /\ collection[c].begun <= jobClock
        /\ collection[c].job.load >= -2 /\ collection[c].job.load <= loads
    BY DEF Dated, WorkDated, InTurn, Covers
  <2>2. loads <= MaxLoads /\ MaxLoads \in Int
    BY JobAssumption DEF JobTypes
  <2>3. QED BY <2>1, <2>2, JobFields
<1>5. JobTypeOK
  BY <1>1, <1>3, <1>4 DEF JobTypeOK, JobTypes, Queued
<1>6. QED BY <1>2, <1>5
-----------------------------------------------------------------------------
(* The gauges of the graph store *)

\* The types of a snapshot and of an export under way.
Taken == [up : BOOLEAN, of : 0..MaxStarts, at : Int, refreshed : Int, seen : Int, closed : BOOLEAN]
Exporter == [callback : 0..Callbacks, source : 0..starts, began : Int, closed : BOOLEAN]

\* The types of the gauges.
GaugeTypes ==
  /\ gaugeClock \in 0..MaxGaugeTime /\ starts \in 0..MaxStarts /\ source \in {NoSource, starts}
  /\ phase \in {"running", "detached", "closed"}
  /\ snapshot \in [1..MaxStarts -> Taken]
  /\ exporter \in Exporter /\ answer \in Taken /\ observed \in Seq(Taken)

\* An export observes once per gauge, in the order of the callbacks.
OneEach ==
  /\ exporter.callback > 0 => Len(observed) = exporter.callback - 1
  /\ Len(observed) <= Callbacks

\* Only a running console has a source, and an export refreshes from one it was given.
OpenSources ==
  /\ source # NoSource => phase = "running"
  /\ ~exporter.closed
  /\ exporter.callback = 0 => exporter.source = NoSource
  /\ exporter.source = NoSource => exporter.began < 0

\* A source keeps only what was read of itself, at or after the refresh it is dated by.
SnapshotsOwned ==
  \A s \in 1..MaxStarts :
    \/ snapshot[s] = NotTaken
    \/ snapshot[s].of = s /\ snapshot[s].refreshed >= 0 /\ snapshot[s].at >= snapshot[s].refreshed

\* A refresh under way is within its budget, and observed nothing of its source yet.
RefreshWithinBudget ==
  Refreshing =>
    /\ exporter.began <= gaugeClock /\ gaugeClock <= exporter.began + RefreshBudget
    /\ answer # NotTaken => answer.of = exporter.source /\ answer.at >= exporter.began
    /\ \A i \in 1..Len(observed) : observed[i].of < exporter.source

\* An observation under way: it is of no later source than the export is at, it agrees with
\* the snapshot that its source keeps, and that snapshot is still young when more is to come.
InOrder(o) ==
  /\ o.of <= starts /\ (exporter.source # NoSource => o.of <= exporter.source)
  /\ o.of = NoSource => o.at = -1 /\ o.up = FALSE
  /\ o.of # NoSource =>
       /\ o.at = snapshot[o.of].at /\ o.up = snapshot[o.of].up
       /\ o.at > o.seen - SnapshotTime /\ ~o.closed
       /\ exporter.callback > 0 /\ o.of \in {starts, exporter.source} => Young(snapshot[o.of])
ObservedInOrder == \A i \in 1..Len(observed) : InOrder(observed[i])

\* The inductive invariant of the gauges: GaugesShareOneReading compares the observations of one
\* export, between which a refresh may end, a source be replaced and time pass.
GaugeInv ==
  GaugeTypes /\ OneEach /\ OpenSources /\ SnapshotsOwned /\ RefreshWithinBudget /\ ObservedInOrder

\* The first state satisfies the invariant of the gauges.
LEMMA GaugeInvInit == GaugeInit => GaugeInv
<1> SUFFICES ASSUME GaugeInit PROVE GaugeInv
  OBVIOUS
<1> USE GaugeAssumption DEF GaugeInit, NotTaken, Resting, NoSource
<1>1. GaugeTypes
  BY DEF GaugeTypes, Taken, Exporter, Callbacks
<1>2. OneEach /\ OpenSources
  BY DEF OneEach, OpenSources, Callbacks
<1>3. SnapshotsOwned
  BY DEF SnapshotsOwned
<1>4. RefreshWithinBudget
  BY DEF RefreshWithinBudget, Refreshing
<1>5. ObservedInOrder
  BY DEF ObservedInOrder
<1>6. QED BY <1>1, <1>2, <1>3, <1>4, <1>5 DEF GaugeInv

\* What the types say of the fields of an export, its observations and the snapshots.
LEMMA GaugeFields ==
  ASSUME GaugeTypes
  PROVE  /\ gaugeClock \in Nat /\ starts \in Nat /\ starts <= MaxStarts /\ source \in 0..starts
         /\ exporter.callback \in 0..Callbacks /\ exporter.began \in Int
         /\ exporter.closed \in BOOLEAN
         /\ exporter.source \in Nat /\ exporter.source <= starts /\ exporter.source \in 0..MaxStarts
         /\ NotTaken \in Taken /\ Len(observed) \in Nat
         /\ \A i \in 1..Len(observed) : /\ observed[i] \in Taken /\ observed[i].of \in Nat
                                        /\ observed[i].of <= MaxStarts
         /\ \A s \in 1..MaxStarts : snapshot[s] \in Taken /\ snapshot[s].at \in Int
                                    /\ snapshot[s].refreshed \in Int
<1> USE GaugeAssumption
<1>1. NotTaken \in Taken
  BY DEF NotTaken, Taken, NoSource
<1>2. /\ gaugeClock \in Nat /\ starts \in Nat /\ starts <= MaxStarts /\ source \in 0..starts
      /\ exporter \in Exporter
  BY DEF GaugeTypes, NoSource
<1>3. Len(observed) \in Nat /\ \A i \in 1..Len(observed) : observed[i] \in Taken
  BY DEF GaugeTypes
<1>4. \A s \in 1..MaxStarts : snapshot[s] \in Taken
  BY DEF GaugeTypes
<1>5. \A t \in Taken : t.of \in Nat /\ t.of <= MaxStarts /\ t.at \in Int /\ t.refreshed \in Int
  BY DEF Taken
<1>6. /\ exporter.callback \in 0..Callbacks /\ exporter.began \in Int /\ exporter.closed \in BOOLEAN
      /\ exporter.source \in Nat /\ exporter.source <= starts /\ exporter.source \in 0..MaxStarts
  BY <1>2 DEF Exporter
<1>7. QED BY <1>1, <1>2, <1>3, <1>4, <1>5, <1>6

\* A callback adds one observation and goes on to the next gauge, or ends the export.
LEMMA ObservesStep ==
  ASSUME GaugeTypes, NEW what \in Taken, Observes(what), exporter.callback > 0, starts' = starts
  PROVE  LET new == observed'[Len(observed) + 1] IN
         /\ new \in Taken /\ observed' \in Seq(Taken)
         /\ Len(observed') = Len(observed) + 1 /\ Len(observed) \in Nat
         /\ \A i \in 1..Len(observed) : observed'[i] = observed[i]
         /\ new.up = what.up /\ new.of = what.of /\ new.at = what.at
         /\ new.seen = gaugeClock /\ new.closed = exporter.closed
         /\ exporter'.source = NoSource /\ exporter'.began = -1 /\ exporter'.closed = FALSE
         /\ exporter.callback = Callbacks => exporter'.callback = 0
         /\ exporter.callback # Callbacks => exporter'.callback = exporter.callback + 1
         /\ exporter' \in Exporter'
<1> DEFINE new == [what EXCEPT !.seen = gaugeClock, !.closed = exporter.closed]
<1>1. /\ gaugeClock \in Int /\ exporter.closed \in BOOLEAN /\ exporter.callback \in 0..Callbacks
      /\ observed \in Seq(Taken) /\ starts \in Nat /\ starts' = starts
  BY GaugeAssumption DEF GaugeTypes, Exporter
<1>2. /\ new \in Taken
      /\ new.up = what.up /\ new.of = what.of /\ new.at = what.at
      /\ new.seen = gaugeClock /\ new.closed = exporter.closed
  BY <1>1 DEF Taken
<1>3. observed' = Append(observed, new)
  BY DEF Observes
<1>4. /\ exporter'.source = NoSource /\ exporter'.began = -1 /\ exporter'.closed = FALSE
      /\ exporter.callback = Callbacks => exporter'.callback = 0
      /\ exporter.callback # Callbacks => exporter'.callback = exporter.callback + 1
      /\ exporter' \in Exporter'
  <2>1. CASE exporter.callback = Callbacks
    <3>1. exporter' = Resting
      BY <2>1 DEF Observes
    <3>2. QED BY <3>1, <2>1, <1>1 DEF Resting, Exporter, NoSource, Callbacks
  <2>2. CASE exporter.callback # Callbacks
    <3>1. exporter' = [callback |-> exporter.callback + 1, source |-> NoSource,
                       began |-> -1, closed |-> FALSE]
      BY <2>2 DEF Observes, Resting
    <3>2. exporter.callback + 1 \in 0..Callbacks /\ NoSource \in 0..starts' /\ -1 \in Int
      BY <2>2, <1>1 DEF Callbacks, NoSource
    <3>3. exporter' \in Exporter'
      BY <3>1, <3>2 DEF Exporter
    <3>4. QED BY <3>1, <3>3, <2>2
  <2>3. QED BY <2>1, <2>2
<1> HIDE DEF new
<1>5. /\ observed' \in Seq(Taken) /\ Len(observed') = Len(observed) + 1 /\ Len(observed) \in Nat
      /\ \A i \in 1..Len(observed) : observed'[i] = observed[i]
      /\ observed'[Len(observed) + 1] = new
  BY <1>1, <1>2, <1>3
<1>6. QED BY <1>2, <1>4, <1>5

\* A callback that observes what its source keeps, and is young, keeps the invariant.
LEMMA ObservesKeeps ==
  ASSUME GaugeInv, NEW what \in Taken, Observes(what), exporter.callback > 0,
         starts' = starts, gaugeClock' = gaugeClock, source' = source, phase' = phase,
         answer' \in Taken, snapshot' \in [1..MaxStarts -> Taken], SnapshotsOwned',
         \A i \in 1..Len(observed) : observed[i].of # NoSource =>
            snapshot'[observed[i].of] = snapshot[observed[i].of],
         what.of <= starts, what.of = NoSource => what.at = -1 /\ what.up = FALSE,
         what.of # NoSource =>
           /\ what.at = snapshot'[what.of].at /\ what.up = snapshot'[what.of].up
           /\ what.at > gaugeClock - SnapshotTime
           /\ snapshot'[what.of] # NotTaken
           /\ gaugeClock - snapshot'[what.of].refreshed < SnapshotTime
  PROVE  GaugeInv'
<1> DEFINE new == observed'[Len(observed) + 1]
<1> USE DEF GaugeInv
<1>1. /\ new \in Taken /\ observed' \in Seq(Taken)
      /\ Len(observed') = Len(observed) + 1 /\ Len(observed) \in Nat
      /\ \A i \in 1..Len(observed) : observed'[i] = observed[i]
      /\ new.up = what.up /\ new.of = what.of /\ new.at = what.at
      /\ new.seen = gaugeClock /\ new.closed = exporter.closed
      /\ exporter'.source = NoSource /\ exporter'.began = -1 /\ exporter'.closed = FALSE
      /\ exporter.callback = Callbacks => exporter'.callback = 0
      /\ exporter.callback # Callbacks => exporter'.callback = exporter.callback + 1
      /\ exporter' \in Exporter'
  BY ObservesStep
<1> HIDE DEF new
<1>2. GaugeTypes'
  BY <1>1 DEF GaugeTypes
<1>3. exporter.callback \in 0..Callbacks
  BY DEF GaugeTypes, Exporter
<1>4. OneEach'
  BY <1>1, <1>3 DEF OneEach, Callbacks
<1>5. OpenSources'
  BY <1>1 DEF OpenSources
<1>6. RefreshWithinBudget'
  BY <1>1 DEF RefreshWithinBudget, Refreshing
<1>7. ASSUME NEW i \in 1..Len(observed) PROVE InOrder(observed[i])'
  <2>1. InOrder(observed[i]) /\ observed'[i] = observed[i]
    BY <1>1 DEF ObservedInOrder
  <2>2. QED BY <1>1, <2>1 DEF InOrder, Young, NoSource
<1>8. ASSUME NEW i, i = Len(observed) + 1 PROVE InOrder(observed[i])'
  <2>1. observed'[i] = new
    BY <1>8 DEF new
  <2>2. QED BY <1>1, <2>1 DEF InOrder, Young, OpenSources
<1>9. ObservedInOrder'
  <2> SUFFICES ASSUME NEW i \in 1..Len(observed') PROVE InOrder(observed[i])'
    BY DEF ObservedInOrder
  <2>1. CASE i \in 1..Len(observed)
    BY <2>1, <1>7
  <2>2. CASE i = Len(observed) + 1
    BY <2>2, <1>8
  <2>3. QED BY <2>1, <2>2, <1>1
<1>10. QED BY <1>2, <1>4, <1>5, <1>6, <1>9

\* A refresh that ends with an answer, in time, keeps the invariant.
LEMMA EndRefreshKeeps ==
  ASSUME GaugeInv, NEW taken \in Taken, Refreshing, EndRefresh(taken),
         taken.of = exporter.source, taken.at >= exporter.began
  PROVE  GaugeInv'
<1> DEFINE s == exporter.source
           dated == [taken EXCEPT !.refreshed = exporter.began]
<1> USE DEF GaugeInv
<1>1. /\ s \in 1..MaxStarts /\ s <= starts /\ exporter.began >= 0 /\ exporter.callback > 0
      /\ gaugeClock \in Int /\ exporter.began \in Int
      /\ exporter.began <= gaugeClock /\ gaugeClock <= exporter.began + RefreshBudget
      /\ \A i \in 1..Len(observed) : observed[i].of < s
  BY GaugeFields DEF OpenSources, Refreshing, RefreshWithinBudget, NoSource
<1>2. /\ dated \in Taken /\ dated.of = s /\ dated.at = taken.at /\ dated.up = taken.up
      /\ dated.refreshed = exporter.began
  BY <1>1 DEF Taken
<1>3. dated # NotTaken
  BY <1>1, <1>2 DEF NotTaken
<1>4. /\ snapshot' = [snapshot EXCEPT ![s] = dated] /\ Observes(dated)
      /\ answer' = NotTaken /\ UNCHANGED <<gaugeClock, starts, source, phase>>
  BY DEF EndRefresh
<1> HIDE DEF dated, s
<1>5. /\ snapshot' \in [1..MaxStarts -> Taken] /\ snapshot'[s] = dated
      /\ \A t \in 1..MaxStarts : t # s => snapshot'[t] = snapshot[t]
  BY <1>1, <1>2, <1>4 DEF GaugeTypes
<1>6. answer' \in Taken
  BY <1>4, GaugeAssumption DEF NotTaken, Taken, NoSource
<1>7. SnapshotsOwned'
  BY <1>1, <1>2, <1>5 DEF SnapshotsOwned, s
<1>8. ASSUME NEW i \in 1..Len(observed), observed[i].of # NoSource
      PROVE  snapshot'[observed[i].of] = snapshot[observed[i].of]
  <2>1. observed[i].of \in 1..MaxStarts /\ observed[i].of # s
    BY <1>1, <1>8, GaugeFields DEF NoSource
  <2>2. QED BY <1>5, <2>1
<1>9. /\ dated.of # NoSource /\ dated.of <= starts
      /\ dated.at > gaugeClock - SnapshotTime /\ gaugeClock - dated.refreshed < SnapshotTime
  <2>1. /\ dated.at \in Int /\ dated.at >= exporter.began
        /\ RefreshBudget \in Nat /\ SnapshotTime \in Nat /\ RefreshBudget < SnapshotTime
    BY <1>2, GaugeAssumption DEF Taken
  <2>2. dated.of # NoSource /\ dated.of <= starts
    BY <1>1, <1>2 DEF NoSource
  <2>3. gaugeClock - exporter.began < SnapshotTime /\ dated.at > gaugeClock - SnapshotTime
    BY <1>1, <2>1
  <2>4. QED BY <1>2, <2>2, <2>3
<1>10. QED
  BY <1>1, <1>2, <1>3, <1>4, <1>5, <1>6, <1>7, <1>8, <1>9, ObservesKeeps

\* Every step of the gauges keeps their invariant.
LEMMA GaugeInvStep == GaugeInv /\ [GaugeNext]_gaugeVars => GaugeInv'
<1> SUFFICES ASSUME GaugeInv, [GaugeNext]_gaugeVars PROVE GaugeInv'
  OBVIOUS
<1> USE GaugeAssumption DEF GaugeInv
<1>1. CASE GaugeTimePasses
  <2> USE <1>1 DEF GaugeTimePasses
  <2>1. GaugeTypes' /\ OneEach' /\ OpenSources' /\ SnapshotsOwned'
    BY DEF GaugeTypes, Exporter, OneEach, OpenSources, SnapshotsOwned
  <2>2. RefreshWithinBudget'
    BY DEF RefreshWithinBudget, Refreshing, GaugeTypes, OpenSources, NoSource, Exporter
  <2>3. ObservedInOrder'
    BY DEF ObservedInOrder, InOrder, RefreshWithinBudget, GaugeTypes, Exporter, Refreshing
  <2>4. QED BY <2>1, <2>2, <2>3
<1>2. CASE RegisterGauges
  <2> USE <1>2 DEF RegisterGauges
  <2>1. GaugeTypes' /\ OneEach' /\ OpenSources' /\ SnapshotsOwned'
    BY DEF GaugeTypes, Exporter, OneEach, OpenSources, SnapshotsOwned
  <2>2. RefreshWithinBudget'
    BY DEF RefreshWithinBudget, Refreshing
  <2>3. ObservedInOrder'
    BY GaugeFields DEF ObservedInOrder, InOrder, Young
  <2>4. QED BY <2>1, <2>2, <2>3
<1>3. CASE ResetGauges \/ CloseDriver
  <2> USE <1>3 DEF ResetGauges, CloseDriver, ResetSource
  <2>1. GaugeTypes' /\ OneEach' /\ OpenSources' /\ SnapshotsOwned'
    BY DEF GaugeTypes, Exporter, OneEach, OpenSources, SnapshotsOwned
  <2>2. RefreshWithinBudget' /\ ObservedInOrder'
    BY DEF RefreshWithinBudget, Refreshing, ObservedInOrder, InOrder, Young
  <2>3. QED BY <2>1, <2>2
<1>4. CASE BeginExport
  <2> USE <1>4 DEF BeginExport, Resting
  <2>1. exporter' = [callback |-> 1, source |-> NoSource, began |-> -1, closed |-> FALSE]
    OBVIOUS
  <2>2. exporter' \in Exporter' /\ <<>> \in Seq(Taken) /\ Len(<<>>) = 0
    <3>1. 1 \in 0..Callbacks /\ NoSource \in 0..starts' /\ -1 \in Int
      BY GaugeFields DEF Callbacks, NoSource
    <3>2. exporter' \in Exporter'
      BY <2>1, <3>1 DEF Exporter
    <3>3. QED BY <3>2
  <2>3. GaugeTypes' /\ OneEach' /\ OpenSources' /\ SnapshotsOwned'
    BY <2>1, <2>2 DEF GaugeTypes, OneEach, OpenSources, SnapshotsOwned, Callbacks
  <2>4. RefreshWithinBudget' /\ ObservedInOrder'
    BY <2>1 DEF RefreshWithinBudget, Refreshing, ObservedInOrder
  <2>5. QED BY <2>3, <2>4
<1>5. CASE TakeSource
  <2> USE <1>5 DEF TakeSource
  <2>1. phase = "running" /\ source = starts /\ source # NoSource
    BY DEF GaugeTypes, OpenSources
  <2>2. exporter' = [exporter EXCEPT !.source = starts, !.closed = FALSE]
    <3>1. ClosedDriver(source) = FALSE
      BY <2>1, GaugeFields DEF ClosedDriver
    <3>2. QED BY <2>1, <3>1
  <2>3. exporter' \in Exporter'
    BY <2>2, GaugeFields DEF GaugeTypes, Exporter
  <2>7. exporter'.source = starts /\ exporter'.closed = FALSE /\ exporter'.began = exporter.began
        /\ exporter'.callback = exporter.callback
    BY <2>2 DEF GaugeTypes, Exporter
  <2>8. GaugeTypes' /\ OneEach' /\ OpenSources' /\ SnapshotsOwned'
    BY <2>1, <2>3, <2>7 DEF GaugeTypes, OneEach, OpenSources, SnapshotsOwned
  <2>4. RefreshWithinBudget'
    BY <2>2 DEF RefreshWithinBudget, Refreshing, GaugeTypes, Exporter, OpenSources
  <2>5. ObservedInOrder'
    BY <2>2 DEF ObservedInOrder, InOrder, Young, GaugeTypes, Exporter
  <2>6. QED BY <2>8, <2>4, <2>5
<1>6. CASE ObserveNothing
  <2> USE <1>6 DEF ObserveNothing
  <2>1. NotTaken \in Taken /\ NotTaken.of = NoSource /\ NotTaken.at = -1 /\ NotTaken.up = FALSE
    BY DEF NotTaken, Taken, NoSource
  <2>2. SnapshotsOwned' /\ NoSource <= starts /\ snapshot' \in [1..MaxStarts -> Taken]
        /\ answer' \in Taken
    BY DEF SnapshotsOwned, GaugeTypes, NoSource
  <2>3. QED BY <2>1, <2>2, ObservesKeeps
<1>7. CASE ObserveSnapshot
  <2> USE <1>7 DEF ObserveSnapshot
  <2> DEFINE s == exporter.source
  <2>1. s \in 1..MaxStarts /\ s <= starts /\ exporter.callback > 0
    BY DEF HasSource, GaugeTypes, Exporter, OpenSources, NoSource
  <2>2. /\ snapshot[s] \in Taken /\ snapshot[s].of = s /\ snapshot[s] # NotTaken
        /\ snapshot[s].at >= snapshot[s].refreshed
        /\ gaugeClock - snapshot[s].refreshed < SnapshotTime
    BY <2>1 DEF Young, SnapshotsOwned, GaugeTypes
  <2>3. snapshot[s].at > gaugeClock - SnapshotTime /\ s # NoSource
    <3>1. /\ snapshot[s].at \in Int /\ snapshot[s].refreshed \in Int /\ gaugeClock \in Int
          /\ SnapshotTime \in Int /\ s # NoSource
      BY <2>1, GaugeFields, GaugeAssumption DEF NoSource
    <3>2. QED BY ONLY <2>2, <3>1
  <2>4. SnapshotsOwned' /\ snapshot' \in [1..MaxStarts -> Taken] /\ answer' \in Taken
    BY DEF SnapshotsOwned, GaugeTypes
  <2>5. QED BY <2>1, <2>2, <2>3, <2>4, ObservesKeeps
<1>8. CASE BeginRefresh
  <2> USE <1>8 DEF BeginRefresh
  <2>1. /\ exporter.source # NoSource /\ exporter.callback > 0
        /\ exporter' = [exporter EXCEPT !.began = gaugeClock]
    BY DEF HasSource, OpenSources, GaugeTypes, Exporter
  <2>7. exporter' \in Exporter'
    BY <2>1, GaugeFields DEF GaugeTypes, Exporter
  <2>8. /\ exporter'.source = exporter.source /\ exporter'.closed = exporter.closed
        /\ exporter'.began = gaugeClock /\ exporter'.callback = exporter.callback
    BY <2>1 DEF GaugeTypes, Exporter
  <2>2. GaugeTypes' /\ OneEach' /\ OpenSources' /\ SnapshotsOwned'
    BY <2>1, <2>7, <2>8, GaugeFields DEF GaugeTypes, OneEach, OpenSources, SnapshotsOwned
  <2>3. ASSUME NEW i \in 1..Len(observed) PROVE observed[i].of < exporter.source
    <3>1. observed[i] \in Taken /\ InOrder(observed[i])
      BY GaugeFields DEF ObservedInOrder
    <3>2. observed[i].of # exporter.source
      BY <2>1, <3>1 DEF InOrder, HasSource
    <3>3. QED BY <2>1, <3>1, <3>2, GaugeFields DEF InOrder
  <2>4. RefreshWithinBudget'
    BY <2>1, <2>3 DEF RefreshWithinBudget, GaugeTypes, Exporter
  <2>5. ObservedInOrder'
    BY <2>1 DEF ObservedInOrder, InOrder, Young, GaugeTypes, Exporter
  <2>6. QED BY <2>2, <2>4, <2>5
<1>9. CASE ReadStore
  <2> USE <1>9 DEF ReadStore
  <2>1. PICK up \in BOOLEAN :
          answer' = [NotTaken EXCEPT !.up = up, !.of = exporter.source, !.at = gaugeClock]
    OBVIOUS
  <2>2. answer' \in Taken /\ answer'.of = exporter.source /\ answer'.at = gaugeClock
    <3>1. NotTaken \in Taken /\ gaugeClock \in Int /\ exporter.source \in 0..MaxStarts
      BY GaugeFields
    <3>2. QED BY <2>1, <3>1 DEF Taken
  <2>3. GaugeTypes' /\ OneEach' /\ OpenSources' /\ SnapshotsOwned'
    BY <2>2 DEF GaugeTypes, Exporter, OneEach, OpenSources, SnapshotsOwned
  <2>4. RefreshWithinBudget' /\ ObservedInOrder'
    BY <2>2 DEF RefreshWithinBudget, Refreshing, ObservedInOrder, InOrder, Young
  <2>5. QED BY <2>3, <2>4
<1>10. CASE Refreshed
  <2>1. answer \in Taken /\ answer.of = exporter.source /\ answer.at >= exporter.began
    BY <1>10 DEF Refreshed, RefreshWithinBudget, GaugeTypes
  <2>2. QED BY <1>10, <2>1, EndRefreshKeeps DEF Refreshed
<1>11. CASE RefreshTimesOut
  <2> DEFINE down == [NotTaken EXCEPT !.of = exporter.source, !.at = gaugeClock]
  <2>1. down \in Taken /\ down.of = exporter.source /\ down.at >= exporter.began
    <3>1. NotTaken \in Taken /\ gaugeClock \in Int /\ exporter.source \in 0..MaxStarts
      BY GaugeFields
    <3>2. exporter.began <= gaugeClock
      BY <1>11 DEF RefreshTimesOut, RefreshWithinBudget
    <3>3. QED BY <3>1, <3>2 DEF Taken
  <2>2. QED BY <1>11, <2>1, EndRefreshKeeps DEF RefreshTimesOut
<1>12. CASE UNCHANGED gaugeVars
  <2> USE <1>12 DEF gaugeVars
  <2>1. GaugeTypes' /\ OneEach' /\ OpenSources' /\ SnapshotsOwned'
    BY DEF GaugeTypes, Exporter, OneEach, OpenSources, SnapshotsOwned
  <2>2. RefreshWithinBudget' /\ ObservedInOrder'
    BY DEF RefreshWithinBudget, Refreshing, ObservedInOrder, InOrder, Young
  <2>3. QED BY <2>1, <2>2
<1>13. QED
  BY <1>1, <1>2, <1>3, <1>4, <1>5, <1>6, <1>7, <1>8, <1>9, <1>10, <1>11, <1>12 DEF GaugeNext

\* The invariant gives the types and says that the gauges share one reading.
LEMMA GaugeInvSafe == GaugeInv => GaugeTypeOK /\ GaugesShareOneReading
<1> SUFFICES ASSUME GaugeInv PROVE GaugeTypeOK /\ GaugesShareOneReading
  OBVIOUS
<1> USE GaugeAssumption DEF GaugeInv
<1>1. GaugeTypeOK
  BY DEF GaugeTypes, GaugeTypeOK, Exporter, OneEach
<1>2. DOMAIN observed = 1..Len(observed) /\ \A i \in DOMAIN observed : InOrder(observed[i])
  BY DEF GaugeTypes, ObservedInOrder
<1>3. GaugesShareOneReading
  BY <1>2 DEF GaugesShareOneReading, InOrder
<1>4. QED BY <1>1, <1>3
-----------------------------------------------------------------------------
(* Detector *)

\* The inductive invariant of the whole: the parts share no register.
DetectorInv == HistoryInv /\ WindowInv /\ StatusInv /\ RateInv /\ JobInv /\ GaugeInv

\* The first state satisfies the invariant of every part.
LEMMA DetectorInvInit == DetectorInit => DetectorInv
<1> SUFFICES ASSUME DetectorInit PROVE DetectorInv
  OBVIOUS
<1>1. HistoryInit /\ WindowInit /\ StatusInit /\ RateInit /\ JobInit /\ GaugeInit
  BY DEF DetectorInit, WindowInit
<1>2. QED BY <1>1, HistoryInvInit, WindowInvInit, StatusInvInit, RateInvInit, JobInvInit, GaugeInvInit
            DEF DetectorInv

\* Every step is a step of one part and leaves the registers of the others alone.
LEMMA DetectorInvStep == DetectorInv /\ [DetectorNext]_detectorVars => DetectorInv'
<1> SUFFICES ASSUME DetectorInv, [DetectorNext]_detectorVars PROVE DetectorInv'
  OBVIOUS
<1>1. UNCHANGED windowVars => UNCHANGED historyVars
  BY DEF windowVars
<1>2. /\ [HistoryNext]_historyVars /\ [StatusNext]_statusVars /\ [RateNext]_rateVars
      /\ [JobNext]_jobVars /\ [GaugeNext]_gaugeVars
      /\ WindowNext \/ UNCHANGED windowVars
  <2>1. CASE UNCHANGED detectorVars
    BY <1>1, <2>1 DEF detectorVars
  <2>2. CASE DetectorNext
    BY <1>1, <2>2 DEF DetectorNext, WindowNext
  <2>3. QED BY <2>1, <2>2
<1>3. HistoryInv'
  BY <1>2, HistoryInvStep DEF DetectorInv
<1>4. StatusInv'
  BY <1>2, StatusInvStep DEF DetectorInv
<1>5. RateInv'
  BY <1>2, RateInvStep DEF DetectorInv
<1>6. JobInv'
  BY <1>2, JobInvStep DEF DetectorInv
<1>7. GaugeInv'
  BY <1>2, GaugeInvStep DEF DetectorInv
<1>8. WindowInv'
  BY <1>2, <1>3, WindowStep, WindowUnchanged DEF DetectorInv
<1>9. QED BY <1>3, <1>4, <1>5, <1>6, <1>7, <1>8 DEF DetectorInv

\* The invariant of the parts holds in every state of Detector.
THEOREM DetectorInvariant == DetectorSpec => []DetectorInv
<1>1. QED BY DetectorInvInit, DetectorInvStep, PTL DEF DetectorSpec

\* The registers of all five parts stay in their types, whatever is read and in whatever order.
THEOREM DetectorTypeCorrect == DetectorSpec => []DetectorTypeOK
<1>1. DetectorInv => DetectorTypeOK
  BY StatusInvSafe, RateInvSafe, JobInvSafe, GaugeInvSafe
     DEF DetectorInv, DetectorTypeOK, HistoryInv, HistoryTypes
<1>2. QED BY <1>1, DetectorInvariant, PTL

\* A queue is stalled exactly when its readings show it, and the excuse of a queue that awaits
\* its marker runs out, for every cadence of readings and all limits (_work_queues_of,
\* _condition_of, _awaiting_marker_for).
THEOREM ConditionsAreReal == DetectorSpec => []ConditionIsReal
<1>1. DetectorInv => ConditionIsReal
  BY ConditionProved DEF DetectorInv
<1>2. QED BY <1>1, DetectorInvariant, PTL

\* The problem a queue has is the one its last event named (_work_queues_of).
THEOREM ProblemsAnnounced == DetectorSpec => []ProblemsAreAnnounced
<1>1. DetectorInv => ProblemsAreAnnounced
  BY AnnouncementProved DEF DetectorInv
<1>2. QED BY <1>1, DetectorInvariant, PTL

\* The page's history of a queue holds the unbroken readings of the window and the one before
\* it, and what the page makes of it never contradicts the detector (record, assessQueue,
\* zeroAckSeconds; updateQueues).
THEOREM WindowHonest == DetectorSpec => []WindowIsHonest
<1>1. DetectorInv => WindowIsHonest
  BY WindowProved DEF DetectorInv
<1>2. QED BY <1>1, DetectorInvariant, PTL

\* The events of services, datastores and dead-letter queues say what was read, for histories
\* of any length (_services_of, _platform_of, _datastores_of, _broker_of).
THEOREM TransitionsTold == DetectorSpec => []TransitionsAreTold
<1>1. DetectorInv => TransitionsAreTold
  BY StatusInvSafe DEF DetectorInv
<1>2. QED BY <1>1, DetectorInvariant, PTL

\* No acks are counted twice, however the scrapes overtake each other and whenever the broker
\* restarts (RateTracker, get_queue_info).
THEOREM RatesCounted == DetectorSpec => []RatesCountOnce
<1>1. DetectorInv => RatesCountOnce
  BY RateInvSafe DEF DetectorInv
<1>2. QED BY <1>1, DetectorInvariant, PTL

\* The jobs shown are at most a cache's life old, and those of the loop never go back, any number
\* of collections that queue for the connection (get_job_status, _embeddings_job).
THEOREM JobsCurrent == DetectorSpec => []JobsAreCurrent
<1>1. DetectorInv => JobsAreCurrent
  BY JobInvSafe DEF DetectorInv
<1>2. QED BY <1>1, DetectorInvariant, PTL

\* The gauges of one export agree, through refreshes, restarts and shutdown
\* (_Neo4jGaugeSource).
THEOREM GaugesAgree == DetectorSpec => []GaugesShareOneReading
<1>1. DetectorInv => GaugesShareOneReading
  BY GaugeInvSafe DEF DetectorInv
<1>2. QED BY <1>1, DetectorInvariant, PTL
=============================================================================
