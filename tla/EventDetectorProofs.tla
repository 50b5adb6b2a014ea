------------------------ MODULE EventDetectorProofs ------------------------
(***************************************************************************)
(* The invariants of the event detector (EventDetector in                  *)
(* dashboard/events.py): the conditions and events of a work queue, over   *)
(* the history of its readings (QueueHistory), the page's history of the   *)
(* same readings (QueueWindow), and the transitions of services,           *)
(* datastores and dead-letter queues (StatusEvents).  Detector runs them;  *)
(* DetectorProofs states the theorems about its specification.             *)
(***************************************************************************)
EXTENDS QueueWindow, StatusEvents, FiniteSetTheorems, FunctionTheorems, SequenceTheorems, TLAPS

(* The condition and the events of a work queue *)

\* What a reading may make of a queue, and the event it may be given.
Verdicts == {"none", "no-consumer", "awaiting-marker", "stalled"}
News == {"none", "no-consumer", "stalled", "recovered", "None"}

\* What a scrape may say of a queue, and what the history keeps of one.
Said == [scraped : BOOLEAN, present : BOOLEAN, backlog : BOOLEAN, consumed : BOOLEAN,
         acks : {"zero", "flowing", "unknown"}, listed : BOOLEAN]
Entries == [r : Said, at : Nat, condition : Verdicts, event : News]

\* The registers and the history; each reading is later than the one before.
HistoryTypes ==
  /\ past \in Seq(Entries) /\ QueueTypeOK
  /\ \A i, j \in 1..Len(past) : i < j => past[i].at < past[j].at

\* The last listed reading, and the two runs that the registers time.
IsLast(m) == m \in Listed /\ \A j \in Listed : j <= m
ZeroRun(i) == Run(i, ZeroAcks, GapTime)
WaitRun(i) == \A j \in Listed : j >= i => Waiting(past[j].r)

\* The registers remember the last listed reading, and nothing across a failed scrape.
Remembered ==
  /\ seenAt = None => Listed = {} /\ zeroSince = None /\ awaitingSince = None /\ reported = None
  /\ seenAt # None => \E m \in Listed : /\ IsLast(m) /\ seenAt = past[m].at
                                        /\ reported = KindOf(past[m].condition)

\* A register that is set holds the time of the first reading of its run, and one that is
\* not set means that there is no such run.
RunsCounted ==
  /\ zeroSince = None => \A i \in Listed : ~ZeroRun(i)
  /\ zeroSince # None => \E i \in Listed : /\ past[i].at = zeroSince /\ ZeroRun(i)
                                           /\ \A k \in Listed : ZeroRun(k) => i <= k
  /\ awaitingSince = None => \A i \in Listed : ~WaitRun(i)
  /\ awaitingSince # None => \E i \in Listed : /\ past[i].at = awaitingSince /\ WaitRun(i)
                                               /\ \A k \in Listed : WaitRun(k) => i <= k

\* From some reading on, the queue has had the condition the detector knows of, no event was
\* raised since, and that reading is the first listed one, or was well, or was announced.
Announced ==
  Listed # {} => \E i \in Listed :
    /\ \A j \in Listed : j >= i => KindOf(past[j].condition) = reported
    /\ \A j \in Listed : j > i => past[j].event = "none"
    /\ (\A j \in Listed : j >= i) \/ reported = "healthy" \/ past[i].event = reported

\* The condition is the verdict of the rules on the last reading and the registers.
Judged ==
  /\ past = <<>> => condition = "none"
  /\ past # <<>> =>
       /\ condition = Latest.condition
       /\ ~(Latest.r.scraped /\ Latest.r.present) => condition = "none"
       /\ Latest.r.scraped /\ Latest.r.present =>
            condition = ConditionOf(Latest.r,
                          IF zeroSince = None THEN 0 ELSE Latest.at - zeroSince,
                          IF awaitingSince = None THEN None ELSE Latest.at - awaitingSince)

\* The inductive invariant of the queue rules: ConditionIsReal speaks of runs of readings, which
\* no register holds, so the invariant ties each register to the readings it sums up.
HistoryInv == HistoryTypes /\ Remembered /\ RunsCounted /\ Announced /\ Judged

\* Whatever the broker answers is a reading of the set the proofs quantify over.
LEMMA ReadingsSaid == Readings \subseteq Said
<1>1. \A b, c, l \in BOOLEAN, a \in {"zero", "flowing", "unknown"} : Scrape(b, c, a, l) \in Said
  BY DEF Scrape, Said
<1>2. Scrape(FALSE, FALSE, "unknown", FALSE) \in Said
  BY <1>1
<1>3. Missing \in Said
  BY <1>2 DEF Missing, Said
<1>4. Outage \in Said
  BY <1>3 DEF Outage, Said
<1>5. ASSUME NEW r \in Readings PROVE r \in Said
  <2>1. \/ r = Missing \/ r = Outage
        \/ \E b, c, l \in BOOLEAN, a \in {"zero", "flowing", "unknown"} : r = Scrape(b, c, a, l)
    <3>1. CASE r \in {Missing, Outage}
      BY <3>1
    <3>2. CASE r \in {Scrape(FALSE, TRUE, acks, FALSE) : acks \in {"zero", "unknown"}}
      BY <3>2
    <3>3. CASE r \in {Scrape(TRUE, TRUE, acks, FALSE) : acks \in {"zero", "flowing", "unknown"}}
      BY <3>3
    <3>4. CASE r \in {Scrape(TRUE, FALSE, acks, listed) : acks \in {"zero", "unknown"},
                                                          listed \in BOOLEAN}
      <4>1. PICK acks \in {"zero", "unknown"}, listed \in BOOLEAN :
              r = Scrape(TRUE, FALSE, acks, listed)
        BY <3>4 DEF Scrape
      <4>2. QED BY <4>1
    <3>5. QED BY <1>5, <3>1, <3>2, <3>3, <3>4 DEF Readings, Scrape
  <2>2. QED BY <2>1, <1>1, <1>3, <1>4
<1>6. QED BY <1>5

\* What the types say of a history: times, listed readings and their order.
LEMMA HistoryFields ==
  ASSUME HistoryTypes
  PROVE  /\ Len(past) \in Nat /\ DOMAIN past = 1..Len(past) /\ Clock \in Nat
         /\ \A i \in 1..Len(past) :
              /\ past[i].at \in Nat /\ past[i].at <= Clock
              /\ past[i].r \in Said /\ past[i].condition \in Verdicts
         /\ Listed \subseteq 1..Len(past)
         /\ \A i \in Listed : past[i].r.scraped /\ past[i].r.present
         /\ \A i, j \in Listed : i < j => past[i].at < past[j].at
         /\ \A i, j \in Listed : i <= j => past[i].at <= past[j].at
         /\ past = <<>> <=> Len(past) = 0
<1>1. Len(past) \in Nat /\ DOMAIN past = 1..Len(past) /\ (past = <<>> <=> Len(past) = 0)
  BY DEF HistoryTypes
<1>2. \A i \in 1..Len(past) : past[i] \in Entries
  BY DEF HistoryTypes
<1>3. \A e \in Entries : e.at \in Nat /\ e.r \in Said /\ e.condition \in Verdicts
  BY DEF Entries
<1>4. \A i, j \in 1..Len(past) : i <= j => past[i].at <= past[j].at
  BY <1>2, <1>3 DEF HistoryTypes
<1>5. Clock \in Nat /\ \A i \in 1..Len(past) : past[i].at <= Clock
  BY <1>1, <1>2, <1>3, <1>4 DEF Clock
<1>6. Listed \subseteq 1..Len(past) /\ \A i \in Listed : past[i].r.scraped /\ past[i].r.present
  BY <1>1 DEF Listed
<1>7. QED BY <1>1, <1>2, <1>3, <1>4, <1>5, <1>6 DEF HistoryTypes

\* One reading more: the history grows at its end, and the listed readings with it, unless the
\* scrape failed, which leaves none.
LEMMA Appended ==
  ASSUME HistoryTypes, NEW e \in Entries, past' = Append(past, e), past # <<>> => e.at > Clock
  PROVE  /\ past' \in Seq(Entries) /\ Len(past') = Len(past) + 1 /\ past' # <<>>
         /\ \A i \in 1..Len(past) : past'[i] = past[i]
         /\ past'[Len(past) + 1] = e /\ Latest' = e /\ Clock' = e.at
         /\ \A i, j \in 1..Len(past') : i < j => past'[i].at < past'[j].at
         /\ ~e.r.scraped => Listed' = {}
         /\ e.r.scraped /\ ~e.r.present => Listed' = Listed
         /\ e.r.scraped /\ e.r.present => Listed' = Listed \cup {Len(past) + 1}
<1>1. Len(past) \in Nat /\ past \in Seq(Entries)
  BY DEF HistoryTypes
<1>2. /\ past' \in Seq(Entries) /\ Len(past') = Len(past) + 1 /\ past' # <<>>
      /\ \A i \in 1..Len(past) : past'[i] = past[i]
      /\ past'[Len(past) + 1] = e /\ DOMAIN past' = 1..(Len(past) + 1)
  BY <1>1
<1>3. Latest' = e /\ Clock' = e.at
  BY <1>2 DEF Latest, Clock
<1>4. ASSUME NEW i \in 1..Len(past'), NEW j \in 1..Len(past'), i < j
      PROVE  past'[i].at < past'[j].at
  <2>1. i \in 1..Len(past)
    BY <1>1, <1>2, <1>4
  <2>2. CASE j \in 1..Len(past)
    BY <1>2, <1>4, <2>1, <2>2 DEF HistoryTypes
  <2>3. CASE j = Len(past) + 1
    <3>1. past[i].at <= Clock /\ past # <<>> /\ past[i].at \in Nat /\ Clock \in Nat
      BY <2>1, HistoryFields
    <3>2. e.at \in Nat
      BY DEF Entries
    <3>3. QED BY <1>2, <2>1, <2>3, <3>1, <3>2
  <2>4. QED BY <1>1, <1>2, <2>2, <2>3
<1>5. ASSUME NEW i
      PROVE  i \in Listed' <=> /\ i \in 1..(Len(past) + 1) /\ e.r.scraped
                               /\ i \in Listed \/ (i = Len(past) + 1 /\ e.r.present)
  <2>1. CASE i \in 1..Len(past)
    <3>1. DOMAIN past = 1..Len(past)
      BY <1>1
    <3>2. i..(Len(past) + 1) = i..Len(past) \cup {Len(past) + 1}
      BY <1>1, <2>1
    <3>3. i \in Listed' <=> /\ past'[i].r.present
                            /\ \A j \in i..(Len(past) + 1) : past'[j].r.scraped
      <4>1. i \in DOMAIN past' /\ Len(past') = Len(past) + 1
        BY <1>1, <1>2, <2>1
      <4>2. i \in Listed' <=> past'[i].r.present /\ \A j \in i..Len(past') : past'[j].r.scraped
        BY <4>1 DEF Listed
      <4>3. QED BY <4>1, <4>2
    <3>4. i \in Listed <=> past[i].r.present /\ \A j \in i..Len(past) : past[j].r.scraped
      BY <2>1, <3>1 DEF Listed
    <3>5. \A j \in i..Len(past) : past'[j] = past[j]
      BY <1>1, <1>2, <2>1
    <3>6. QED BY <1>1, <1>2, <2>1, <3>2, <3>3, <3>4, <3>5
  <2>2. CASE i = Len(past) + 1
    <3>1. i \notin Listed
      BY <1>1, <2>2 DEF Listed
    <3>2. i..(Len(past) + 1) = {i}
      BY <1>1, <2>2
    <3>3. QED BY <1>1, <1>2, <2>2, <3>1, <3>2 DEF Listed
  <2>3. CASE i \notin 1..(Len(past) + 1)
    BY <1>2, <2>3 DEF Listed
  <2>4. QED BY <1>1, <2>1, <2>2, <2>3
<1>6. Listed \subseteq 1..(Len(past) + 1)
  BY <1>1 DEF Listed
<1>7. CASE ~e.r.scraped
  <2>1. Listed' = {}
    BY <1>5, <1>7
  <2>2. QED BY <1>2, <1>3, <1>4, <1>7, <2>1
<1>8. CASE e.r.scraped /\ ~e.r.present
  <2>1. Listed' = Listed
    BY <1>5, <1>6, <1>8
  <2>2. QED BY <1>2, <1>3, <1>4, <1>8, <2>1
<1>9. CASE e.r.scraped /\ e.r.present
  <2>1. Listed' = Listed \cup {Len(past) + 1}
    <3>1. ASSUME NEW i \in Listed' PROVE i \in Listed \cup {Len(past) + 1}
      BY <1>5, <3>1
    <3>2. ASSUME NEW i \in Listed PROVE i \in Listed'
      BY <1>5, <1>6, <1>9, <3>2
    <3>3. Len(past) + 1 \in 1..(Len(past) + 1)
      BY <1>1
    <3>4. Len(past) + 1 \in Listed'
      BY <1>5, <1>9, <3>3
    <3>5. QED BY <3>1, <3>2, <3>4
  <2>2. QED BY <1>2, <1>3, <1>4, <1>9, <2>1
<1>10. QED BY <1>7, <1>8, <1>9

\* A run goes on with a new reading exactly when that reading belongs to it and, for the acks,
\* is not too far from the one before; and the new reading alone is a run if it belongs to it.
LEMMA RunGrows ==
  ASSUME HistoryTypes, NEW e \in Entries, past' = Append(past, e), past # <<>> => e.at > Clock,
         e.r.scraped, e.r.present
  PROVE  /\ \A i : i = Len(past) + 1 => /\ ZeroRun(i)' <=> ZeroAcks(e.r)
                                        /\ WaitRun(i)' <=> Waiting(e.r)
         /\ \A i, m \in Listed : IsLast(m) =>
              /\ ZeroRun(i)' <=> /\ ZeroRun(i) /\ ZeroAcks(e.r)
                                 /\ e.at - past[m].at <= GapTime
              /\ WaitRun(i)' <=> WaitRun(i) /\ Waiting(e.r)
<1> DEFINE n == Len(past) + 1
<1>1. /\ Len(past) \in Nat /\ Listed \subseteq 1..Len(past)
      /\ \A i \in 1..Len(past) : past'[i] = past[i] /\ past[i].at \in Nat
      /\ past'[n] = e /\ Listed' = Listed \cup {n} /\ e.at \in Nat
  BY Appended, HistoryFields DEF Entries
<1>2. n \notin Listed /\ n \in Nat /\ \A i \in Listed : i < n /\ i \in Nat /\ past'[i] = past[i]
  BY <1>1
<1> HIDE DEF n
<1>3. ASSUME NEW i, i = n
      PROVE  (ZeroRun(i)' <=> ZeroAcks(e.r)) /\ (WaitRun(i)' <=> Waiting(e.r))
  <2>1. \A j \in Listed' : j >= i => j = n
    BY <1>1, <1>2, <1>3
  <2>2. WaitRun(i)' <=> Waiting(e.r)
    <3>1. WaitRun(i)' <=> \A j \in Listed' : j >= i => Waiting(past'[j].r)
      BY DEF WaitRun
    <3>2. n \in Listed' /\ n >= i /\ past'[n].r = e.r
      BY <1>1, <1>2, <1>3
    <3>3. QED BY <2>1, <3>1, <3>2
  <2>3. ZeroRun(i)' <=> ZeroAcks(e.r)
    <3>1. ZeroRun(i)' <=>
            /\ \A j \in Listed' : j >= i => ZeroAcks(past'[j].r)
            /\ \A j, k \in Listed' : (i <= j /\ j < k /\ ~\E h \in Listed' : j < h /\ h < k)
                                       => past'[k].at - past'[j].at <= GapTime
      BY DEF ZeroRun, Run
    <3>2. /\ n \in Listed' /\ n >= i /\ past'[n].r = e.r
          /\ \A j, k \in Listed' : ~(i <= j /\ j < k)
      BY <1>1, <1>2, <1>3, <2>1
    <3>3. QED BY <2>1, <3>1, <3>2
  <2>4. QED BY <2>2, <2>3
<1>4. ASSUME NEW i \in Listed, NEW m \in Listed, IsLast(m)
      PROVE  /\ ZeroRun(i)' <=> ZeroRun(i) /\ ZeroAcks(e.r) /\ e.at - past[m].at <= GapTime
             /\ WaitRun(i)' <=> WaitRun(i) /\ Waiting(e.r)
  <2>1. i <= m /\ m < n /\ \A j \in Listed : j <= m
    BY <1>2, <1>4 DEF IsLast
  <2>2. WaitRun(i)' <=> WaitRun(i) /\ Waiting(e.r)
    <3>1. WaitRun(i)' <=> \A j \in Listed' : j >= i => Waiting(past'[j].r)
      BY DEF WaitRun
    <3>2. n \in Listed' /\ n >= i /\ past'[n].r = e.r /\ \A j \in Listed : past'[j].r = past[j].r
      BY <1>1, <1>2, <2>1
    <3>3. WaitRun(i) <=> \A j \in Listed : j >= i => Waiting(past[j].r)
      BY DEF WaitRun
    <3>4. QED BY <1>1, <3>1, <3>2, <3>3
  <2>3. ASSUME ZeroRun(i)' PROVE ZeroRun(i) /\ ZeroAcks(e.r) /\ e.at - past[m].at <= GapTime
    <3>1. /\ \A j \in Listed' : j >= i => ZeroAcks(past'[j].r)
          /\ \A j, k \in Listed' : (i <= j /\ j < k /\ ~\E h \in Listed' : j < h /\ h < k)
                                     => past'[k].at - past'[j].at <= GapTime
      BY <2>3 DEF ZeroRun, Run
    <3>2. ZeroAcks(e.r)
      <4>1. n \in Listed' /\ n >= i
        BY <1>1, <1>2, <2>1
      <4>2. ZeroAcks(past'[n].r)
        BY <3>1, <4>1
      <4>3. past'[n].r = e.r
        BY <1>1
      <4>4. QED BY <4>2, <4>3
    <3>3. e.at - past[m].at <= GapTime
      <4>1. ~\E h \in Listed' : m < h /\ h < n
        BY <1>1, <1>2, <2>1
      <4>2. QED BY <1>1, <1>2, <2>1, <3>1, <4>1
    <3>4. \A j \in Listed : j >= i => ZeroAcks(past[j].r)
      BY <1>1, <1>2, <3>1
    <3>5. ASSUME NEW j \in Listed, NEW k \in Listed, i <= j, j < k,
                 ~\E h \in Listed : j < h /\ h < k
          PROVE  past[k].at - past[j].at <= GapTime
      <4>1. ~\E h \in Listed' : j < h /\ h < k
        BY <1>1, <1>2, <3>5
      <4>2. QED BY <1>1, <1>2, <3>1, <3>5, <4>1
    <3>6. QED BY <3>2, <3>3, <3>4, <3>5 DEF ZeroRun, Run
  <2>4. ASSUME ZeroRun(i), ZeroAcks(e.r), e.at - past[m].at <= GapTime PROVE ZeroRun(i)'
    <3>1. /\ \A j \in Listed : j >= i => ZeroAcks(past[j].r)
          /\ \A j, k \in Listed : (i <= j /\ j < k /\ ~\E h \in Listed : j < h /\ h < k)
                                     => past[k].at - past[j].at <= GapTime
      BY <2>4 DEF ZeroRun, Run
    <3>2. \A j \in Listed' : j >= i => ZeroAcks(past'[j].r)
      BY <1>1, <1>2, <2>4, <3>1
    <3>3. ASSUME NEW j \in Listed', NEW k \in Listed', i <= j, j < k,
                 ~\E h \in Listed' : j < h /\ h < k
          PROVE  past'[k].at - past'[j].at <= GapTime
      <4>1. j \in Listed
        BY <1>1, <1>2, <3>3
      <4>2. CASE k \in Listed
        BY <1>1, <1>2, <3>1, <3>3, <4>1, <4>2
      <4>3. CASE k = n
        <5>1. j = m
          BY <1>1, <1>2, <2>1, <3>3, <4>1, <4>3
        <5>2. QED BY <1>1, <1>2, <2>4, <4>3, <5>1
      <4>4. QED BY <1>1, <4>2, <4>3
    <3>4. QED BY <3>2, <3>3 DEF ZeroRun, Run
  <2>5. QED BY <2>2, <2>3, <2>4
<1>5. QED BY <1>3, <1>4 DEF n

\* The first state satisfies the invariant of the queue rules.
LEMMA HistoryInvInit == HistoryInit => HistoryInv
<1> SUFFICES ASSUME HistoryInit PROVE HistoryInv
  OBVIOUS
<1> USE DEF HistoryInit, QueueInit
<1>1. Listed = {} /\ past = <<>>
  BY DEF Listed
<1>2. HistoryTypes
  <2>1. QueueTypeOK
    BY DEF QueueTypeOK
  <2>2. past \in Seq(Entries) /\ Len(past) = 0
    BY <1>1
  <2>3. QED BY <2>1, <2>2 DEF HistoryTypes
<1>3. Remembered /\ RunsCounted /\ Announced /\ Judged
  BY <1>1 DEF Remembered, RunsCounted, Announced, Judged
<1>4. QED BY <1>2, <1>3 DEF HistoryInv

\* A failed scrape, which forgets the queue, keeps the invariant (_work_queues_of).
LEMMA OutageKeeps ==
  ASSUME HistoryInv, NEW e \in Entries, past' = Append(past, e), past # <<>> => e.at > Clock,
         ~e.r.scraped, Forget, counted' \in BOOLEAN,
         e.condition = condition', e.event = event'
  PROVE  HistoryInv'
<1> USE DEF HistoryInv
<1>1. /\ past' \in Seq(Entries) /\ past' # <<>> /\ Latest' = e /\ Listed' = {}
      /\ \A i, j \in 1..Len(past') : i < j => past'[i].at < past'[j].at
  BY Appended
<1>2. HistoryTypes'
  BY <1>1 DEF HistoryTypes, QueueTypeOK, Forget
<1>3. Remembered' /\ RunsCounted' /\ Announced'
  BY <1>1 DEF Remembered, RunsCounted, Announced, Forget
<1>4. Judged'
  BY <1>1 DEF Judged, Forget
<1>5. QED BY <1>2, <1>3, <1>4

\* A scrape that does not list the queue keeps the invariant (_work_queues_of).
LEMMA MissingKeeps ==
  ASSUME HistoryInv, NEW e \in Entries, past' = Append(past, e), past # <<>> => e.at > Clock,
         e.r.scraped, ~e.r.present, counted' \in BOOLEAN,
         UNCHANGED <<seenAt, zeroSince, awaitingSince, reported>>,
         condition' = "none", event' = "none", e.condition = condition', e.event = event'
  PROVE  HistoryInv'
<1> USE DEF HistoryInv
<1>1. /\ past' \in Seq(Entries) /\ past' # <<>> /\ Latest' = e /\ Listed' = Listed
      /\ \A i, j \in 1..Len(past') : i < j => past'[i].at < past'[j].at
      /\ \A i \in Listed : past'[i] = past[i]
  BY Appended, HistoryFields
<1>2. HistoryTypes'
  BY <1>1 DEF HistoryTypes, QueueTypeOK
<1>3. \A m : IsLast(m)' <=> IsLast(m)
  BY <1>1 DEF IsLast
<1>4. ASSUME NEW i \in Listed PROVE (ZeroRun(i)' <=> ZeroRun(i)) /\ (WaitRun(i)' <=> WaitRun(i))
  <2>1. WaitRun(i)' <=> WaitRun(i)
    <3>1. WaitRun(i)' <=> \A j \in Listed' : j >= i => Waiting(past'[j].r)
      BY DEF WaitRun
    <3>2. QED BY <1>1, <3>1 DEF WaitRun
  <2>2. ZeroRun(i)' <=> ZeroRun(i)
    <3>1. ZeroRun(i)' <=>
            /\ \A j \in Listed' : j >= i => ZeroAcks(past'[j].r)
            /\ \A j, k \in Listed' : (i <= j /\ j < k /\ ~\E h \in Listed' : j < h /\ h < k)
                                       => past'[k].at - past'[j].at <= GapTime
      BY DEF ZeroRun, Run
    <3>2. QED BY <1>1, <3>1 DEF ZeroRun, Run
  <2>3. QED BY <2>1, <2>2
<1>5. Remembered'
  BY <1>1, <1>3 DEF Remembered
<1>6. RunsCounted'
  BY <1>1, <1>4 DEF RunsCounted
<1>7. Announced'
  <2>1. reported' = reported
    OBVIOUS
  <2>2. \A i \in Listed : /\ past'[i].condition = past[i].condition
                          /\ past'[i].event = past[i].event
    BY <1>1
  <2>3. CASE Listed = {}
    BY <1>1, <2>3 DEF Announced
  <2>4. CASE Listed # {}
    <3>1. PICK i \in Listed :
            /\ \A j \in Listed : j >= i => KindOf(past[j].condition) = reported
            /\ \A j \in Listed : j > i => past[j].event = "none"
            /\ (\A j \in Listed : j >= i) \/ reported = "healthy" \/ past[i].event = reported
      BY <2>4 DEF Announced
    <3>2. /\ \A j \in Listed' : j >= i => KindOf(past'[j].condition) = reported'
          /\ \A j \in Listed' : j > i => past'[j].event = "none"
          /\ (\A j \in Listed' : j >= i) \/ reported' = "healthy" \/ past'[i].event = reported'
      BY <1>1, <2>1, <2>2, <3>1
    <3>3. QED BY <1>1, <3>1, <3>2 DEF Announced
  <2>5. QED BY <2>3, <2>4
<1>8. Judged'
  BY <1>1 DEF Judged
<1>9. QED BY <1>2, <1>5, <1>6, <1>7, <1>8

\* A reading that lists the queue keeps the invariant: the registers are carried on or started
\* afresh, and the event is the one owed (_work_queues_of, _condition_of).
LEMMA AssessKeeps ==
  ASSUME HistoryInv, NEW e \in Entries, past' = Append(past, e), past # <<>> => e.at > Clock,
         e.r.scraped, e.r.present, counted' \in BOOLEAN,
         Assess(e.r, e.at), e.condition = condition', e.event = event'
  PROVE  HistoryInv'
<1> USE DEF HistoryInv
<1>0. Len(past) \in Nat
  BY HistoryFields
<1> SUFFICES ASSUME NEW n \in Nat, n = Len(past) + 1 PROVE HistoryInv'
  BY <1>0
<1>1. /\ past' \in Seq(Entries) /\ past' # <<>> /\ Latest' = e
      /\ \A i, j \in 1..Len(past') : i < j => past'[i].at < past'[j].at
      /\ past'[n] = e /\ Listed' = Listed \cup {n} /\ n \in Nat
      /\ \A i \in Listed : past'[i] = past[i] /\ i < n /\ i \in Nat
      /\ \A i \in Listed : past[i].at \in Nat
      /\ e.at \in Nat
  <2>1. e.at \in Nat /\ Listed \subseteq 1..Len(past)
        /\ \A i \in 1..Len(past) : i \in Nat /\ i < n /\ past[i].at \in Nat
    BY <1>0, HistoryFields DEF Entries
  <2>2. QED BY <2>1, Appended
<1>2. /\ (ZeroRun(n)' <=> ZeroAcks(e.r)) /\ (WaitRun(n)' <=> Waiting(e.r))
      /\ \A i, m \in Listed : IsLast(m) =>
           /\ ZeroRun(i)' <=> ZeroRun(i) /\ ZeroAcks(e.r) /\ e.at - past[m].at <= GapTime
           /\ WaitRun(i)' <=> WaitRun(i) /\ Waiting(e.r)
  BY RunGrows
<1>3. /\ seenAt' = e.at /\ zeroSince' = ZeroSince(e.r, e.at)
      /\ awaitingSince' = AwaitingSince(e.r, e.at)
      /\ condition' = ConditionOf(e.r, IF zeroSince' = None THEN 0 ELSE e.at - zeroSince',
                            IF awaitingSince' = None THEN None ELSE e.at - awaitingSince')
      /\ reported' = KindOf(e.condition) /\ event' = EventOf(e.condition)
      /\ e.at # None
  BY <1>1, ConditionAssumption DEF Assess
<1>4. e.condition \in Verdicts /\ e.event \in News
  BY DEF Entries
<1>5. HistoryTypes'
  <2>1. QueueTypeOK'
    BY <1>1, <1>3, <1>4
    DEF QueueTypeOK, HistoryTypes, ZeroSince, AwaitingSince, KindOf, Verdicts, News
  <2>2. QED BY <1>1, <2>1 DEF HistoryTypes
<1>6. IsLast(n)'
  BY <1>1 DEF IsLast
<1>7. Remembered'
  <2>1. \E m \in Listed' : IsLast(m)' /\ seenAt' = past'[m].at
                           /\ reported' = KindOf(past'[m].condition)
    BY <1>1, <1>3, <1>6
  <2>2. QED BY <1>3, <2>1 DEF Remembered
<1>8. (seenAt = None /\ Listed = {} /\ zeroSince = None /\ awaitingSince = None /\ reported = None)
      \/ \E m \in Listed : IsLast(m) /\ seenAt = past[m].at /\ seenAt # None
  BY DEF Remembered
<1>9. /\ zeroSince' = None => \A i \in Listed' : ~ZeroRun(i)'
      /\ zeroSince' # None => \E i \in Listed' : /\ past'[i].at = zeroSince' /\ ZeroRun(i)'
                                                 /\ \A k \in Listed' : ZeroRun(k)' => i <= k
  <2>1. CASE ~ZeroAcks(e.r)
    <3>1. zeroSince' = None
      BY <1>3, <2>1 DEF ZeroSince, ZeroAcks
    <3>2. \A i \in Listed' : ~ZeroRun(i)'
      BY <1>1, <1>2, <1>8, <2>1
    <3>3. QED BY <3>1, <3>2
  <2>2. CASE ZeroAcks(e.r) /\ zeroSince' = e.at /\ \A k \in Listed : ~ZeroRun(k)'
    BY <1>1, <1>2, <1>3, <2>2
  <2>3. CASE /\ ZeroAcks(e.r)
             /\ seenAt = None \/ e.at - seenAt > GapTime \/ zeroSince = None
    <3>1. zeroSince' = e.at
      BY <1>3, <1>8, <2>3 DEF ZeroSince, ZeroAcks
    <3>2. \A k \in Listed : ~ZeroRun(k)'
      BY <1>1, <1>2, <1>8, <2>3, ConditionAssumption DEF RunsCounted
    <3>3. QED BY <2>2, <2>3, <3>1, <3>2
  <2>4. CASE /\ ZeroAcks(e.r)
             /\ ~(seenAt = None \/ e.at - seenAt > GapTime \/ zeroSince = None)
    <3>1. zeroSince' = zeroSince
      BY <1>3, <2>4 DEF ZeroSince, ZeroAcks
    <3>2. PICK m \in Listed : IsLast(m) /\ seenAt = past[m].at
      BY <1>8, <2>4
    <3>3. e.at - past[m].at <= GapTime
      BY <1>1, <2>4, <3>2, ConditionAssumption
    <3>4. PICK i \in Listed : /\ past[i].at = zeroSince /\ ZeroRun(i)
                              /\ \A k \in Listed : ZeroRun(k) => i <= k
      BY <2>4 DEF RunsCounted
    <3>5. ZeroRun(i)' /\ \A k \in Listed : ZeroRun(k)' => i <= k
      BY <1>2, <2>4, <3>2, <3>3, <3>4
    <3>6. \A k \in Listed' : ZeroRun(k)' => i <= k
      BY <1>1, <3>5
    <3>7. i \in Listed' /\ past'[i].at = zeroSince' /\ zeroSince' # None
      BY <1>1, <2>4, <3>1, <3>4
    <3>8. QED BY <3>5, <3>6, <3>7
  <2>5. QED BY <2>1, <2>3, <2>4
<1>10. /\ awaitingSince' = None => \A i \in Listed' : ~WaitRun(i)'
       /\ awaitingSince' # None =>
            \E i \in Listed' : /\ past'[i].at = awaitingSince' /\ WaitRun(i)'
                               /\ \A k \in Listed' : WaitRun(k)' => i <= k
  <2>1. CASE ~Waiting(e.r)
    <3>1. awaitingSince' = None
      BY <1>3, <2>1 DEF AwaitingSince, Waiting, Orphaned
    <3>2. \A i \in Listed' : ~WaitRun(i)'
      BY <1>1, <1>2, <1>8, <2>1
    <3>3. QED BY <3>1, <3>2
  <2>2. CASE Waiting(e.r) /\ awaitingSince = None
    <3>1. awaitingSince' = e.at
      BY <1>3, <2>2 DEF AwaitingSince, Waiting, Orphaned
    <3>2. \A k \in Listed : ~WaitRun(k)'
      BY <1>1, <1>2, <1>8, <2>2 DEF RunsCounted
    <3>3. QED BY <1>1, <1>2, <1>3, <2>2, <3>1, <3>2
  <2>3. CASE Waiting(e.r) /\ awaitingSince # None
    <3>1. awaitingSince' = awaitingSince
      BY <1>3, <2>3 DEF AwaitingSince, Waiting, Orphaned
    <3>2. PICK i \in Listed : /\ past[i].at = awaitingSince /\ WaitRun(i)
                              /\ \A k \in Listed : WaitRun(k) => i <= k
      BY <2>3 DEF RunsCounted
    <3>3. WaitRun(i)' /\ \A k \in Listed : WaitRun(k)' => i <= k
      BY <1>2, <1>8, <2>3, <3>2
    <3>4. \A k \in Listed' : WaitRun(k)' => i <= k
      BY <1>1, <3>3
    <3>5. i \in Listed' /\ past'[i].at = awaitingSince' /\ awaitingSince' # None
      BY <1>1, <2>3, <3>1, <3>2
    <3>6. QED BY <3>3, <3>4, <3>5
  <2>4. QED BY <2>1, <2>2, <2>3
<1>11. RunsCounted'
  BY <1>9, <1>10 DEF RunsCounted
<1>12. Announced'
  <2>1. CASE Listed = {}
    BY <1>1, <1>3, <2>1 DEF Announced
  <2>2. CASE Listed # {} /\ KindOf(e.condition) = reported
    <3>1. PICK i \in Listed :
            /\ \A j \in Listed : j >= i => KindOf(past[j].condition) = reported
            /\ \A j \in Listed : j > i => past[j].event = "none"
            /\ (\A j \in Listed : j >= i) \/ reported = "healthy" \/ past[i].event = reported
      BY <2>2 DEF Announced
    <3>2. e.event = "none" /\ reported' = reported
      BY <1>3, <2>2 DEF EventOf
    <3>3. \A j \in Listed' : j >= i => KindOf(past'[j].condition) = reported'
      BY <1>1, <2>2, <3>1, <3>2
    <3>4. \A j \in Listed' : j > i => past'[j].event = "none"
      BY <1>1, <3>1, <3>2
    <3>5. (\A j \in Listed' : j >= i) \/ reported' = "healthy" \/ past'[i].event = reported'
      BY <1>1, <3>1, <3>2
    <3>6. i \in Listed'
      BY <1>1
    <3>7. QED BY <3>3, <3>4, <3>5, <3>6 DEF Announced
  <2>3. CASE Listed # {} /\ KindOf(e.condition) # reported
    <3>1. reported # None
      <4>1. PICK m \in Listed : reported = KindOf(past[m].condition)
        BY <1>8, <2>3 DEF Remembered
      <4>2. past[m].condition \in Verdicts
        BY HistoryFields
      <4>3. QED BY <4>1, <4>2, ConditionAssumption DEF KindOf, Verdicts
    <3>2. reported' = "healthy" \/ e.event = reported'
      BY <1>3, <1>4, <2>3, <3>1 DEF EventOf, KindOf, Verdicts
    <3>3. /\ \A j \in Listed' : j >= n => KindOf(past'[j].condition) = reported'
          /\ \A j \in Listed' : j > n => past'[j].event = "none"
          /\ reported' = "healthy" \/ past'[n].event = reported'
          /\ n \in Listed'
      BY <1>1, <1>3, <3>2
    <3>4. QED BY <3>3 DEF Announced
  <2>4. QED BY <2>1, <2>2, <2>3
<1>13. Judged'
  BY <1>1, <1>3 DEF Judged
<1>14. QED BY <1>5, <1>7, <1>11, <1>12, <1>13

\* Every step of the queue rules keeps their invariant.
LEMMA HistoryInvStep == HistoryInv /\ [HistoryNext]_historyVars => HistoryInv'
<1> SUFFICES ASSUME HistoryInv, [HistoryNext]_historyVars PROVE HistoryInv'
  OBVIOUS
<1>1. ASSUME NEW r \in Readings, NEW gap \in IF past = <<>> THEN {0} ELSE Gaps,
             Observe(r, Clock + gap),
             past' = Append(past, [r |-> r, at |-> Clock + gap,
                                   condition |-> condition', event |-> event'])
      PROVE  HistoryInv'
  <2> DEFINE e == [r |-> r, at |-> Clock + gap, condition |-> condition', event |-> event']
  <2>1. r \in Said /\ Clock \in Nat /\ gap \in Nat /\ (past # <<>> => gap > 0)
    BY <1>1, ReadingsSaid, HistoryFields, HistoryAssumption DEF HistoryInv
  <2>2. condition' \in Verdicts /\ event' \in News
    <3>1. CASE Forget \/ (condition' = "none" /\ event' = "none")
      BY <3>1 DEF Forget, Verdicts, News
    <3>2. CASE Assess(r, Clock + gap)
      <4>1. \A z, w : ConditionOf(r, z, w) \in Verdicts
        BY DEF ConditionOf, Verdicts
      <4>2. condition' \in Verdicts /\ event' = EventOf(condition')
        BY <3>2, <4>1 DEF Assess
      <4>3. QED BY <4>2 DEF EventOf, Verdicts, News, KindOf
    <3>3. QED BY <1>1, <3>1, <3>2 DEF Observe
  <2>3. e \in Entries
    BY <2>1, <2>2 DEF Entries
  <2>4. /\ e.r = r /\ e.at = Clock + gap /\ e.condition = condition' /\ e.event = event'
        /\ past' = Append(past, e) /\ (past # <<>> => e.at > Clock)
    BY <1>1, <2>1
  <2> HIDE DEF e
  <2>5. counted' \in BOOLEAN /\ r.scraped \in BOOLEAN /\ r.present \in BOOLEAN
    BY <1>1, <2>1 DEF Observe, Counted, Said, HistoryInv, HistoryTypes, QueueTypeOK
  <2>6. CASE ~r.scraped
    <3>1. Forget
      BY <1>1, <2>6 DEF Observe
    <3>2. QED BY <2>3, <2>4, <2>5, <2>6, <3>1, OutageKeeps
  <2>7. CASE r.scraped /\ r.present
    <3>1. Assess(e.r, e.at)
      BY <1>1, <2>4, <2>7 DEF Observe
    <3>2. QED BY <2>3, <2>4, <2>5, <2>7, <3>1, AssessKeeps
  <2>8. CASE r.scraped /\ ~r.present
    <3>1. /\ UNCHANGED <<seenAt, zeroSince, awaitingSince, reported>>
          /\ condition' = "none" /\ event' = "none"
      BY <1>1, <2>8 DEF Observe
    <3>2. QED BY <2>3, <2>4, <2>5, <2>8, <3>1, MissingKeeps
  <2>9. QED BY <2>5, <2>6, <2>7, <2>8
<1>2. CASE UNCHANGED historyVars
  <2> USE <1>2 DEF HistoryInv, historyVars, queueVars
  <2>1. Listed' = Listed /\ Latest' = Latest
    BY DEF Listed, Latest
  <2>2. HistoryTypes'
    BY DEF HistoryTypes, QueueTypeOK
  <2>3. ASSUME NEW i \in Listed
        PROVE  (ZeroRun(i)' <=> ZeroRun(i)) /\ (WaitRun(i)' <=> WaitRun(i))
               /\ (IsLast(i)' <=> IsLast(i))
    BY <2>1 DEF ZeroRun, WaitRun, Run, IsLast
  <2>4. Remembered' /\ RunsCounted'
    BY <2>1, <2>3 DEF Remembered, RunsCounted
  <2>5. Announced' /\ Judged'
    BY <2>1 DEF Announced, Judged
  <2>6. QED BY <2>2, <2>4, <2>5
<1>3. QED BY <1>1, <1>2 DEF HistoryNext

\* The invariant says when a queue is stalled and when it is excused (_condition_of).
LEMMA ConditionProved == HistoryInv => ConditionIsReal
<1> SUFFICES ASSUME HistoryInv PROVE ConditionIsReal
  OBVIOUS
<1> USE DEF HistoryInv
<1>1. CASE ~(past # <<>> /\ Latest.r.scraped /\ Latest.r.present)
  <2>1. condition = "none"
    BY <1>1 DEF Judged
  <2>2. ~Now(Consumed) /\ ~Now(Orphaned)
    BY <1>1 DEF Now
  <2>3. QED BY <2>1, <2>2 DEF ConditionIsReal
<1>2. CASE past # <<>> /\ Latest.r.scraped /\ Latest.r.present
  <2> DEFINE n == Len(past)
  <2>1. n \in 1..Len(past) /\ Latest = past[n] /\ Latest.at \in Nat /\ Clock = Latest.at
    BY <1>2, HistoryFields DEF Latest, Clock
  <2>2. n \in Listed /\ \A i \in Listed : i <= n
    <3>1. \A j \in n..Len(past) : j = n
      BY <2>1
    <3>2. QED BY <1>2, <2>1, <3>1, HistoryFields DEF Listed
  <2>3. /\ \A i \in Listed : past[i].at \in Nat /\ past[i].at <= Latest.at /\ i <= n
        /\ \A i, j \in Listed : i <= j => past[i].at <= past[j].at
    BY <2>1, <2>2, HistoryFields
  <2> HIDE DEF n
  <2>4. condition = ConditionOf(Latest.r, IF zeroSince = None THEN 0 ELSE Latest.at - zeroSince,
                                IF awaitingSince = None THEN None ELSE Latest.at - awaitingSince)
    BY <1>2 DEF Judged
  <2>5. /\ Now(Consumed) <=> Latest.r.backlog /\ Latest.r.consumed
        /\ Now(Orphaned) <=> Latest.r.backlog /\ ~Latest.r.consumed
        /\ Now(Waiting) <=> Latest.r.backlog /\ ~Latest.r.consumed /\ Latest.r.listed
    BY <1>2 DEF Now, Consumed, Orphaned, Waiting
  <2>6. Lasted(ZeroAcks, GapTime, StallTime)
          <=> zeroSince # None /\ Latest.at - zeroSince >= StallTime
    <3>1. Lasted(ZeroAcks, GapTime, StallTime)
            <=> \E i \in Listed : ZeroRun(i) /\ Latest.at - past[i].at >= StallTime
      BY DEF Lasted, ZeroRun
    <3>2. CASE zeroSince = None
      BY <3>1, <3>2 DEF RunsCounted
    <3>3. CASE zeroSince # None
      <4>1. PICK i \in Listed : past[i].at = zeroSince /\ ZeroRun(i)
                                /\ \A k \in Listed : ZeroRun(k) => i <= k
        BY <3>3 DEF RunsCounted
      <4>2. \A k \in Listed : ZeroRun(k) => past[k].at >= zeroSince
        BY <2>3, <4>1
      <4>3. QED BY <2>1, <2>3, <3>1, <3>3, <4>1, <4>2, ConditionAssumption
    <3>4. QED BY <3>2, <3>3
  <2>7. Lasted(Waiting, Forever, MarkerTime)
          <=> awaitingSince # None /\ Latest.at - awaitingSince >= MarkerTime
    <3>1. ASSUME NEW i \in Listed PROVE Run(i, Waiting, Forever) <=> WaitRun(i)
      <4>1. \A j, k \in Listed : past[k].at - past[j].at <= Forever
        BY <2>1, <2>3 DEF Forever
      <4>2. QED BY <4>1 DEF Run, WaitRun
    <3>2. Lasted(Waiting, Forever, MarkerTime)
            <=> \E i \in Listed : WaitRun(i) /\ Latest.at - past[i].at >= MarkerTime
      BY <3>1 DEF Lasted
    <3>3. CASE awaitingSince = None
      BY <3>2, <3>3 DEF RunsCounted
    <3>4. CASE awaitingSince # None
      <4>1. PICK i \in Listed : past[i].at = awaitingSince /\ WaitRun(i)
                                /\ \A k \in Listed : WaitRun(k) => i <= k
        BY <3>4 DEF RunsCounted
      <4>2. \A k \in Listed : WaitRun(k) => past[k].at >= awaitingSince
        BY <2>3, <4>1
      <4>3. QED BY <2>1, <2>3, <3>2, <3>4, <4>1, <4>2, ConditionAssumption
    <3>5. QED BY <3>3, <3>4
  <2>8. condition = "stalled" <=> Now(Consumed) /\ Lasted(ZeroAcks, GapTime, StallTime)
    BY <2>4, <2>5, <2>6, ConditionAssumption DEF ConditionOf
  <2>9. Now(Orphaned) => (condition = "awaiting-marker"
          <=> awaitingSince # None /\ ~(Latest.at - awaitingSince >= MarkerTime))
    <3>1. awaitingSince # None => Latest.at - awaitingSince \in Int
                                   /\ Latest.at - awaitingSince # None
      BY <2>1, ConditionAssumption DEF HistoryTypes, QueueTypeOK
    <3>2. QED BY <2>4, <2>5, <3>1, ConditionAssumption DEF ConditionOf
  <2>10. Now(Waiting) <=> awaitingSince # None
    <3>1. WaitRun(n) <=> Waiting(past[n].r)
      <4>1. \A j \in Listed : j >= n => j = n
        BY <2>1, <2>3, HistoryFields DEF n
      <4>2. n >= n
        BY <2>1, HistoryFields DEF n
      <4>3. QED BY <2>2, <4>1, <4>2 DEF WaitRun
    <3>2. Now(Waiting) <=> Waiting(past[n].r)
      BY <1>2, <2>1 DEF Now
    <3>3. CASE awaitingSince = None
      BY <2>2, <3>1, <3>2, <3>3 DEF RunsCounted
    <3>4. CASE awaitingSince # None
      <4>1. PICK i \in Listed : WaitRun(i)
        BY <3>4 DEF RunsCounted
      <4>2. Waiting(past[n].r)
        BY <2>2, <4>1, HistoryFields DEF WaitRun, n
      <4>3. QED BY <3>2, <3>4, <4>2
    <3>5. QED BY <3>3, <3>4
  <2>11. QED BY <2>7, <2>8, <2>9, <2>10 DEF ConditionIsReal
<1>3. QED BY <1>1, <1>2

\* The invariant says that a problem was announced (_work_queues_of).
LEMMA AnnouncementProved == HistoryInv => ProblemsAreAnnounced
<1> SUFFICES ASSUME HistoryInv, condition \in {"no-consumer", "stalled"},
                    NEW h \in Listed, past[h].condition # condition
             PROVE  \E i \in Listed : /\ past[i].event = condition
                                      /\ \A j \in Listed : j > i => past[j].event = "none"
  BY DEF ProblemsAreAnnounced
<1> USE DEF HistoryInv
<1>1. PICK i \in Listed :
        /\ \A j \in Listed : j >= i => KindOf(past[j].condition) = reported
        /\ \A j \in Listed : j > i => past[j].event = "none"
        /\ (\A j \in Listed : j >= i) \/ reported = "healthy" \/ past[i].event = reported
  BY DEF Announced
<1>2. past # <<>> /\ Latest.r.scraped /\ Latest.r.present /\ condition = Latest.condition
  BY DEF Judged
<1>3. PICK n \in Listed : IsLast(n) /\ past[n].condition = condition /\ n >= i
  <2> DEFINE n == Len(past)
  <2>1. n \in 1..Len(past) /\ Latest = past[n] /\ \A j \in n..Len(past) : j = n
    BY <1>2, HistoryFields DEF Latest
  <2>2. n \in Listed /\ \A j \in Listed : j <= n
    BY <1>2, <2>1, HistoryFields DEF Listed
  <2>3. n >= i
    BY <2>2, HistoryFields
  <2>4. QED BY <1>2, <2>1, <2>2, <2>3 DEF IsLast
<1>4. reported = condition /\ reported # "healthy"
  BY <1>1, <1>3 DEF KindOf
<1>5. ~(h >= i)
  <2>1. past[h].condition \in Verdicts
    BY HistoryFields
  <2>2. QED BY <1>1, <1>4, <2>1 DEF KindOf
<1>6. QED BY <1>1, <1>4, <1>5
-----------------------------------------------------------------------------
(* The page's window *)

\* A finite set of numbers has a greatest element: the number of those above it tells the
\* elements apart, so that one of them has none above it.
LEMMA HasGreatest ==
  ASSUME NEW S \in SUBSET Int, IsFiniteSet(S), S # {}
  PROVE  \E x \in S : \A y \in S : x >= y
<1> DEFINE Above(x) == {y \in S : y > x}
           n == Cardinality(S)
           f == [x \in S |-> Cardinality(Above(x))]
<1>1. n \in Nat \ {0}
  BY FS_CardinalityType, FS_EmptySet
<1>2. \A x \in S : /\ IsFiniteSet(Above(x)) /\ Cardinality(Above(x)) \in 0..(n - 1)
  <2>1. ASSUME NEW x \in S
        PROVE  IsFiniteSet(Above(x)) /\ Cardinality(Above(x)) \in 0..(n - 1)
    <3>1. Above(x) \in SUBSET S /\ x \notin Above(x)
      OBVIOUS
    <3> HIDE DEF Above
    <3>2. IsFiniteSet(Above(x)) /\ Cardinality(Above(x)) <= n /\ Cardinality(Above(x)) # n
      BY <3>1, FS_Subset
    <3>3. Cardinality(Above(x)) \in Nat
      BY <3>2, FS_CardinalityType
    <3>4. QED BY <1>1, <3>2, <3>3
  <2>2. QED BY <2>1
<1>3. ASSUME NEW x \in S, NEW z \in S, x < z PROVE Cardinality(Above(x)) # Cardinality(Above(z))
  <2>1. Above(z) \in SUBSET Above(x) /\ z \in Above(x) /\ z \notin Above(z)
    <3>1. x \in Int /\ z \in Int /\ \A y \in S : y \in Int
      OBVIOUS
    <3>2. \A y \in S : y > z => y > x
      BY <1>3, <3>1
    <3>3. z > x /\ ~(z > z)
      BY <1>3, <3>1
    <3>4. QED BY <3>2, <3>3
  <2> HIDE DEF Above
  <2>2. QED BY <1>2, <2>1, FS_Subset
<1>4. f \in Injection(S, 0..(n - 1))
  <2>1. \A x, z \in S : x # z => Cardinality(Above(x)) # Cardinality(Above(z))
    <3>1. ASSUME NEW x \in S, NEW z \in S, x # z
          PROVE  Cardinality(Above(x)) # Cardinality(Above(z))
      <4>1. x < z \/ z < x
        BY <3>1
      <4> HIDE DEF Above
      <4>2. QED BY <1>3, <4>1
    <3>2. QED BY <3>1
  <2> HIDE DEF Above
  <2>2. f \in [S -> 0..(n - 1)] /\ \A x, z \in S : f[x] = f[z] => x = z
    BY <1>2, <2>1
  <2>3. QED BY <2>2, Fun_IsInj
<1>5. f \in Surjection(S, 0..(n - 1))
  <2>1. IsFiniteSet(0..(n - 1)) /\ Cardinality(0..(n - 1)) = n
    BY <1>1, FS_Interval
  <2>2. QED BY <1>4, <2>1, FS_Injection
<1>6. PICK x \in S : f[x] = 0
  <2>1. 0 \in 0..(n - 1)
    BY <1>1
  <2> HIDE DEF f
  <2>2. QED BY <1>5, <2>1 DEF Surjection
<1>7. Above(x) = {}
  <2>1. Cardinality(Above(x)) = 0
    BY <1>6
  <2> HIDE DEF Above
  <2>2. QED BY <1>2, <2>1, FS_EmptySet
<1>8. \A y \in S : x >= y
  BY <1>7
<1>9. QED BY <1>8

\* A sample of the page, and the place in the history of the oldest it has.
SampleTypes == [t : Nat, messages : 0..1, ack : {0, 1, Unknown}, condition : Verdicts]
First == Len(past) - Len(samples) + 1

\* The page's history is the samples of the last readings.
SamplesOfLast ==
  /\ samples \in Seq(SampleTypes) /\ Len(samples) <= Len(past)
  /\ \A k \in 1..Len(samples) : samples[k] = Sample(past[First + k - 1])

\* They are in one piece, all but the oldest are in the window, and the oldest is only
\* younger than the window when the piece begins with it.
WindowKept ==
  /\ samples = <<>> => past = <<>> \/ ~Unbroken(Len(past))
  /\ samples # <<>> =>
       /\ Unbroken(First)
       /\ \A j \in (First + 1)..Len(past) : past[j].at > Clock - TrendTime
       /\ First > 1 /\ Unbroken(First - 1) => past[First].at <= Clock - TrendTime

\* The inductive invariant of the window.
WindowInv == SamplesOfLast /\ WindowKept

\* What the page makes of its history with a later sample: it goes on, or starts afresh after a
\* gap, and what is older than the newest sample at or before the start of the window goes.
LEMMA SampleRecorded ==
  ASSUME NEW q \in Seq(SampleTypes), NEW s \in SampleTypes, q # <<>> => s.t > q[Len(q)].t
  PROVE  \E j \in {<<>>, q} : \E from \in 1..Len(Append(j, s)) :
           /\ j = IF q = <<>> \/ s.t - q[Len(q)].t > GapTime THEN <<>> ELSE q
           /\ Page!Record(q, s) = SubSeq(Append(j, s), from, Len(Append(j, s)))
           /\ \A i \in (from + 1)..Len(Append(j, s)) : Append(j, s)[i].t > s.t - TrendTime
           /\ from > 1 => Append(j, s)[from].t <= s.t - TrendTime
<1> DEFINE j == IF q = <<>> \/ s.t - q[Len(q)].t > GapTime THEN <<>> ELSE q
           a == Append(j, s)
           base == {i \in DOMAIN a : a[i].t <= s.t - TrendTime}
           from == IF base = {} THEN 1 ELSE Page!Max(base)
<1>1. j \in Seq(SampleTypes) /\ j \in {<<>>, q}
  OBVIOUS
<1>2. s.t \in Nat /\ TrendTime \in Nat /\ \A x \in SampleTypes : x.t \in Nat
  BY WindowAssumption DEF SampleTypes
<1>3. Page!Record(q, s) = Page!Windowed(Append(j, s), s.t - TrendTime)
  <2>1. q # <<>> => q[Len(q)] \in SampleTypes
    OBVIOUS
  <2>2. q # <<>> => q[Len(q)].t \in Nat
    BY <1>2, <2>1
  <2>3. q # <<>> => ~(s.t < q[Len(q)].t) /\ s.t # q[Len(q)].t
    BY <1>2, <2>2
  <2>4. Page!Joined(q, s) = j
    BY <2>3 DEF Page!Joined, Page!Latest
  <2> HIDE DEF j
  <2>5. QED BY <2>3, <2>4 DEF Page!Record, Page!Latest
<1> HIDE DEF j
<1>4. /\ a \in Seq(SampleTypes) /\ Len(a) = Len(j) + 1 /\ Len(j) \in Nat
      /\ DOMAIN a = 1..Len(a) /\ \A i \in 1..Len(a) : a[i].t \in Nat
  <2>1. a \in Seq(SampleTypes) /\ Len(a) = Len(j) + 1 /\ Len(j) \in Nat
    BY <1>1
  <2> HIDE DEF a
  <2>2. DOMAIN a = 1..Len(a) /\ \A i \in 1..Len(a) : a[i] \in SampleTypes
    BY <2>1
  <2>3. QED BY <1>2, <2>1, <2>2
<1>5. Page!Record(q, s) = SubSeq(a, from, Len(a))
  BY <1>3 DEF Page!Windowed
<1> HIDE DEF a
<1>6. /\ base \in SUBSET Int /\ IsFiniteSet(base) /\ base \subseteq 1..Len(a)
      /\ \A i \in 1..Len(a) : i \notin base => a[i].t > s.t - TrendTime
      /\ \A i \in base : a[i].t <= s.t - TrendTime
  <2>1. IsFiniteSet(1..Len(a))
    BY <1>4, FS_Interval
  <2>2. base \subseteq 1..Len(a)
    BY <1>4
  <2>3. IsFiniteSet(base)
    BY <2>1, <2>2, FS_Subset
  <2>4. QED BY <1>2, <1>4, <2>2, <2>3
<1> HIDE DEF base
<1>7. base # {} => from \in base /\ \A i \in base : from >= i
  BY <1>6, HasGreatest DEF Page!Max
<1>8. base = {} => from = 1
  OBVIOUS
<1> HIDE DEF from
<1>9. from \in 1..Len(a)
  <2>1. CASE base = {}
    BY <1>4, <1>8, <2>1
  <2>2. CASE base # {}
    BY <1>6, <1>7, <2>2
  <2>3. QED BY <2>1, <2>2
<1>10. \A i \in (from + 1)..Len(a) : a[i].t > s.t - TrendTime
  <2> TAKE i \in (from + 1)..Len(a)
  <2>1. i \in 1..Len(a) /\ i > from
    BY <1>4, <1>9
  <2>2. i \notin base
    BY <1>6, <1>7, <1>9, <2>1
  <2>3. QED BY <1>6, <2>1, <2>2
<1>11. from > 1 => a[from].t <= s.t - TrendTime
  <2>1. CASE base = {}
    BY <1>8, <2>1
  <2>2. CASE base # {}
    BY <1>6, <1>7, <2>2
  <2>3. QED BY <2>1, <2>2
<1>12. QED BY <1>1, <1>5, <1>9, <1>10, <1>11 DEF a, j

\* One reading more: the page's history goes on with it, or starts afresh, and is empty when the
\* reading does not list the queue.
LEMMA WindowStep ==
  ASSUME HistoryInv, HistoryInv', WindowInv, WindowNext
  PROVE  WindowInv'
<1>1. /\ HistoryTypes /\ HistoryTypes' /\ SamplesOfLast /\ WindowKept
      /\ samples' = Sampled(past'[Len(past')])
  BY DEF HistoryInv, WindowInv, WindowNext
<1>2. PICK e : /\ past' = Append(past, e) /\ (past # <<>> => e.at > Clock /\ e.at \in Nat)
  <2>1. PICK r \in Readings, gap \in IF past = <<>> THEN {0} ELSE Gaps :
          past' = Append(past, [r |-> r, at |-> Clock + gap,
                                condition |-> condition', event |-> event'])
    BY DEF WindowNext, HistoryNext
  <2>2. past # <<>> => Clock + gap > Clock /\ Clock + gap \in Nat
    <3>1. Clock \in Nat
      BY <1>1, HistoryFields
    <3>2. past # <<>> => gap \in Nat \ {0}
      BY HistoryAssumption
    <3>3. QED BY <3>1, <3>2
  <2>3. QED BY <2>1, <2>2
<1>3. PICK n \in Nat : n = Len(past)
  BY <1>1 DEF HistoryTypes
<1>4. /\ past \in Seq(Entries) /\ past' \in Seq(Entries) /\ Len(past') = n + 1
      /\ \A i \in 1..n : past'[i] = past[i]
      /\ past'[n + 1] = e /\ e \in Entries
  <2>1. past \in Seq(Entries) /\ past' \in Seq(Entries)
    BY <1>1 DEF HistoryTypes
  <2>2. Len(past') = n + 1 /\ past'[n + 1] = e /\ \A i \in 1..n : past'[i] = past[i]
    BY <1>2, <1>3, <2>1
  <2>3. QED BY <1>3, <2>1, <2>2
<1>5. /\ e.at \in Nat /\ Clock' = e.at /\ Clock \in Nat /\ TrendTime \in Nat /\ GapTime \in Nat
      /\ \A i \in 1..n : past[i].at \in Nat /\ past[i].at <= Clock
      /\ n > 0 => Clock = past[n].at /\ Clock < e.at
      /\ \A i \in 1..n : past[i] \in Entries
  <2>1. e.at \in Nat
    BY <1>4 DEF Entries
  <2>2. Clock' = e.at
    BY <1>4 DEF Clock
  <2>3. Clock \in Nat /\ \A i \in 1..n : past[i].at \in Nat /\ past[i].at <= Clock
    BY <1>1, <1>3, HistoryFields
  <2>4. n > 0 => past # <<>>
    BY <1>3
  <2>5. past # <<>> => Clock = past[n].at
    BY <1>3 DEF Clock
  <2>6. \A i \in 1..n : past[i] \in Entries
    BY <1>3, <1>4
  <2>7. QED BY <1>2, <2>1, <2>2, <2>3, <2>4, <2>5, <2>6, WindowAssumption, ConditionAssumption
<1> DEFINE listed == e.r.scraped /\ e.r.present
           near == e.at - past[n].at <= GapTime
<1>6. \A i \in 1..n : Unbroken(i)' <=> Unbroken(i) /\ listed /\ near
  <2> TAKE i \in 1..n
  <2>1. i..(n + 1) = (i..n) \cup {n + 1} /\ n + 1 \notin i..n /\ (n + 1) - 1 = n /\ n + 1 > i
    BY <1>3
  <2>2. \A j \in i..n : j > i => j - 1 \in 1..n
    BY <1>3
  <2>3. \A j \in i..n : j \in 1..n
    BY <1>3
  <2>4. Unbroken(i) <=>
          \A j \in i..n : /\ past[j].r.scraped /\ past[j].r.present
                          /\ j > i => past[j].at - past[j - 1].at <= GapTime
    BY <1>3 DEF Unbroken
  <2>5. Unbroken(i)' <=>
          \A j \in i..(n + 1) : /\ past'[j].r.scraped /\ past'[j].r.present
                                /\ j > i => past'[j].at - past'[j - 1].at <= GapTime
    BY <1>4 DEF Unbroken
  <2>6. n \in 1..n
    BY <1>3
  <2>7. QED BY <1>4, <2>1, <2>2, <2>3, <2>4, <2>5, <2>6
<1>7. Unbroken(n + 1)' <=> listed
  <2>1. (n + 1)..(n + 1) = {n + 1}
    BY <1>3
  <2>2. QED BY <1>4, <2>1 DEF Unbroken
<1>8. CASE ~listed
  <2>1. samples' = <<>>
    BY <1>1, <1>4, <1>8 DEF Sampled
  <2>2. ~Unbroken(Len(past))'
    BY <1>4, <1>7, <1>8
  <2>3. Len(samples') = 0 /\ samples' \in Seq(SampleTypes)
    BY <2>1
  <2>4. 1..0 = {}
    OBVIOUS
  <2>5. QED BY <1>3, <1>4, <2>1, <2>2, <2>3, <2>4 DEF WindowInv, SamplesOfLast, WindowKept
<1>9. CASE listed
  <2> DEFINE s == Sample(e)
  <2>1. s \in SampleTypes /\ s.t = e.at
    BY <1>4 DEF Sample, SampleTypes, Entries
  <2>2. samples' = Page!Record(samples, s)
    BY <1>1, <1>4, <1>9 DEF Sampled
  <2>3. PICK m \in Nat : m = Len(samples) /\ m <= n /\ (samples = <<>> <=> m = 0)
    BY <1>1, <1>3 DEF SamplesOfLast
  <2>4. \A k \in 1..m : k + n - m \in 1..n /\ First + k - 1 = k + n - m
    BY <1>3, <2>3 DEF First
  <2>5. \A k \in 1..m : samples[k] = Sample(past[k + n - m]) /\ samples[k].t = past[k + n - m].at
    <3>1. \A k \in 1..m : samples[k] = Sample(past[k + n - m])
      BY <1>1, <2>3, <2>4 DEF SamplesOfLast
    <3>2. QED BY <3>1 DEF Sample
  <2>6. m > 0 => samples[m].t = past[n].at /\ n > 0
    BY <2>3, <2>4, <2>5
  <2>7. samples # <<>> => s.t > samples[Len(samples)].t
    BY <1>5, <2>1, <2>3, <2>6
  <2> HIDE DEF s
  <2>8. PICK j \in {<<>>, samples} : \E from \in 1..Len(Append(j, s)) :
          /\ j = IF samples = <<>> \/ s.t - samples[Len(samples)].t > GapTime THEN <<>> ELSE samples
          /\ Page!Record(samples, s) = SubSeq(Append(j, s), from, Len(Append(j, s)))
          /\ \A i \in (from + 1)..Len(Append(j, s)) : Append(j, s)[i].t > s.t - TrendTime
          /\ from > 1 => Append(j, s)[from].t <= s.t - TrendTime
    BY <1>1, <2>1, <2>7, SampleRecorded DEF SamplesOfLast
  <2>9. PICK a : a = Append(j, s)
    OBVIOUS
  <2>10. PICK from \in 1..Len(a) :
          /\ j = IF samples = <<>> \/ s.t - samples[Len(samples)].t > GapTime THEN <<>> ELSE samples
          /\ Page!Record(samples, s) = SubSeq(a, from, Len(a))
          /\ \A i \in (from + 1)..Len(a) : a[i].t > s.t - TrendTime
          /\ from > 1 => a[from].t <= s.t - TrendTime
    BY <2>8, <2>9
  \* The history the sample is added to: the last l readings before it.
  <2>11. PICK l \in 0..m :
           /\ Len(a) = l + 1 /\ a \in Seq(SampleTypes)
           /\ \A k \in 1..(l + 1) : a[k] = Sample(past'[k + n - l])
           /\ l = 0 => \A i \in 1..n : ~Unbroken(i)'
           /\ l > 0 => l = m /\ near
    <3>1. CASE j = <<>>
      <4>1. Len(a) = 0 + 1 /\ a \in Seq(SampleTypes) /\ a[1] = s
        BY <2>1, <2>9, <3>1
      <4>2. \A i \in 1..n : ~Unbroken(i)'
        <5>1. CASE m = 0
          <6>1. n > 0 => ~Unbroken(n)
            BY <1>1, <1>3, <2>3, <5>1 DEF WindowKept
          <6>2. ASSUME NEW i \in 1..n, Unbroken(i) PROVE FALSE
            <7>1. n \in i..n /\ n > 0
              BY <1>3
            <7>2. \A k \in n..n : k \in i..n /\ ~(k > n)
              BY <1>3
            <7>3. Unbroken(n)
              BY <1>3, <6>2, <7>1, <7>2 DEF Unbroken
            <7>4. QED BY <6>1, <7>1, <7>3
          <6>3. QED BY <1>6, <6>2
        <5>2. CASE m > 0
          <6>1. s.t - samples[Len(samples)].t > GapTime
            <7>1. samples # <<>>
              BY <2>3, <5>2
            <7>2. QED BY <2>10, <3>1, <7>1
          <6>2. ~near
            <7>1. past[n].at \in Nat
              BY <1>5, <2>6, <5>2
            <7>2. QED BY <1>5, <2>1, <2>3, <2>6, <5>2, <6>1, <7>1
          <6>3. QED BY <1>6, <6>2
        <5>3. QED BY <2>3, <5>1, <5>2
      <4>3. \A k \in 1..(0 + 1) : a[k] = Sample(past'[k + n - 0])
        <5>1. \A k \in 1..(0 + 1) : k = 1 /\ k + n - 0 = n + 1
          BY <1>3
        <5>2. QED BY <1>4, <4>1, <5>1 DEF s
      <4>4. 0 \in 0..m
        BY <2>3
      <4>5. QED BY <4>1, <4>2, <4>3, <4>4
    <3>2. CASE j # <<>>
      <4>1. j = samples /\ m > 0 /\ ~(s.t - samples[Len(samples)].t > GapTime)
        <5>1. j = samples /\ samples # <<>> /\ ~(s.t - samples[Len(samples)].t > GapTime)
          BY <2>10, <3>2
        <5>2. QED BY <2>3, <5>1
      <4>2. near
        BY <1>5, <2>1, <2>3, <2>6, <4>1
      <4>3. /\ Len(a) = m + 1 /\ a \in Seq(SampleTypes) /\ a[m + 1] = s
            /\ \A k \in 1..m : a[k] = samples[k]
        BY <1>1, <2>1, <2>3, <2>9, <4>1 DEF SamplesOfLast
      <4>4. \A k \in 1..(m + 1) : a[k] = Sample(past'[k + n - m])
        <5>1. ASSUME NEW k \in 1..(m + 1) PROVE a[k] = Sample(past'[k + n - m])
          <6>1. CASE k = m + 1
            <7>1. k + n - m = n + 1
              BY <1>3, <2>3, <6>1
            <7>2. QED BY <1>4, <4>3, <6>1, <7>1 DEF s
          <6>2. CASE k # m + 1
            <7>1. k \in 1..m
              BY <2>3, <5>1, <6>2
            <7>2. past'[k + n - m] = past[k + n - m]
              BY <1>4, <2>4, <7>1
            <7>3. QED BY <2>5, <4>3, <7>1, <7>2
          <6>3. QED BY <6>1, <6>2
        <5>2. QED BY <5>1
      <4>5. m \in 0..m /\ m # 0
        BY <2>3, <4>1
      <4>6. QED BY <4>2, <4>3, <4>4, <4>5
    <3>3. QED BY <3>1, <3>2
  <2>12. /\ from \in 1..(l + 1) /\ l \in Nat /\ l <= n /\ from \in Nat /\ from >= 1
         /\ from <= l + 1
    BY <1>3, <2>3, <2>10, <2>11
  \* What the window keeps of it: the readings from the place o on.
  <2>13. PICK o \in Nat : o = from + n - l
    <3>1. from + n - l \in Nat
      BY <1>3, <2>12
    <3>2. QED BY <3>1
  <2>14. o \in 1..(n + 1) /\ o >= 1 /\ o <= n + 1
    BY <1>3, <2>12, <2>13
  <2>15. /\ samples' \in Seq(SampleTypes) /\ Len(samples') = n + 2 - o
         /\ \A k \in 1..(n + 2 - o) : samples'[k] = a[from + k - 1]
    <3>1. samples' = SubSeq(a, from, l + 1)
      BY <2>2, <2>10, <2>11
    <3>2. \A i \in from..(l + 1) : a[i] \in SampleTypes
      BY <2>11, <2>12
    <3>3. /\ SubSeq(a, from, l + 1) \in Seq(SampleTypes)
          /\ Len(SubSeq(a, from, l + 1)) = l + 1 - from + 1
          /\ \A k \in 1..(l + 1 - from + 1) : SubSeq(a, from, l + 1)[k] = a[from + k - 1]
      <4>1. from <= l + 2 /\ l + 1 \in Nat
        BY <2>12
      <4>2. QED BY <2>11, <2>12, <3>2, <4>1, SubSeqProperties
    <3>4. l + 1 - from + 1 = n + 2 - o
      BY <1>3, <2>12, <2>13
    <3>5. QED BY <3>1, <3>3, <3>4
  <2>16. First' = o /\ Len(samples') <= Len(past') /\ samples' # <<>> /\ Len(samples') >= 1
    <3>1. Len(past') - Len(samples') + 1 = o /\ Len(samples') <= Len(past') /\ Len(samples') >= 1
      BY <1>3, <1>4, <2>14, <2>15
    <3>2. QED BY <3>1 DEF First
  <2>17. \A k \in 1..Len(samples') : samples'[k] = Sample(past'[First' + k - 1])
    <3>1. ASSUME NEW k \in 1..(n + 2 - o) PROVE samples'[k] = Sample(past'[o + k - 1])
      <4>1. from + k - 1 \in 1..(l + 1) /\ (from + k - 1) + n - l = o + k - 1
        BY <1>3, <2>12, <2>13, <2>14, <3>1
      <4>2. a[from + k - 1] = Sample(past'[(from + k - 1) + n - l])
        BY <2>11, <4>1
      <4>3. QED BY <2>15, <4>1, <4>2
    <3>2. QED BY <2>15, <2>16, <3>1
  <2>18. SamplesOfLast'
    <3>1. \A k \in 1..Len(samples') : Sample(past[First + k - 1])' = Sample(past'[First' + k - 1])
      BY DEF Sample
    <3>2. QED BY <2>15, <2>16, <2>17, <3>1 DEF SamplesOfLast
  <2>19. \A i \in 1..(n + 1) : past'[i].at \in Nat
    BY <1>3, <1>4, <1>5
  <2>20. \A k \in 1..(l + 1) : a[k].t = past'[k + n - l].at
    BY <2>11 DEF Sample
  <2>21. \A i \in (o + 1)..(n + 1) : past'[i].at > e.at - TrendTime
    <3> TAKE i \in (o + 1)..(n + 1)
    <3>1. /\ i - n + l \in (from + 1)..(l + 1) /\ i - n + l \in 1..(l + 1)
          /\ (i - n + l) + n - l = i
      BY <1>3, <2>12, <2>13, <2>14
    <3>2. a[i - n + l].t > s.t - TrendTime /\ a[i - n + l].t = past'[i].at
      BY <2>10, <2>11, <2>20, <3>1
    <3>3. QED BY <2>1, <3>2
  <2>22. from > 1 => past'[o].at <= e.at - TrendTime
    BY <2>1, <2>10, <2>12, <2>13, <2>20
  <2>23. Unbroken(o)'
    <3>1. CASE o = n + 1
      BY <1>7, <1>9, <3>1
    <3>2. CASE o # n + 1
      <4>1. l > 0 /\ l = m /\ near
        BY <1>3, <2>11, <2>12, <2>13, <2>14, <3>2
      <4>2. o \in 1..n /\ n - m + 1 \in 1..n /\ n - m + 1 <= o /\ First = n - m + 1
        BY <1>3, <2>3, <2>12, <2>13, <2>14, <3>2, <4>1 DEF First
      <4>3. Unbroken(n - m + 1)
        BY <1>1, <2>3, <4>1, <4>2 DEF WindowKept
      <4>4. \A k \in o..n : k \in (n - m + 1)..n /\ (k > o => k > n - m + 1)
        BY <1>3, <2>3, <4>2
      <4>5. Unbroken(o)
        BY <1>3, <4>3, <4>4 DEF Unbroken
      <4>6. QED BY <1>6, <1>9, <4>1, <4>2, <4>5
    <3>3. QED BY <3>1, <3>2
  <2>24. ASSUME o > 1, Unbroken(o - 1)' PROVE past'[o].at <= e.at - TrendTime
    <3>1. CASE from > 1
      BY <2>22, <3>1
    <3>2. CASE from = 1
      <4>1. o = n + 1 - l /\ o - 1 \in 1..n
        BY <1>3, <2>12, <2>13, <2>14, <2>24, <3>2
      <4>2. l > 0 /\ l = m
        BY <2>11, <2>12, <2>24, <4>1
      <4>3. Unbroken(o - 1) /\ First = o /\ First > 1 /\ m > 0 /\ o \in 1..n
        <5>1. First = o /\ o \in 1..n /\ m > 0
          BY <1>3, <2>3, <2>12, <2>14, <4>1, <4>2 DEF First
        <5>2. QED BY <1>6, <2>24, <4>1, <5>1
      <4>4. past[o].at <= Clock - TrendTime
        BY <1>1, <2>3, <4>3 DEF WindowKept
      <4>5. past'[o].at = past[o].at /\ past[o].at \in Nat /\ Clock < e.at
        BY <1>3, <1>4, <1>5, <4>3
      <4>6. QED BY <1>5, <4>4, <4>5
    <3>3. QED BY <2>12, <3>1, <3>2
  <2>25. WindowKept'
    <3>1. Len(past') = n + 1 /\ Clock' = e.at
      BY <1>4, <1>5
    <3>2. QED BY <2>16, <2>21, <2>23, <2>24, <3>1 DEF WindowKept
  <2>26. QED BY <2>18, <2>25 DEF WindowInv
<1>10. QED BY <1>8, <1>9

\* The page before the first reading.
LEMMA WindowInvInit == WindowInit => WindowInv
<1> SUFFICES ASSUME WindowInit PROVE WindowInv
  OBVIOUS
<1>1. past = <<>> /\ samples = <<>> /\ Len(past) = 0 /\ Len(samples) = 0
  BY DEF WindowInit, HistoryInit
<1>2. samples \in Seq(SampleTypes)
  BY <1>1
<1>3. QED BY <1>1, <1>2 DEF WindowInv, SamplesOfLast, WindowKept

\* The window stands still with the readings.
LEMMA WindowUnchanged ==
  ASSUME WindowInv, UNCHANGED windowVars
  PROVE  WindowInv'
<1>1. past' = past /\ samples' = samples
  BY DEF windowVars, historyVars
<1>2. First' = First /\ Clock' = Clock
  BY <1>1 DEF First, Clock
<1>3. SamplesOfLast'
  BY <1>1, <1>2 DEF WindowInv, SamplesOfLast, Sample
<1>4. \A i \in Int : Unbroken(i)' <=> Unbroken(i)
  BY <1>1 DEF Unbroken
<1>5. SamplesOfLast => Len(past) \in Int /\ First \in Int /\ First - 1 \in Int
  BY DEF SamplesOfLast, First
<1>6. WindowKept'
  BY <1>1, <1>2, <1>4, <1>5 DEF WindowInv, WindowKept, SamplesOfLast
<1>7. QED BY <1>3, <1>6 DEF WindowInv

\* What the window says of the readings: it holds those of the unbroken piece up to now that
\* fall in it, and the newest one before.
LEMMA WindowHolds ==
  ASSUME HistoryInv, WindowInv
  PROVE  LET piece  == {i \in DOMAIN past : Unbroken(i)}
             before == {i \in piece : past[i].at <= Clock - TrendTime}
             kept   == IF before = {} THEN piece ELSE {i \in piece : \A j \in before : j <= i}
         IN {samples[i].t : i \in DOMAIN samples} = {past[i].at : i \in kept}
<1> DEFINE piece  == {i \in DOMAIN past : Unbroken(i)}
           before == {i \in piece : past[i].at <= Clock - TrendTime}
           kept   == IF before = {} THEN piece ELSE {i \in piece : \A j \in before : j <= i}
<1>1. HistoryTypes /\ SamplesOfLast /\ WindowKept
  BY DEF HistoryInv, WindowInv
<1>2. PICK n \in Nat : n = Len(past) /\ DOMAIN past = 1..n /\ (past = <<>> <=> n = 0)
  BY <1>1, HistoryFields
<1>3. PICK m \in Nat : /\ m = Len(samples) /\ DOMAIN samples = 1..m /\ m <= n
                       /\ (samples = <<>> <=> m = 0)
  BY <1>1, <1>2 DEF SamplesOfLast
<1>4. \A i \in 1..n : past[i].at \in Nat
  BY <1>1, <1>2, HistoryFields
<1>5. Clock \in Nat /\ TrendTime \in Nat
  BY <1>1, HistoryFields, WindowAssumption
<1>6. \A i, j \in 1..n : Unbroken(i) /\ i <= j => Unbroken(j)
  <2> SUFFICES ASSUME NEW i \in 1..n, NEW j \in 1..n, Unbroken(i), i <= j PROVE Unbroken(j)
    OBVIOUS
  <2>1. \A k \in j..n : k \in i..n /\ (k > j => k > i)
    BY <1>2
  <2>2. QED BY <1>2, <2>1 DEF Unbroken
<1>7. CASE m = 0
  <2>1. piece = {}
    <3>1. ASSUME NEW i \in 1..n, Unbroken(i) PROVE FALSE
      <4>1. n \in 1..n /\ i <= n /\ n # 0
        BY <1>2
      <4>2. ~Unbroken(n)
        BY <1>1, <1>2, <1>3, <1>7, <4>1 DEF WindowKept
      <4>3. QED BY <1>6, <3>1, <4>1, <4>2
    <3>2. QED BY <1>2, <3>1
  <2>2. kept = {}
    BY <2>1
  <2>3. DOMAIN samples = {}
    BY <1>3, <1>7
  <2> HIDE DEF kept
  <2>4. QED BY <2>2, <2>3 DEF kept
<1>8. CASE m > 0
  <2>1. PICK a \in 1..n : a = n - m + 1 /\ First = a
    <3>1. n - m + 1 \in 1..n /\ First = n - m + 1
      BY <1>2, <1>3, <1>8 DEF First
    <3>2. QED BY <3>1
  <2>2. /\ Unbroken(a)
        /\ \A j \in (a + 1)..n : past[j].at > Clock - TrendTime
        /\ a > 1 /\ Unbroken(a - 1) => past[a].at <= Clock - TrendTime
    BY <1>1, <1>2, <1>3, <1>8, <2>1 DEF WindowKept
  <2>3. a..n \subseteq piece
    <3>1. \A i \in a..n : i \in 1..n /\ a <= i
      BY <1>2, <2>1
    <3>2. QED BY <1>2, <1>6, <2>2, <3>1
  <2>4. \A j \in before : j <= a
    <3>1. ASSUME NEW j \in before PROVE j <= a
      <4>1. j \in 1..n /\ past[j].at <= Clock - TrendTime
        BY <1>2
      <4>2. ~(j \in (a + 1)..n)
        BY <1>4, <1>5, <2>2, <4>1
      <4>3. QED BY <1>2, <2>1, <4>1, <4>2
    <3>2. QED BY <3>1
  <2>5. ASSUME NEW i \in piece, i < a PROVE a \in before
    <3>1. i \in 1..n /\ Unbroken(i)
      BY <1>2
    <3>2. a - 1 \in 1..n /\ i <= a - 1 /\ a > 1
      BY <1>2, <2>1, <2>5, <3>1
    <3>3. Unbroken(a - 1)
      BY <1>6, <3>1, <3>2
    <3>4. past[a].at <= Clock - TrendTime
      BY <2>2, <3>2, <3>3
    <3>5. QED BY <1>2, <2>2, <3>4
  <2>6. piece \subseteq 1..n
    BY <1>2
  <2> HIDE DEF piece, before
  <2>7. kept = a..n
    <3>1. CASE before = {}
      <4>1. \A i \in piece : ~(i < a)
        BY <2>5, <3>1
      <4>2. piece = a..n
        <5>1. \A i \in piece : i \in a..n
          BY <1>2, <2>1, <2>6, <4>1
        <5>2. QED BY <2>3, <5>1
      <4>3. QED BY <3>1, <4>2
    <3>2. CASE before # {}
      <4>1. \E j \in before : j \in piece /\ j <= a
        BY <2>4, <3>2 DEF before
      <4>2. a \in before
        <5>1. PICK j \in before : j \in piece /\ j <= a
          BY <4>1
        <5>2. j \in 1..n
          BY <2>6, <5>1
        <5>3. CASE j < a
          BY <2>5, <5>1, <5>3
        <5>4. CASE j = a
          BY <5>4
        <5>5. QED BY <2>1, <5>1, <5>2, <5>3, <5>4
      <4>3. \A i \in piece : (\A j \in before : j <= i) <=> i \in a..n
        <5>1. ASSUME NEW i \in piece PROVE (\A j \in before : j <= i) <=> i \in a..n
          <6>1. i \in 1..n
            BY <2>6
          <6>2. (\A j \in before : j <= i) => a <= i
            BY <4>2
          <6>3. a <= i => \A j \in before : j <= i
            <7>1. ASSUME a <= i, NEW j \in before PROVE j <= i
              <8>1. j \in 1..n /\ j <= a
                BY <2>4, <2>6 DEF before
              <8>2. QED BY <1>2, <2>1, <6>1, <7>1, <8>1
            <7>2. QED BY <7>1
          <6>4. QED BY <1>2, <2>1, <6>1, <6>2, <6>3
        <5>2. QED BY <5>1
      <4>4. kept = {i \in piece : i \in a..n}
        BY <3>2, <4>3
      <4>5. QED BY <2>3, <4>4
    <3>3. QED BY <3>1, <3>2
  <2>8. /\ \A k \in 1..m : a + k - 1 \in a..n /\ samples[k].t = past[a + k - 1].at
        /\ \A i \in a..n : i - a + 1 \in 1..m /\ a + (i - a + 1) - 1 = i
    <3>1. \A k \in 1..m : a + k - 1 \in a..n
      BY <1>2, <1>3, <2>1
    <3>2. \A k \in 1..m : samples[k] = Sample(past[a + k - 1])
      BY <1>1, <1>3, <2>1 DEF SamplesOfLast
    <3>3. \A k \in 1..m : samples[k].t = past[a + k - 1].at
      <4>1. \A e : Sample(e).t = e.at
        BY DEF Sample
      <4>2. QED BY <3>2, <4>1
    <3>4. \A i \in a..n : i - a + 1 \in 1..m /\ a + (i - a + 1) - 1 = i
      BY <1>2, <1>3, <2>1
    <3>5. QED BY <3>1, <3>3, <3>4
  <2>9. {samples[i].t : i \in 1..m} = {past[i].at : i \in a..n}
    <3>1. \A k \in 1..m : \E i \in a..n : samples[k].t = past[i].at
      BY <2>8
    <3>2. ASSUME NEW i \in a..n PROVE \E k \in 1..m : samples[k].t = past[i].at
      <4>1. i - a + 1 \in 1..m /\ samples[i - a + 1].t = past[a + (i - a + 1) - 1].at
        BY <2>8
      <4>2. QED BY <2>8, <4>1
    <3>3. QED BY <3>1, <3>2
  <2> HIDE DEF kept
  <2>10. {samples[i].t : i \in DOMAIN samples} = {past[i].at : i \in kept}
    BY <1>3, <2>7, <2>9
  <2>11. QED BY <2>10 DEF kept, before, piece
<1>9. m = 0 \/ m > 0
  BY <1>3
<1>10. QED BY <1>7, <1>8, <1>9, Zenon

\* The run of zero acks the page sees is part of the one the detector has timed.
LEMMA ZeroAcksTimed ==
  ASSUME HistoryInv, WindowInv, samples # <<>>, Page!ZeroAckTime(samples) > 0
  PROVE  zeroSince # None /\ Page!ZeroAckTime(samples) <= Clock - zeroSince
<1> DEFINE run == {i \in DOMAIN samples : \A j \in i..Len(samples) :
                     samples[j].ack = 0 /\ samples[j].messages > 0}
<1>1. HistoryTypes /\ RunsCounted /\ SamplesOfLast /\ WindowKept
  BY DEF HistoryInv, WindowInv
<1>2. PICK n \in Nat : n = Len(past) /\ DOMAIN past = 1..n /\ (past = <<>> <=> n = 0)
  BY <1>1, HistoryFields
<1>3. PICK m \in Nat : m = Len(samples) /\ DOMAIN samples = 1..m /\ m <= n /\ m > 0
  BY <1>1, <1>2 DEF SamplesOfLast
<1>4. PICK a \in 1..n : a = n - m + 1 /\ First = a
  <2>1. n - m + 1 \in 1..n /\ First = n - m + 1
    BY <1>2, <1>3 DEF First
  <2>2. QED BY <2>1
<1>5. \A k \in 1..m : /\ samples[k] = Sample(past[a + k - 1]) /\ a + k - 1 \in a..n
                      /\ a + k - 1 \in 1..n
  <2>1. \A k \in 1..m : a + k - 1 \in a..n /\ a + k - 1 \in 1..n
    BY <1>2, <1>3, <1>4
  <2>2. QED BY <1>1, <1>3, <1>4, <2>1 DEF SamplesOfLast
<1>6. run # {}
  BY DEF Page!ZeroAckTime
<1>7. Page!ZeroAckTime(samples) = samples[m].t - samples[Page!Min(run)].t
  BY <1>3, <1>6 DEF Page!ZeroAckTime, Page!Latest
<1>8. run \subseteq 1..m /\ \A i \in run : \A j \in i..m : samples[j].ack = 0 /\ samples[j].messages > 0
  BY <1>3
<1> HIDE DEF run
<1>9. PICK k \in run : k = Page!Min(run)
  <2> DEFINE mirror == {0 - i : i \in run}
  <2>1. mirror \in SUBSET Int /\ mirror # {}
    <3>1. \A i \in run : 0 - i \in Int
      BY <1>3, <1>8
    <3>2. QED BY <1>6, <3>1
  <2>2. IsFiniteSet(mirror)
    <3>1. IsFiniteSet((0 - m)..(0 - 1))
      BY <1>3, FS_Interval
    <3>2. mirror \subseteq (0 - m)..(0 - 1)
      BY <1>3, <1>8
    <3>3. QED BY <3>1, <3>2, FS_Subset
  <2>3. PICK x \in mirror : \A y \in mirror : x >= y
    <3> HIDE DEF mirror
    <3>1. QED BY <2>1, <2>2, HasGreatest
  <2>4. PICK i \in run : x = 0 - i
    OBVIOUS
  <2>5. \A j \in run : 0 - i >= 0 - j
    BY <2>3, <2>4
  <2>6. \A j \in run : j \in Int
    BY <1>3, <1>8
  <2>7. \A j \in run : i <= j
    BY <2>5, <2>6
  <2> HIDE DEF mirror
  <2>8. QED BY <2>7 DEF Page!Min
<1>10. PICK i \in 1..n : i = a + k - 1 /\ i \in a..n
  BY <1>5, <1>8
<1>11. Unbroken(a)
  BY <1>1, <1>3, <1>4 DEF WindowKept
<1>12. \A j \in i..n : /\ past[j].r.scraped /\ past[j].r.present
                       /\ j > i => past[j].at - past[j - 1].at <= GapTime
  <2>1. \A j \in i..n : j \in a..n /\ (j > i => j > a)
    BY <1>2, <1>4, <1>10
  <2>2. QED BY <1>2, <1>11, <2>1 DEF Unbroken
<1>13. \A j \in i..n : ZeroAcks(past[j].r)
  <2> TAKE j \in i..n
  <2>1. PICK l \in k..m : j = a + l - 1
    <3>1. j - a + 1 \in k..m /\ j = a + (j - a + 1) - 1
      BY <1>2, <1>3, <1>4, <1>8, <1>10
    <3>2. QED BY <3>1
  <2>2. l \in 1..m
    BY <1>3, <1>8
  <2>3. samples[l].ack = 0 /\ samples[l].messages > 0 /\ samples[l] = Sample(past[j])
    BY <1>5, <1>8, <2>1, <2>2
  <2>4. past[j].r.backlog
    BY <2>3 DEF Sample
  <2>5. past[j].r.acks = "zero"
    <3>1. Unknown # 0
      BY WindowAssumption
    <3>2. QED BY <2>3, <3>1 DEF Sample
  <2>6. QED BY <2>4, <2>5 DEF ZeroAcks
<1>14. i..n \subseteq Listed
  <2>1. \A j \in i..n : j \in 1..n /\ j..n \subseteq i..n
    BY <1>2, <1>10
  <2>2. QED BY <1>2, <1>12, <2>1 DEF Listed
<1>15. i \in Listed /\ \A j \in Listed : j \in 1..n
  <2>1. i \in i..n
    BY <1>2
  <2>2. QED BY <1>2, <1>14, <2>1 DEF Listed
<1>16. ZeroRun(i)
  <2>1. \A j \in Listed : j >= i => ZeroAcks(past[j].r)
    BY <1>2, <1>10, <1>13, <1>15
  <2>2. ASSUME NEW j \in Listed, NEW l \in Listed, i <= j, j < l,
               ~\E o \in Listed : j < o /\ o < l
        PROVE  past[l].at - past[j].at <= GapTime
    <3>1. j \in 1..n /\ l \in 1..n /\ j + 1 \in i..n /\ l \in i..n /\ l > i
      BY <1>2, <1>10, <1>15, <2>2
    <3>2. j + 1 \in Listed
      BY <1>14, <3>1
    <3>3. l = j + 1
      BY <2>2, <3>1, <3>2
    <3>4. l - 1 = j
      BY <3>1, <3>3
    <3>5. QED BY <1>12, <3>1, <3>4
  <2>3. QED BY <2>1, <2>2 DEF ZeroRun, Run
<1>17. zeroSince # None /\ \E j \in Listed : past[j].at = zeroSince /\ j <= i
  BY <1>1, <1>15, <1>16 DEF RunsCounted
<1>18. PICK j \in Listed : past[j].at = zeroSince /\ j <= i
  BY <1>17
<1>19. past[j].at <= past[i].at /\ past[j].at \in Nat /\ past[i].at \in Nat /\ Clock \in Nat
  BY <1>1, <1>2, <1>15, <1>18, HistoryFields
<1>20. samples[m].t = Clock /\ samples[k].t = past[i].at
  <2>1. m \in 1..m /\ a + m - 1 = n /\ k \in 1..m /\ past # <<>>
    BY <1>2, <1>3, <1>4, <1>8
  <2>2. samples[m] = Sample(past[n]) /\ samples[k] = Sample(past[i])
    BY <1>5, <1>10, <2>1
  <2>3. Clock = past[n].at
    BY <1>2, <2>1 DEF Clock
  <2>4. QED BY <2>2, <2>3 DEF Sample
<1>21. QED BY <1>7, <1>9, <1>17, <1>18, <1>19, <1>20

\* The page rests on an honest history and never contradicts the detector.
LEMMA WindowProved == HistoryInv /\ WindowInv => WindowIsHonest
<1> SUFFICES ASSUME HistoryInv, WindowInv PROVE WindowIsHonest
  OBVIOUS
<1>1. ASSUME samples # <<>>
      PROVE  Page!AssessQueue(samples).state = "crit" <=> condition \in {"stalled", "no-consumer"}
  <2>1. HistoryTypes /\ Judged /\ SamplesOfLast
    BY DEF HistoryInv, WindowInv
  <2>2. Len(samples) \in 1..Len(samples) /\ First + Len(samples) - 1 = Len(past) /\ past # <<>>
    BY <1>1, <2>1 DEF SamplesOfLast, First, HistoryTypes
  <2>3. samples[Len(samples)] = Sample(past[Len(past)])
    BY <2>1, <2>2 DEF SamplesOfLast
  <2>4. condition = past[Len(past)].condition
    BY <2>1, <2>2 DEF Judged, Latest
  <2>5. Page!Latest(samples).condition = condition
    BY <2>3, <2>4 DEF Page!Latest, Sample
  <2>6. QED BY <1>1, <2>5 DEF Page!AssessQueue
<1>2. QED BY <1>1, WindowHolds, ZeroAcksTimed DEF WindowIsHonest
-----------------------------------------------------------------------------
(* The transitions of services, datastores and dead-letter queues *)

\* The kinds of event, and a reading with its events.
Kinds == {"up", "down", "grew", "emptied"}
Tales == [r : Says(subject), events : SUBSET Kinds]
StatusTypes ==
  /\ subject \in Subjects /\ told \in Seq(Tales) /\ Len(told) <= MaxTold
  /\ serving \in {0, 1, Unseen} /\ depth \in Depths \cup {Unseen}

\* What the i-th reading showed, and the events of a change up to it.
StateAt(i) == Serves(told[i].r)
Turns(i)   == {j \in Followed : j <= i /\ (Told(j, "up") \/ Told(j, "down"))}

\* The register holds what the last reading showed, unless it made the detector forget.
ServingKept ==
  /\ told = <<>> => serving = Unseen
  /\ told # <<>> => serving = IF Forgotten(told[Len(told)].r) THEN Unseen ELSE StateAt(Len(told))

\* The readings of a service that is looked after have a first one.
Begun == Followed # {} => \E b \in Followed : \A k \in Followed : b <= k

\* An event of a change says what its reading showed, and the one before showed the opposite.
TurnIsReal(i) ==
  /\ Told(i, "up") => StateAt(i) = 1
  /\ Told(i, "down") => StateAt(i) = 0
  /\ Told(i, "up") \/ Told(i, "down") => i - 1 \in Followed /\ StateAt(i - 1) # StateAt(i)

\* What the i-th reading shows is what the last change up to it said, or, without one, what
\* every reading before it showed.
LastTurnStands(i) ==
  /\ Turns(i) = {} => \A k \in Followed : k <= i => StateAt(k) = StateAt(i)
  /\ Turns(i) # {} => \E l \in Turns(i) : /\ \A k \in Turns(i) : k <= l
                                          /\ StateAt(l) = StateAt(i)

\* The depth kept is that of the last reading that gave one since the last failed scrape.
DepthKept ==
  /\ Compared = {} => depth = Unseen
  /\ Compared # {} => \E p \in Compared : depth = DepthAt(p) /\ \A i \in Compared : i <= p

\* Growth and emptying between two compared readings are told, and only those.
DepthTold ==
  /\ \A i, j \in Compared : i < j =>
       /\ DepthAt(j) > DepthAt(i) => \E k \in (i + 1)..j : Told(k, "grew")
       /\ (DepthAt(j) = 0 /\ DepthAt(i) > 0) => \E k \in (i + 1)..j : Told(k, "emptied")
  /\ \A j \in Compared :
       /\ Told(j, "grew") => \E i \in Compared : i < j /\ DepthAt(i) < DepthAt(j)
       /\ Told(j, "emptied") => DepthAt(j) = 0 /\ \E i \in Compared : i < j /\ DepthAt(i) > 0

\* The inductive invariant of the transitions: TransitionsAreTold speaks of every earlier reading,
\* of which the registers hold one value each.
StatusInv ==
  /\ StatusTypes /\ ServingKept /\ Begun
  /\ \A i \in Followed : TurnIsReal(i) /\ LastTurnStands(i)
  /\ DepthKept /\ DepthTold

\* Depths and the mark of none are integers.
LEMMA DepthsAreInt == \A d \in Depths \cup {Unseen} : d \in Int
BY StatusAssumption DEF Unseen

\* What a reading of a subject holds: only the broker has a depth, and only when it is well.
LEMMA SaysWhat ==
  ASSUME NEW s \in Subjects, NEW r \in Says(s)
  PROVE  /\ r.depth \in Depths \cup {Unseen} /\ r.depth \in Int
         /\ r.depth # Unseen => s = "broker" /\ r.status = "healthy"
         /\ s = "broker" => (r.status # "healthy" <=> Serves(r) = 0)
         /\ Serves(r) \in {0, 1}
<1> USE StatusAssumption DEF Unseen, Subjects
<1>1. Serves(r) \in {0, 1}
  BY DEF Serves
<1>2. CASE s = "broker"
  <2>1. r \in [status : {"healthy"}, depth : Depths \cup {Unseen}]
             \cup [status : {"unhealthy"}, depth : {Unseen}]
    BY <1>2 DEF Says
  <2>2. CASE r \in [status : {"healthy"}, depth : Depths \cup {Unseen}]
    <3>1. r.status = "healthy" /\ r.depth \in Depths \cup {Unseen}
      BY <2>2
    <3>2. Serves(r) = 1
      BY <3>1 DEF Serves, Down
    <3>3. r.depth \in Int
      BY ONLY <3>1, DepthsAreInt
    <3>4. QED BY <1>2, <3>1, <3>2, <3>3
  <2>3. CASE r \in [status : {"unhealthy"}, depth : {Unseen}]
    <3>1. r.status = "unhealthy" /\ r.depth = Unseen
      BY <2>3
    <3>2. QED BY <1>1, <1>2, <3>1 DEF Serves, Down
  <2>4. QED BY <2>1, <2>2, <2>3
<1>3. CASE s = "datastore"
  <2>1. r \in [status : {"healthy", "unhealthy"}, depth : {Unseen}]
    BY <1>3 DEF Says
  <2>2. QED BY <1>1, <1>3, <2>1
<1>4. CASE s \in {"service", "probe"}
  <2>1. r \in [status : Statuses[s], depth : {Unseen}]
    BY <1>4 DEF Says
  <2>2. QED BY <1>1, <1>4, <2>1
<1>5. QED BY <1>2, <1>3, <1>4

\* The first state satisfies the invariant of the transitions.
LEMMA StatusInvInit == StatusInit => StatusInv
<1> SUFFICES ASSUME StatusInit PROVE StatusInv
  OBVIOUS
<1> USE StatusAssumption DEF StatusInit
<1>1. told = <<>> /\ Len(told) = 0 /\ Followed = {} /\ Compared = {}
  BY DEF Followed, Compared
<1>2. StatusTypes
  BY <1>1 DEF StatusTypes
<1>3. QED BY <1>1, <1>2 DEF StatusInv, ServingKept, Begun, DepthKept, DepthTold

\* What the types say of the readings told, and of those that are followed and compared.
LEMMA ToldFields ==
  ASSUME StatusTypes
  PROVE  /\ Len(told) \in Nat /\ DOMAIN told = 1..Len(told) /\ (told = <<>> <=> Len(told) = 0)
         /\ \A i \in 1..Len(told) :
              /\ told[i] \in Tales /\ told[i].r \in Says(subject)
              /\ told[i].r.depth \in Int /\ StateAt(i) \in {0, 1}
         /\ Followed \subseteq 1..Len(told) /\ Compared \subseteq 1..Len(told)
         /\ \A i \in Followed : ~Forgotten(told[Len(told)].r) /\ Len(told) \in Followed
         /\ told # <<>> /\ ~Forgotten(told[Len(told)].r) => Len(told) \in Followed
         /\ Compared # {} => subject = "broker"
<1>1. Len(told) \in Nat /\ DOMAIN told = 1..Len(told) /\ (told = <<>> <=> Len(told) = 0)
      /\ subject \in Subjects
  BY DEF StatusTypes
<1>2. \A i \in 1..Len(told) : told[i] \in Tales
  BY DEF StatusTypes
<1>3. \A i \in 1..Len(told) : /\ told[i].r \in Says(subject)
                              /\ told[i].r.depth \in Int /\ StateAt(i) \in {0, 1}
                              /\ told[i].r.depth # Unseen => subject = "broker"
  BY <1>1, <1>2, SaysWhat DEF Tales, StateAt
<1>4. Followed \subseteq 1..Len(told) /\ Compared \subseteq 1..Len(told)
  BY <1>1 DEF Followed, Compared
<1>5. Compared # {} => subject = "broker"
  BY <1>1, <1>3 DEF Compared
<1>6. ASSUME told # <<>>
      PROVE  Len(told) \in Followed <=> ~Forgotten(told[Len(told)].r)
  <2>1. Len(told) \in 1..Len(told) /\ \A j \in Len(told)..Len(told) : j = Len(told)
    BY <1>1, <1>6
  <2>2. Len(told) \in Len(told)..Len(told)
    BY <1>1
  <2>3. QED BY <1>1, <2>1, <2>2 DEF Followed, Forgotten
<1>7. ASSUME NEW i \in Followed PROVE told # <<>> /\ ~Forgotten(told[Len(told)].r)
  <2>1. i \in 1..Len(told) /\ Len(told) \in i..Len(told)
    BY <1>1, <1>4
  <2>2. QED BY <1>1, <2>1 DEF Followed, Forgotten
<1>8. QED BY <1>1, <1>2, <1>3, <1>4, <1>5, <1>6, <1>7

\* One reading more: it is told at the end, and joins the followed ones or ends them, and the
\* compared ones likewise.
LEMMA ReadingTold ==
  ASSUME StatusTypes, Len(told) < MaxTold, NEW r \in Says(subject), ObserveStatus(r),
         NEW n \in Nat, n = Len(told) + 1
  PROVE  /\ StatusTypes'
         /\ Len(told') = n /\ \A i \in 1..(n - 1) : told'[i] = told[i]
         /\ told'[n].r = r
         /\ told'[n].events = IF Forgotten(r) THEN {} ELSE ServingEvents(r) \cup DepthEvents(r)
         /\ Followed' = IF Forgotten(r) THEN {} ELSE Followed \cup {n}
         /\ Compared' = IF r.status # "healthy" THEN {}
                        ELSE Compared \cup (IF r.depth = Unseen THEN {} ELSE {n})
<1> DEFINE e == [r |-> r, events |-> IF Forgotten(r) THEN {}
                                     ELSE ServingEvents(r) \cup DepthEvents(r)]
<1>1. told' = Append(told, e) /\ subject' = subject /\ subject \in Subjects
  BY DEF ObserveStatus, StatusTypes
<1>2. e \in Tales /\ e.r = r
      /\ e.events = IF Forgotten(r) THEN {} ELSE ServingEvents(r) \cup DepthEvents(r)
  <2>1. ServingEvents(r) \in SUBSET Kinds /\ DepthEvents(r) \in SUBSET Kinds
    BY DEF ServingEvents, DepthEvents, Kinds
  <2>2. QED BY <2>1 DEF Tales
<1> HIDE DEF e
<1>3. told \in Seq(Tales) /\ Tales' = Tales
  BY <1>1 DEF StatusTypes, Tales
<1>4. /\ told' \in Seq(Tales) /\ Len(told') = n
      /\ \A i \in 1..(n - 1) : told'[i] = told[i] /\ told'[n] = e
      /\ DOMAIN told = 1..(n - 1) /\ DOMAIN told' = 1..n
  BY <1>1, <1>2, <1>3
<1>5. told'[n] = e
  BY <1>1, <1>3
<1>6. StatusTypes'
  <2>1. serving' \in {0, 1, Unseen} /\ depth' \in Depths \cup {Unseen}
    BY <1>1, SaysWhat DEF ObserveStatus, DepthAfter, StatusTypes
  <2>2. Len(told') <= MaxTold
    BY <1>4, StatusAssumption
  <2>3. QED BY <1>1, <1>3, <1>4, <2>1, <2>2 DEF StatusTypes
<1> DEFINE Off(j) == subject = "probe" /\ told[j].r.status \in Inactive
<1>7. Followed' = IF Forgotten(r) THEN {} ELSE Followed \cup {n}
  <2>1. \A i : i \in Followed' <=> i \in 1..n /\ \A j \in i..n : ~Off(j)'
    BY <1>4 DEF Followed
  <2>2. \A i : i \in Followed <=> i \in 1..(n - 1) /\ \A j \in i..(n - 1) : ~Off(j)
    BY <1>4 DEF Followed
  <2>3. \A j \in 1..(n - 1) : Off(j)' <=> Off(j)
    BY <1>1, <1>4
  <2>4. Off(n)' <=> Forgotten(r)
    BY <1>1, <1>2, <1>5 DEF Forgotten
  <2> HIDE DEF Off
  <2>5. QED BY <2>1, <2>2, <2>3, <2>4
<1> DEFINE Well(j) == told[j].r.status = "healthy"
           Seen(j) == told[j].r.depth # Unseen
<1>8. Compared' = IF r.status # "healthy" THEN {}
                  ELSE Compared \cup (IF r.depth = Unseen THEN {} ELSE {n})
  <2>1. \A i : i \in Compared' <=> i \in 1..n /\ Seen(i)' /\ \A j \in i..n : Well(j)'
    BY <1>4 DEF Compared
  <2>2. \A i : i \in Compared <=> /\ i \in 1..(n - 1) /\ Seen(i)
                                  /\ \A j \in i..(n - 1) : Well(j)
    BY <1>4 DEF Compared
  <2>3. \A j \in 1..(n - 1) : (Well(j)' <=> Well(j)) /\ (Seen(j)' <=> Seen(j))
    BY <1>4
  <2>4. (Well(n)' <=> r.status = "healthy") /\ (Seen(n)' <=> r.depth # Unseen)
    BY <1>2, <1>5
  <2> HIDE DEF Well, Seen
  <2>5. QED BY <2>1, <2>2, <2>3, <2>4
<1>9. QED BY <1>2, <1>4, <1>5, <1>6, <1>7, <1>8

\* A reading keeps the part of the invariant about up and down (_services_of and its like).
LEMMA ServingStep ==
  ASSUME StatusInv, Len(told) < MaxTold, NEW r \in Says(subject), ObserveStatus(r),
         NEW n \in Nat, n = Len(told) + 1
  PROVE  /\ ServingKept' /\ Begun'
         /\ \A i \in Followed' : TurnIsReal(i)' /\ LastTurnStands(i)'
<1>1. StatusTypes /\ ServingKept /\ Begun
      /\ \A i \in Followed : TurnIsReal(i) /\ LastTurnStands(i)
  BY DEF StatusInv
<1>2. /\ Len(told') = n /\ \A i \in 1..(n - 1) : told'[i] = told[i]
      /\ told'[n].r = r
      /\ told'[n].events = IF Forgotten(r) THEN {} ELSE ServingEvents(r) \cup DepthEvents(r)
      /\ Followed' = IF Forgotten(r) THEN {} ELSE Followed \cup {n}
      /\ StatusTypes'
  BY <1>1, ReadingTold
<1>3. /\ serving' = IF Forgotten(r) THEN Unseen ELSE Serves(r)
      /\ subject' = subject /\ subject \in Subjects
  BY <1>1 DEF ObserveStatus, StatusTypes
<1>4. /\ Followed \subseteq 1..(n - 1) /\ told' # <<>> /\ Serves(r) \in {0, 1}
      /\ \A i \in 1..(n - 1) : StateAt(i) \in {0, 1} /\ StateAt(i)' = StateAt(i)
      /\ StateAt(n)' = Serves(r)
  <2>1. Followed \subseteq 1..(n - 1) /\ \A i \in 1..(n - 1) : StateAt(i) \in {0, 1}
    BY <1>1, ToldFields
  <2>2. told' # <<>>
    BY <1>2, ToldFields
  <2>3. QED BY <1>2, <1>3, <2>1, <2>2, SaysWhat DEF StateAt
<1>5. ServingKept'
  <2>1. Forgotten(told[Len(told)].r)' <=> Forgotten(r)
    BY <1>2, <1>3 DEF Forgotten
  <2>2. StateAt(Len(told))' = Serves(r)
    BY <1>2 DEF StateAt
  <2>3. QED BY <1>3, <1>4, <2>1, <2>2 DEF ServingKept
<1>6. Begun'
  <2>1. CASE Forgotten(r)
    BY <1>2, <2>1 DEF Begun
  <2>2. CASE ~Forgotten(r) /\ Followed = {}
    BY <1>2, <2>2 DEF Begun
  <2>3. CASE ~Forgotten(r) /\ Followed # {}
    <3>1. PICK b \in Followed : \A k \in Followed : b <= k
      BY <1>1, <2>3 DEF Begun
    <3>2. b <= n
      BY <1>4
    <3>3. QED BY <1>2, <2>3, <3>1, <3>2 DEF Begun
  <2>4. QED BY <2>1, <2>2, <2>3
<1>7. CASE Forgotten(r)
  BY <1>2, <1>5, <1>6, <1>7
<1>8. CASE ~Forgotten(r)
  <2>1. Followed' = Followed \cup {n}
    BY <1>2, <1>8
  <2>2. \A i \in 1..(n - 1) : /\ Told(i, "up")' <=> Told(i, "up")
                              /\ Told(i, "down")' <=> Told(i, "down")
    BY <1>2 DEF Told
  <2>3. ASSUME NEW i \in Followed PROVE TurnIsReal(i)' /\ LastTurnStands(i)'
    <3>1. i \in 1..(n - 1) /\ TurnIsReal(i) /\ LastTurnStands(i)
      BY <1>1, <1>4
    <3>2. TurnIsReal(i)'
      <4>1. i - 1 \in Followed => i - 1 \in 1..(n - 1)
        BY <1>4
      <4>2. QED BY <1>4, <2>1, <2>2, <3>1, <4>1 DEF TurnIsReal
    <3>3. Turns(i)' = Turns(i)
      <4>1. \A j \in Followed' : j <= i => j \in Followed /\ j \in 1..(n - 1)
        BY <1>4, <2>1, <3>1
      <4>2. QED BY <1>4, <2>1, <2>2, <4>1 DEF Turns
    <3>4. \A k \in Followed' : k <= i => k \in Followed /\ k \in 1..(n - 1)
      BY <1>4, <2>1, <3>1
    <3>5. \A l \in Turns(i) : l \in 1..(n - 1)
      BY <1>4 DEF Turns
    <3>6. LastTurnStands(i)'
      BY <1>4, <3>1, <3>3, <3>4, <3>5 DEF LastTurnStands
    <3>7. QED BY <3>2, <3>6
  <2>4. /\ Told(n, "up")' <=> serving \notin {Unseen, Serves(r)} /\ Serves(r) = 1
        /\ Told(n, "down")' <=> serving \notin {Unseen, Serves(r)} /\ Serves(r) # 1
    BY <1>2, <1>8 DEF Told, ServingEvents, DepthEvents
  <2>5. serving # Unseen => n - 1 \in Followed /\ serving = StateAt(n - 1)
    BY <1>1, ToldFields DEF ServingKept
  <2>6. serving = Unseen => Followed = {}
    <3>1. ASSUME NEW i \in Followed PROVE serving # Unseen
      <4>1. told # <<>> /\ ~Forgotten(told[Len(told)].r) /\ Len(told) \in 1..(n - 1)
        BY <1>1, <1>4, ToldFields
      <4>2. QED BY <1>1, <1>4, <4>1 DEF ServingKept, Unseen
    <3>2. QED BY <3>1
  <2>7. TurnIsReal(n)'
    BY <1>4, <2>1, <2>4, <2>5 DEF TurnIsReal
  <2>8. LastTurnStands(n)'
    <3>1. CASE serving = Unseen
      <4>1. Followed' = {n} /\ Turns(n)' = {}
        BY <2>1, <2>4, <2>6, <3>1 DEF Turns
      <4>2. QED BY <4>1 DEF LastTurnStands
    <3>2. CASE serving = Serves(r)
      <4>1. n - 1 \in Followed /\ StateAt(n - 1) = Serves(r) /\ LastTurnStands(n - 1)
        BY <1>1, <1>4, <2>5, <3>2 DEF Unseen
      <4>2. ~Told(n, "up")' /\ ~Told(n, "down")'
        BY <2>4, <3>2
      <4>3. \A k \in Followed : k <= n - 1 /\ k <= n /\ k \in 1..(n - 1)
        BY <1>4
      <4>4. Turns(n)' = Turns(n - 1)
        BY <2>1, <2>2, <4>2, <4>3 DEF Turns
      <4>5. \A l \in Turns(n - 1) : l \in 1..(n - 1)
        BY <1>4 DEF Turns
      <4>6. QED BY <1>4, <2>1, <4>1, <4>3, <4>4, <4>5 DEF LastTurnStands
    <3>3. CASE serving \notin {Unseen, Serves(r)}
      <4>1. n \in Turns(n)'
        BY <1>4, <2>1, <2>4, <3>3 DEF Turns
      <4>2. \A k \in Turns(n)' : k <= n
        BY DEF Turns
      <4>3. QED BY <4>1, <4>2 DEF LastTurnStands
    <3>4. QED BY <3>1, <3>2, <3>3
  <2>9. QED BY <1>5, <1>6, <2>1, <2>3, <2>7, <2>8
<1>9. QED BY <1>7, <1>8

\* A reading keeps the part of the invariant about the dead-letter queue (_broker_of).
LEMMA DepthStep ==
  ASSUME StatusInv, Len(told) < MaxTold, NEW r \in Says(subject), ObserveStatus(r),
         NEW n \in Nat, n = Len(told) + 1
  PROVE  DepthKept' /\ DepthTold'
<1>1. StatusTypes /\ DepthKept /\ DepthTold
  BY DEF StatusInv
<1>2. /\ Len(told') = n /\ \A i \in 1..(n - 1) : told'[i] = told[i]
      /\ told'[n].r = r
      /\ told'[n].events = IF Forgotten(r) THEN {} ELSE ServingEvents(r) \cup DepthEvents(r)
      /\ Compared' = IF r.status # "healthy" THEN {}
                     ELSE Compared \cup (IF r.depth = Unseen THEN {} ELSE {n})
  BY <1>1, ReadingTold
<1>3. /\ depth' = IF subject = "broker" THEN DepthAfter(r) ELSE Unseen
      /\ subject \in Subjects
  BY <1>1 DEF ObserveStatus, StatusTypes
<1>4. /\ Compared \subseteq 1..(n - 1) /\ DepthAt(n)' = r.depth
      /\ Compared # {} => subject = "broker"
      /\ \A i \in 1..(n - 1) : /\ DepthAt(i) \in Int /\ DepthAt(i)' = DepthAt(i)
                               /\ Told(i, "grew")' <=> Told(i, "grew")
                               /\ Told(i, "emptied")' <=> Told(i, "emptied")
  <2>1. /\ Compared \subseteq 1..(n - 1)
        /\ Compared # {} => subject = "broker"
        /\ \A i \in 1..(n - 1) : DepthAt(i) \in Int
    BY <1>1, ToldFields DEF DepthAt
  <2>2. \A i \in 1..(n - 1) : DepthAt(i)' = DepthAt(i)
    BY <1>2 DEF DepthAt
  <2>3. \A i \in 1..(n - 1) : /\ Told(i, "grew")' <=> Told(i, "grew")
                              /\ Told(i, "emptied")' <=> Told(i, "emptied")
    BY <1>2 DEF Told
  <2>4. DepthAt(n)' = r.depth
    BY <1>2 DEF DepthAt
  <2>5. QED BY <2>1, <2>2, <2>3, <2>4
<1>5. /\ r.depth \in Depths \cup {Unseen} /\ r.depth \in Int
      /\ r.depth # Unseen => subject = "broker" /\ r.status = "healthy"
      /\ subject = "broker" => (r.status # "healthy" <=> Serves(r) = 0)
  BY <1>3, SaysWhat
<1>6. CASE r.status # "healthy"
  <2>1. Compared' = {} /\ depth' = Unseen
    BY <1>2, <1>3, <1>5, <1>6 DEF DepthAfter
  <2>2. QED BY <2>1 DEF DepthKept, DepthTold
<1>7. CASE r.status = "healthy" /\ r.depth = Unseen
  <2>1. Compared' = Compared
    BY <1>2, <1>7
  <2>2. Compared # {} => depth' = depth
    BY <1>3, <1>4, <1>5, <1>7 DEF DepthAfter
  <2>3. Compared = {} => depth' = Unseen
    BY <1>1, <1>3, <1>5, <1>7 DEF DepthAfter, DepthKept
  <2>4. DepthKept'
    BY <1>1, <1>4, <2>1, <2>2, <2>3 DEF DepthKept
  <2>5. \A i, j \in Compared : \A k \in (i + 1)..j : k \in 1..(n - 1)
    BY <1>4
  <2>6. DepthTold'
    BY <1>1, <1>4, <2>1, <2>5 DEF DepthTold
  <2>7. QED BY <2>4, <2>6
<1>8. CASE r.status = "healthy" /\ r.depth # Unseen
  <2>1. Compared' = Compared \cup {n} /\ subject = "broker" /\ depth' = r.depth
        /\ r.depth \in Nat
    BY <1>2, <1>3, <1>5, <1>8, StatusAssumption DEF DepthAfter
  <2>2. DepthKept'
    BY <1>4, <2>1 DEF DepthKept
  <2>3. /\ Told(n, "grew")' <=> depth # Unseen /\ r.depth > depth
        /\ Told(n, "emptied")' <=> depth # Unseen /\ r.depth < depth /\ r.depth = 0
    <3>1. ~Forgotten(r)
      BY <2>1 DEF Forgotten
    <3>2. "grew" \notin ServingEvents(r) /\ "emptied" \notin ServingEvents(r)
      BY DEF ServingEvents
    <3>3. depth \in Int
      BY <1>1, StatusAssumption DEF StatusTypes, Unseen
    <3>4. /\ "grew" \in DepthEvents(r) <=> depth # Unseen /\ r.depth > depth
          /\ "emptied" \in DepthEvents(r) <=> depth # Unseen /\ r.depth < depth /\ r.depth = 0
      BY <1>5, <1>8, <3>3 DEF DepthEvents
    <3>5. QED BY <1>2, <3>1, <3>2, <3>4 DEF Told
  <2>4. ASSUME depth # Unseen
        PROVE  \E p \in Compared : depth = DepthAt(p) /\ \A i \in Compared : i <= p
    BY <1>1, <2>4 DEF DepthKept
  <2>5. ASSUME NEW i \in Compared
        PROVE  /\ r.depth > DepthAt(i) => \E k \in (i + 1)..n : Told(k, "grew")'
               /\ (r.depth = 0 /\ DepthAt(i) > 0) => \E k \in (i + 1)..n : Told(k, "emptied")'
    <3>1. PICK p \in Compared : depth = DepthAt(p) /\ \A k \in Compared : k <= p
      BY <1>1 DEF DepthKept
    <3>2. i \in 1..(n - 1) /\ p \in 1..(n - 1) /\ i <= p /\ n \in (i + 1)..n
          /\ DepthAt(i) \in Int /\ DepthAt(p) \in Int /\ depth # Unseen
      <4>1. DepthAt(p) # Unseen
        BY DEF Compared, DepthAt
      <4>2. QED BY <1>4, <3>1, <4>1
    <3>3. \A k \in (i + 1)..p : k \in 1..(n - 1) /\ k \in (i + 1)..n
      BY <3>2
    <3>4. ASSUME r.depth > DepthAt(i) PROVE \E k \in (i + 1)..n : Told(k, "grew")'
      <4>1. CASE r.depth > depth
        BY <2>3, <3>2, <4>1
      <4>2. CASE ~(r.depth > depth)
        <5>1. DepthAt(p) > DepthAt(i) /\ i < p
          BY <1>5, <3>1, <3>2, <3>4, <4>2
        <5>2. PICK k \in (i + 1)..p : Told(k, "grew")
          BY <1>1, <5>1 DEF DepthTold
        <5>3. QED BY <1>4, <3>3, <5>2
      <4>3. QED BY <4>1, <4>2
    <3>5. ASSUME r.depth = 0, DepthAt(i) > 0 PROVE \E k \in (i + 1)..n : Told(k, "emptied")'
      <4>1. CASE depth > 0
        BY <2>3, <3>1, <3>2, <3>5, <4>1
      <4>2. CASE ~(depth > 0)
        <5>1. depth \in Nat
          BY <1>1, <3>2, StatusAssumption DEF StatusTypes
        <5>2. DepthAt(p) = 0 /\ i < p
          BY <3>1, <3>2, <3>5, <4>2, <5>1
        <5>3. PICK k \in (i + 1)..p : Told(k, "emptied")
          BY <1>1, <3>5, <5>2 DEF DepthTold
        <5>4. QED BY <1>4, <3>3, <5>3
      <4>3. QED BY <4>1, <4>2
    <3>6. QED BY <3>4, <3>5
  <2>6. /\ Told(n, "grew")' => \E i \in Compared : DepthAt(i) < r.depth
        /\ Told(n, "emptied")' => r.depth = 0 /\ \E i \in Compared : DepthAt(i) > 0
    BY <2>1, <2>3, <2>4
  <2>7. ASSUME NEW i \in Compared, NEW j \in Compared, i < j
        PROVE  /\ DepthAt(j)' > DepthAt(i)' => \E k \in (i + 1)..j : Told(k, "grew")'
               /\ (DepthAt(j)' = 0 /\ DepthAt(i)' > 0) => \E k \in (i + 1)..j : Told(k, "emptied")'
    <3>1. i \in 1..(n - 1) /\ j \in 1..(n - 1) /\ \A k \in (i + 1)..j : k \in 1..(n - 1)
      BY <1>4
    <3>2. QED BY <1>1, <1>4, <2>7, <3>1 DEF DepthTold
  <2>8. \A i, j \in Compared' : i < j =>
          /\ DepthAt(j)' > DepthAt(i)' => \E k \in (i + 1)..j : Told(k, "grew")'
          /\ (DepthAt(j)' = 0 /\ DepthAt(i)' > 0) => \E k \in (i + 1)..j : Told(k, "emptied")'
    <3>1. SUFFICES ASSUME NEW i \in Compared', NEW j \in Compared', i < j
          PROVE  /\ DepthAt(j)' > DepthAt(i)' => \E k \in (i + 1)..j : Told(k, "grew")'
                 /\ (DepthAt(j)' = 0 /\ DepthAt(i)' > 0)
                       => \E k \in (i + 1)..j : Told(k, "emptied")'
      OBVIOUS
    <3>2. i \in Compared
      BY <1>4, <2>1, <3>1
    <3>3. CASE j = n
      BY <1>4, <2>5, <3>2, <3>3
    <3>4. CASE j \in Compared
      BY <2>7, <3>1, <3>2, <3>4
    <3>5. QED BY <2>1, <3>3, <3>4
  <2>9. ASSUME NEW j \in Compared'
        PROVE  /\ Told(j, "grew")' => \E i \in Compared' : i < j /\ DepthAt(i)' < DepthAt(j)'
               /\ Told(j, "emptied")' => /\ DepthAt(j)' = 0
                                         /\ \E i \in Compared' : i < j /\ DepthAt(i)' > 0
    <3>1. CASE j = n
      <4>1. \A i \in Compared : i \in Compared' /\ i < n /\ DepthAt(i)' = DepthAt(i)
        BY <1>4, <2>1
      <4>2. QED BY <1>4, <2>6, <3>1, <4>1
    <3>2. CASE j \in Compared
      <4>1. \A i \in Compared : i \in Compared' /\ DepthAt(i)' = DepthAt(i)
        BY <1>4, <2>1
      <4>2. j \in 1..(n - 1)
        BY <1>4, <3>2
      <4>3. QED BY <1>1, <1>4, <3>2, <4>1, <4>2 DEF DepthTold
    <3>3. QED BY <2>1, <3>1, <3>2
  <2>10. DepthTold'
    BY <2>8, <2>9 DEF DepthTold
  <2>11. QED BY <2>2, <2>10
<1>9. QED BY <1>6, <1>7, <1>8

\* Every reading keeps the invariant of the transitions.
LEMMA StatusInvStep == StatusInv /\ [StatusNext]_statusVars => StatusInv'
<1> SUFFICES ASSUME StatusInv, [StatusNext]_statusVars PROVE StatusInv'
  OBVIOUS
<1>1. CASE StatusNext
  <2>1. PICK r \in Says(subject) : ObserveStatus(r)
    BY <1>1 DEF StatusNext
  <2>2. StatusTypes /\ Len(told) < MaxTold
    BY <1>1 DEF StatusInv, StatusNext
  <2>3. PICK n \in Nat : n = Len(told) + 1
    BY <2>2, ToldFields
  <2>4. StatusTypes'
    BY <2>1, <2>2, <2>3, ReadingTold
  <2>5. ServingKept' /\ Begun' /\ \A i \in Followed' : TurnIsReal(i)' /\ LastTurnStands(i)'
    BY <2>1, <2>2, <2>3, ServingStep
  <2>6. DepthKept' /\ DepthTold'
    BY <2>1, <2>2, <2>3, DepthStep
  <2>7. QED BY <2>4, <2>5, <2>6 DEF StatusInv
<1>2. CASE UNCHANGED statusVars
  <2>1. subject' = subject /\ serving' = serving /\ depth' = depth /\ told' = told
    BY <1>2 DEF statusVars
  <2>2. Followed' = Followed /\ Compared' = Compared /\ StatusTypes'
    BY <2>1 DEF Followed, Compared, StatusInv, StatusTypes, Tales
  <2>3. ServingKept' /\ Begun' /\ DepthKept' /\ DepthTold'
    BY <2>1, <2>2 DEF StatusInv, ServingKept, Begun, DepthKept, DepthTold, DepthAt, Told,
                      StateAt, Forgotten
  <2>4. \A i \in Followed' : TurnIsReal(i)' /\ LastTurnStands(i)'
    BY <2>1, <2>2 DEF StatusInv, TurnIsReal, LastTurnStands, Turns, Told, StateAt
  <2>5. QED BY <2>2, <2>3, <2>4 DEF StatusInv
<1>3. QED BY <1>1, <1>2

\* What the events have said up to a reading is what that reading showed.
LEMMA SaidIsState ==
  ASSUME StatusInv, NEW i \in Followed
  PROVE  SaidAt(i) = StateAt(i)
<1>1. /\ StatusTypes /\ Begun
      /\ \A k \in Followed : TurnIsReal(k) /\ LastTurnStands(k)
  BY DEF StatusInv
<1>2. Followed \subseteq 1..Len(told)
  BY <1>1, ToldFields
<1> DEFINE last == CHOOSE j \in Turns(i) : \A k \in Turns(i) : k <= j
           base == CHOOSE j \in Followed : \A k \in Followed : j <= k
<1>3. SaidAt(i) = IF Turns(i) = {} THEN StateAt(base) ELSE IF Told(last, "up") THEN 1 ELSE 0
  BY DEF SaidAt, Turns, StateAt
<1>4. base \in Followed /\ \A k \in Followed : base <= k
  BY <1>1 DEF Begun
<1> HIDE DEF base
<1>5. CASE Turns(i) = {}
  BY <1>1, <1>3, <1>4, <1>5 DEF LastTurnStands
<1>6. CASE Turns(i) # {}
  <2>1. PICK l \in Turns(i) : (\A k \in Turns(i) : k <= l) /\ StateAt(l) = StateAt(i)
    BY <1>1, <1>6 DEF LastTurnStands
  <2>2. last \in Turns(i) /\ \A k \in Turns(i) : k <= last
    BY <2>1
  <2> HIDE DEF last
  <2>3. last = l /\ l \in Followed
    BY <1>2, <2>1, <2>2 DEF Turns
  <2>4. (Told(l, "up") => StateAt(l) = 1) /\ (Told(l, "down") => StateAt(l) = 0)
    BY <1>1, <2>3 DEF TurnIsReal
  <2>5. QED BY <1>3, <1>6, <2>1, <2>3, <2>4 DEF Turns
<1>7. QED BY <1>5, <1>6

\* The invariant gives the types and says that transitions are told.
LEMMA StatusInvSafe == StatusInv => StatusTypeOK /\ TransitionsAreTold
<1> SUFFICES ASSUME StatusInv PROVE StatusTypeOK /\ TransitionsAreTold
  OBVIOUS
<1>1. StatusTypeOK
  BY DEF StatusInv, StatusTypes, StatusTypeOK
<1>2. \A i \in Followed :
       /\ SaidAt(i) = Serves(told[i].r)
       /\ (Told(i, "up") \/ Told(i, "down")) => i - 1 \in Followed /\ SaidAt(i - 1) # SaidAt(i)
  BY SaidIsState DEF StatusInv, TurnIsReal, StateAt
<1>3. QED BY <1>1, <1>2 DEF TransitionsAreTold, StatusInv, DepthTold
=============================================================================
