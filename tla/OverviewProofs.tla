--------------------------- MODULE OverviewProofs ---------------------------
(***************************************************************************)
(* Machine-checked facts about the Overview and the runs, for any number   *)
(* of sessions, readings, polls and losses: what every step of theirs, and *)
(* every begin and end of a session, keeps.  ConsoleProofs puts them       *)
(* together with the other parts of the page.                              *)
(***************************************************************************)
EXTENDS Overview, RunProgress, FiniteSetTheorems, FunctionTheorems, SequenceTheorems, TLAPS

\* The session on screen is one that has begun.
OnScreen == begun \in Nat /\ begun <= MaxSessions /\ session \in 0..begun

\* A finite set of numbers has a greatest element, and Max is it: the number of those above it
\* tells the elements apart, so that one of them has none above it.
LEMMA MaxIsGreatest ==
  ASSUME NEW S \in SUBSET Int, IsFiniteSet(S), S # {}
  PROVE  Max(S) \in S /\ \A y \in S : y <= Max(S)
<1> DEFINE Above(x) == {y \in S : y > x}
           n == Cardinality(S)
           f == [x \in S |-> Cardinality(Above(x))]
<1>1. n \in Nat \ {0}
  BY FS_CardinalityType, FS_EmptySet
<1>2. \A x \in S : /\ IsFiniteSet(Above(x)) /\ Cardinality(Above(x)) \in 0..(n - 1)
  <2>1. ASSUME NEW x \in S
        PROVE  IsFiniteSet(Above(x)) /\ Cardinality(Above(x)) \in 0..(n - 1)
    <3>1. Above(x) \in SUBSET S /\ x \notin Above(x)
      OBVIOUS
    <3> HIDE DEF Above
    <3>2. IsFiniteSet(Above(x)) /\ Cardinality(Above(x)) <= n /\ Cardinality(Above(x)) # n
      BY <3>1, FS_Subset
    <3>3. Cardinality(Above(x)) \in Nat
      BY <3>2, FS_CardinalityType
    <3>4. QED BY <1>1, <3>2, <3>3
  <2>2. QED BY <2>1
<1>3. ASSUME NEW x \in S, NEW z \in S, x < z PROVE Cardinality(Above(x)) # Cardinality(Above(z))
  <2>1. Above(z) \in SUBSET Above(x) /\ z \in Above(x) /\ z \notin Above(z)
    <3>1. x \in Int /\ z \in Int /\ \A y \in S : y \in Int
      OBVIOUS
    <3>2. \A y \in S : y > z => y > x
      BY <1>3, <3>1
    <3>3. z > x /\ ~(z > z)
      BY <1>3, <3>1
    <3>4. QED BY <3>2, <3>3
  <2> HIDE DEF Above
  <2>2. QED BY <1>2, <2>1, FS_Subset
<1>4. f \in Injection(S, 0..(n - 1))
  <2>1. \A x, z \in S : x # z => Cardinality(Above(x)) # Cardinality(Above(z))
    <3>1. ASSUME NEW x \in S, NEW z \in S, x # z
          PROVE  Cardinality(Above(x)) # Cardinality(Above(z))
      <4>1. x < z \/ z < x
        BY <3>1
      <4> HIDE DEF Above
      <4>2. QED BY <1>3, <4>1
    <3>2. QED BY <3>1
  <2> HIDE DEF Above
  <2>2. f \in [S -> 0..(n - 1)] /\ \A x, z \in S : f[x] = f[z] => x = z
    BY <1>2, <2>1
  <2>3. QED BY <2>2, Fun_IsInj
<1>5. f \in Surjection(S, 0..(n - 1))
  <2>1. IsFiniteSet(0..(n - 1)) /\ Cardinality(0..(n - 1)) = n
    BY <1>1, FS_Interval
  <2>2. QED BY <1>4, <2>1, FS_Injection
<1>6. PICK x \in S : f[x] = 0
  <2>1. 0 \in 0..(n - 1)
    BY <1>1
  <2> HIDE DEF f
  <2>2. QED BY <1>5, <2>1 DEF Surjection
<1>7. Above(x) = {}
  <2>1. Cardinality(Above(x)) = 0
    BY <1>6
  <2> HIDE DEF Above
  <2>2. QED BY <1>2, <2>1, FS_EmptySet
<1>8. \A y \in S : x >= y
  BY <1>7
<1>9. QED BY <1>8 DEF Max

-----------------------------------------------------------------------------
(* The Overview: the layout, the histories and what is drawn from them *)

\* What a reading says: -1 stands for a queue it lacks.
Saying ==
  [at : Nat, down : BOOLEAN, scraped : BOOLEAN,
   service : {"healthy", "unhealthy", "unknown"},
   platform : {"healthy", "unhealthy", "unreachable"},
   group : {"application", "observability"}, db : {"healthy", "unavailable"}, dead : Int,
   work : [messages : Int, ack : Int \cup {Unknown},
           condition : {None, "stalled", "awaiting-marker"}]]
Readings ==
  {r \in Saying : r.work.messages >= -1 /\ r.dead >= -1}

\* What the histories hold.
Samples == [t : Nat, messages : Nat, ack : Int \cup {Unknown},
            condition : {None, "stalled", "awaiting-marker"}]

\* Readings are taken one after the other, and handed over in that order.
ReadingsTaken ==
  /\ readings \in Seq(Readings) /\ Len(readings) <= MaxReadings /\ fed \in 0..Len(readings)
  /\ \A i, j \in 1..Len(readings) : i < j => readings[i].at < readings[j].at

\* Requests are those of sessions that have begun, and the socket that of the session.
RequestsBegun ==
  /\ asking \cup alertCalls \subseteq 1..begun /\ waiting \subseteq 0..begun
  /\ initial \subseteq [session : 1..begun, from : 0..Len(readings)]
  /\ {connected, strayed} \subseteq BOOLEAN
  /\ session = 0 => ~connected

\* The layout is asked for only while there is none, and nothing is shown without one.
LayoutFirst ==
  /\ topology \in 0..begun /\ pending \in 0..Len(readings)
  /\ asking # {} => topology = 0
  /\ shown # 0 => topology # 0

\* The history of the work queue ends with the newest of the readings heard, and the cell is
\* drawn from the histories.
HistoryHeard ==
  /\ work \in Seq(Samples) /\ dead \in Seq(Samples)
  /\ unavailable \in BOOLEAN /\ heard \subseteq 1..Len(readings)
  /\ heard # {} <=> work # <<>>
  /\ heard # {} =>
       /\ ~unavailable
       /\ cell = CellModel(unavailable, work, dead)
       /\ \E n \in heard :
            /\ \A m \in heard : m <= n
            /\ Latest(work).t = readings[n].at
            /\ Latest(work).messages = readings[n].work.messages
            /\ Latest(work).condition = readings[n].work.condition

\* The bar as it follows from what is known now.
Bar ==
  AlertItems(alerts) \cup PlatformItems(readings[shown].platform, readings[shown].group)
    \cup DatastoreItems(readings[shown].db)
    \cup PipelineItems(readings[shown].down, unavailable, readings[shown].service,
                       CellModel(unavailable, work, dead))

\* While no feed was lost since the cell was drawn, the cell and the bar say what is known now.
BarDerived ==
  /\ shown \in 0..Len(readings) /\ alerts \in AlertAnswers /\ {unfed, collapsed} \subseteq BOOLEAN
  /\ \A item \in items : item.severity \in {"crit", "warn"}
  /\ (shown # 0 /\ ~unfed) =>
       /\ cell = CellModel(unavailable, work, dead)
       /\ items = Bar /\ header = Overall(items, readings[shown].service)

\* The dead-letter state the cell shows is the one last logged.
LoggedAsDrawn == (~unfed /\ cell.dlq.state # "unknown") => loggedKind = cell.dlq.kind

\* The inductive invariant of the Overview: what is inductive without the log, and the log.
OverviewCore ==
  /\ ReadingsTaken /\ RequestsBegun /\ LayoutFirst /\ HistoryHeard /\ BarDerived
  /\ OutlivesOnlyByLateAnswer
OverviewInv == OverviewCore /\ LoggedAsDrawn

\* A history whose samples have times goes on with a sample unless it is late, and then ends
\* with it.
LEMMA RecordEnds ==
  ASSUME NEW S, \A x \in S : x.t \in Int, NEW q \in Seq(S), NEW s \in S
  PROVE  /\ Record(q, s) \in Seq(S) /\ Record(q, s) # <<>>
         /\ (q # <<>> /\ s.t < Latest(q).t) => Record(q, s) = q
         /\ ~(q # <<>> /\ s.t < Latest(q).t) => Latest(Record(q, s)) = s
<1> DEFINE j == Joined(q, s)
           a == Append(j, s)
           base == {i \in DOMAIN a : a[i].t <= s.t - TrendTime}
           from == IF base = {} THEN 1 ELSE Max(base)
           w == SubSeq(a, from, Len(a))
<1>1. j \in Seq(S)
  <2>1. /\ Len(q) \in Nat /\ <<>> \in Seq(S) /\ q # <<>> => Len(q) >= 1
    BY EmptySeq, LenProperties
  <2>2. q # <<>> => SubSeq(q, 1, Len(q) - 1) \in Seq(S)
    BY <2>1, SubSeqProperties
  <2>3. QED BY <2>1, <2>2 DEF Joined
<1> HIDE DEF j
<1>2. /\ a \in Seq(S) /\ Len(a) = Len(j) + 1 /\ a[Len(a)] = s /\ Len(j) \in Nat
  BY <1>1, AppendProperties, LenProperties
<1> HIDE DEF a
<1>3. base \in SUBSET Int /\ IsFiniteSet(base) /\ base \subseteq 1..Len(a)
  <2>1. DOMAIN a = 1..Len(a)
    BY <1>2, LenProperties
  <2>2. IsFiniteSet(1..Len(a))
    BY <1>2, FS_Interval
  <2>3. QED BY <2>1, <2>2, FS_Subset
<1>4. from \in 1..Len(a)
  <2>1. CASE base = {}
    BY <1>2, <2>1
  <2>2. CASE base # {}
    <3> HIDE DEF base
    <3>1. Max(base) \in base
      BY <1>3, <2>2, MaxIsGreatest
    <3>2. QED BY <1>3, <2>2, <3>1
  <2>3. QED BY <2>1, <2>2
<1> HIDE DEF from
<1>5. /\ w \in Seq(S) /\ Len(w) = Len(a) - from + 1 /\ Len(w) >= 1
      /\ \A i \in 1..(Len(a) - from + 1) : w[i] = a[from + i - 1]
  BY <1>2, <1>4, SubSeqProperties
<1> HIDE DEF w
<1>6. w # <<>> /\ w[Len(w)] = s
  <2>1. Len(a) \in Nat /\ Len(w) \in 1..(Len(a) - from + 1)
    BY <1>2, <1>4, <1>5
  <2>2. w[Len(w)] = a[from + Len(w) - 1]
    BY <1>5, <2>1
  <2>3. from + Len(w) - 1 = Len(a)
    BY <1>2, <1>4, <1>5
  <2>4. w # <<>>
    BY <1>5, EmptySeq
  <2>5. QED BY <1>2, <2>2, <2>3, <2>4
<1>7. w = Windowed(Append(Joined(q, s), s), s.t - TrendTime)
  BY DEF w, from, base, a, j, Windowed
<1>8. QED BY <1>5, <1>6, <1>7 DEF Record, Latest

\* What the work queue's history is assessed as.
LEMMA QueueAssessed ==
  ASSUME NEW q \in Seq(Samples)
  PROVE  /\ AssessQueue(q).state = "crit" <=> AssessQueue(q).kind \in {"stalled", "no-consumer"}
         /\ AssessQueue(q).state \in {"unknown", "ok", "crit"}
         /\ q # <<>> => AssessQueue(q).kind =
              IF Latest(q).condition # None THEN Latest(q).condition
              ELSE IF Latest(q).messages = 0 THEN "drained" ELSE "flowing"
<1>1. CASE q = <<>>
  BY <1>1 DEF AssessQueue
<1>2. CASE q # <<>>
  <2>1. Latest(q) \in Samples
    BY <1>2, LenProperties, EmptySeq DEF Latest
  <2>2. Latest(q).condition \in {None, "stalled", "awaiting-marker"}
    BY <2>1 DEF Samples
  <2> DEFINE c == Latest(q).condition
             m == Latest(q).messages
  <2>3. AssessQueue(q) = CASE c = "awaiting-marker" -> [state |-> "ok", kind |-> c]
            [] c \in {"stalled", "no-consumer"} -> [state |-> "crit", kind |-> c]
            [] OTHER -> [state |-> "ok", kind |-> IF m = 0 THEN "drained" ELSE "flowing"]
    BY <1>2 DEF AssessQueue
  <2> HIDE DEF c, m
  <2>4. c = "awaiting-marker" \/ c = "stalled" \/ c = None
    BY <2>2 DEF c
  <2>5. CASE c = "awaiting-marker"
    BY <2>3, <2>5 DEF None, c, m
  <2>6. CASE c = "stalled"
    BY <2>3, <2>6 DEF None, c, m
  <2>7. CASE c = None
    BY <2>3, <2>7 DEF None, c, m
  <2>8. QED BY <2>4, <2>5, <2>6, <2>7
<1>3. QED BY <1>1, <1>2

\* What the dead-letter queue's history is assessed as.
LEMMA DlqAssessed ==
  ASSUME NEW q \in Seq(Samples)
  PROVE  /\ AssessDlq(q).state = "crit" <=> AssessDlq(q).kind = "dlq-growing"
         /\ AssessDlq(q).state = "warn" <=> AssessDlq(q).kind = "dlq-static"
         /\ AssessDlq(q).state = "unknown" <=> q = <<>>
         /\ AssessDlq(q).state \in {"unknown", "ok", "warn", "crit"}
         /\ AssessDlq(q).kind # "unavailable"
<1>1. CASE q = <<>>
  BY <1>1 DEF AssessDlq
<1>2. CASE q # <<>>
  <2>1. Latest(q) \in Samples /\ Head(q) \in Samples
    BY <1>2, LenProperties, EmptySeq DEF Latest
  <2>2. DepthChange(q) \in Int
    BY <1>2, <2>1 DEF DepthChange, Samples
  <2> DEFINE d == DepthChange(q)
  <2>3. CASE d > 0
    BY <1>2, <2>2, <2>3 DEF AssessDlq
  <2>4. CASE d <= 0
    BY <1>2, <2>2, <2>4 DEF AssessDlq
  <2>5. QED BY <2>2, <2>3, <2>4
<1>3. QED BY <1>1, <1>2

\* What a cell says, and what the bar says of it.
LEMMA CellAssessed ==
  ASSUME NEW u \in BOOLEAN, NEW w \in Seq(Samples), NEW d \in Seq(Samples)
  PROVE  LET c == CellModel(u, w, d)
         IN /\ ~u => c.health = AssessQueue(w) /\ c.dlq = AssessDlq(d)
            /\ u => CellItems(c) = {}
            /\ c.state = "crit" => \E item \in CellItems(c) : item.severity = "crit"
            /\ \A item \in CellItems(c) : /\ item.severity \in {"crit", "warn"}
                                          /\ item.id[1] \in {"queue", "dlq"}
            /\ (~u /\ d # <<>>) => c.dlq.state # "unknown"
            /\ c.state = "crit" => ~u
<1> DEFINE c == CellModel(u, w, d)
<1>1. /\ c.health = IF u THEN [state |-> "unknown", kind |-> "unavailable"] ELSE AssessQueue(w)
      /\ c.dlq = IF u THEN [state |-> "unknown", kind |-> "unavailable"] ELSE AssessDlq(d)
      /\ c.state = Worst(c.health.state, c.dlq.state)
  BY DEF CellModel
<1> HIDE DEF c
<1>2. CASE u
  <2>1. CellItems(c) = {} /\ c.state = "unknown"
    BY <1>1, <1>2 DEF CellItems, Nothing, Worst
  <2>2. QED BY <1>2, <2>1 DEF c
<1>3. CASE ~u
  <2>1. c.health = AssessQueue(w) /\ c.dlq = AssessDlq(d)
    BY <1>1, <1>3
  <2>2. /\ c.health.state = "crit" <=> c.health.kind \in {"stalled", "no-consumer"}
        /\ c.health.state \in {"unknown", "ok", "crit"}
        /\ c.dlq.state = "crit" <=> c.dlq.kind = "dlq-growing"
        /\ c.dlq.state = "warn" <=> c.dlq.kind = "dlq-static"
        /\ c.dlq.state = "unknown" <=> d = <<>>
        /\ c.dlq.state \in {"unknown", "ok", "warn", "crit"}
    BY <2>1, QueueAssessed, DlqAssessed
  <2>3. c.state = "crit" => c.health.state = "crit" \/ c.dlq.state = "crit"
    BY <1>1, <2>2 DEF Worst
  <2>4. \A id, sev, kind : \A item \in Item(id, sev, kind) :
          item.severity = sev /\ item.id[1] = id
    BY DEF Item
  <2>5. \A id, sev, kind : \E item \in Item(id, sev, kind) : TRUE
    BY DEF Item
  <2> DEFINE health == IF c.health.kind \in {"no-consumer", "stalled"}
                       THEN Item("queue", "crit", c.health.kind) ELSE {}
             dlq == IF c.dlq.kind \in {"dlq-growing", "dlq-static"}
                    THEN Item("dlq", c.dlq.state, c.dlq.kind) ELSE {}
  <2>6. CellItems(c) = health \cup dlq
    BY DEF CellItems, Nothing
  <2>7. /\ \A item \in health : item.severity = "crit" /\ item.id[1] = "queue"
        /\ \A item \in dlq : item.severity \in {"crit", "warn"} /\ item.id[1] = "dlq"
    BY <2>2, <2>4
  <2>8. c.state = "crit" => \E item \in health \cup dlq : item.severity = "crit"
    <3>1. CASE c.health.state = "crit"
      BY <2>2, <2>4, <2>5, <3>1
    <3>2. CASE c.dlq.state = "crit"
      BY <2>2, <2>4, <2>5, <3>2
    <3>3. QED BY <2>3, <3>1, <3>2
  <2> HIDE DEF health, dlq
  <2>9. QED BY <1>3, <2>1, <2>2, <2>6, <2>7, <2>8 DEF c
<1>4. QED BY <1>2, <1>3

\* Every reading the server may take is one.
LEMMA ContentsAre == \A r \in Contents, t \in Nat : [r EXCEPT !.at = t] \in Readings
<1> SUFFICES ASSUME NEW r \in Contents, NEW t \in Nat PROVE [r EXCEPT !.at = t] \in Readings
  OBVIOUS
<1>1. Quiet \in Saying /\ Quiet.work.messages = 1 /\ Quiet.dead = 0
  BY DEF Quiet, Saying, None
<1>2. Stalled \in Saying /\ Stalled.work.messages = 2 /\ Stalled.dead = 1
  <2> DEFINE w == [messages |-> 2, ack |-> 0, condition |-> "stalled"]
  <2>1. w \in [messages : Int, ack : Int \cup {Unknown},
               condition : {None, "stalled", "awaiting-marker"}] /\ w.messages = 2
    OBVIOUS
  <2>2. Stalled = [Quiet EXCEPT !.work = w, !.dead = 1, !.platform = "unhealthy"]
    BY DEF Stalled
  <2> HIDE DEF w
  <2>3. QED BY <1>1, <2>1, <2>2 DEF Saying
<1>3. Waiting \in Saying /\ Waiting.work.messages = 2 /\ Waiting.dead = -1
  <2> DEFINE w == [messages |-> 2, ack |-> Unknown, condition |-> "awaiting-marker"]
  <2>1. w \in [messages : Int, ack : Int \cup {Unknown},
               condition : {None, "stalled", "awaiting-marker"}] /\ w.messages = 2
    OBVIOUS
  <2>2. Waiting = [Quiet EXCEPT !.work = w, !.dead = -1, !.db = "unavailable"]
    BY DEF Waiting
  <2> HIDE DEF w
  <2>3. \A d \in Int : [Quiet EXCEPT !.work = w, !.dead = d, !.db = "unavailable"] \in
          {q \in Saying : q.work = w /\ q.dead = d}
    BY <1>1, <2>1 DEF Saying
  <2>4. -1 \in Int
    OBVIOUS
  <2>5. QED BY <2>1, <2>2, <2>3, <2>4
<1>4. Missing \in [messages : Int, ack : Int \cup {Unknown},
                   condition : {None, "stalled", "awaiting-marker"}]
      /\ Missing.messages = -1
  BY DEF Missing
<1>5. Outage \in Saying /\ Outage.work.messages = -1 /\ Outage.dead = -1
  BY <1>1, <1>4 DEF Outage, Saying
<1>6. Absent \in Saying /\ Absent.work.messages = -1 /\ Absent.dead = 0
  BY <1>1, <1>4 DEF Absent, Saying
<1>7. r \in Saying /\ r.work.messages >= -1 /\ r.dead >= -1
  BY <1>1, <1>2, <1>3, <1>5, <1>6 DEF Contents
<1>8. /\ [r EXCEPT !.at = t] \in Saying
      /\ [r EXCEPT !.at = t].work = r.work /\ [r EXCEPT !.at = t].dead = r.dead
  BY <1>7 DEF Saying
<1>9. QED BY <1>7, <1>8 DEF Readings

\* The history of a queue after a reading.
LEMMA SampledKeeps ==
  ASSUME NEW r \in Readings, NEW q \in Seq(Samples), NEW m \in Int, m >= -1,
         NEW a \in Int \cup {Unknown}, NEW c \in {None, "stalled", "awaiting-marker"}
  PROVE  /\ Sampled(q, r, m, a, c) \in Seq(Samples)
         /\ Sampled(q, r, m, a, c) = <<>> <=> ~r.scraped \/ m = -1
         /\ (q # <<>> /\ r.at < Latest(q).t /\ Sampled(q, r, m, a, c) # <<>>) =>
              Sampled(q, r, m, a, c) = q
         /\ (~(q # <<>> /\ r.at < Latest(q).t) /\ Sampled(q, r, m, a, c) # <<>>) =>
              Latest(Sampled(q, r, m, a, c)) = [t |-> r.at, messages |-> m, ack |-> a, condition |-> c]
<1> DEFINE s == [t |-> r.at, messages |-> m, ack |-> a, condition |-> c]
<1>1. CASE ~r.scraped \/ m = -1
  <2>1. Sampled(q, r, m, a, c) = <<>>
    BY <1>1 DEF Sampled
  <2>2. QED BY <1>1, <2>1, EmptySeq
<1>2. CASE ~(~r.scraped \/ m = -1)
  <2>1. Sampled(q, r, m, a, c) = Record(q, s)
    BY <1>2 DEF Sampled
  <2>2. s \in Samples /\ s.t = r.at /\ \A x \in Samples : x.t \in Int
    BY <1>2 DEF Samples, Readings, Saying
  <2> HIDE DEF s
  <2>3. /\ Record(q, s) \in Seq(Samples) /\ Record(q, s) # <<>>
        /\ (q # <<>> /\ s.t < Latest(q).t) => Record(q, s) = q
        /\ ~(q # <<>> /\ s.t < Latest(q).t) => Latest(Record(q, s)) = s
    BY <2>2, RecordEnds
  <2>4. QED BY <1>2, <2>1, <2>2, <2>3 DEF s
<1>3. QED BY <1>1, <1>2

\* What a reading leaves of the histories and the cell: the readings heard end with the newest.
LEMMA QueuesUpdated ==
  ASSUME ReadingsTaken, HistoryHeard, NEW n \in 1..Len(readings),
         readings' = readings, NEW w, NEW d, NEW was, UpdateQueues(n, w, d, was),
         (w = work /\ d = dead) \/ (w = <<>> /\ d = <<>>)
  PROVE  /\ HistoryHeard' /\ unfed' = FALSE
         /\ cell' = CellModel(unavailable', work', dead')
<1> DEFINE r == readings[n]
           new == [t |-> r.at, messages |-> r.work.messages, ack |-> r.work.ack,
                   condition |-> r.work.condition]
<1>1. /\ r \in Readings /\ \A m \in 1..Len(readings) : readings[m].at \in Nat
      /\ Len(readings) \in Nat
  <2>1. readings \in Seq(Readings)
    BY DEF ReadingsTaken
  <2>2. Len(readings) \in Nat /\ \A m \in 1..Len(readings) : readings[m] \in Readings
    BY <2>1, LenProperties
  <2>3. QED BY <2>2 DEF Readings, Saying
<1>2. /\ r.work.messages \in Int /\ r.work.messages >= -1 /\ r.dead \in Int /\ r.dead >= -1
      /\ r.work.ack \in Int \cup {Unknown} /\ r.at \in Nat
      /\ r.work.condition \in {None, "stalled", "awaiting-marker"} /\ r.scraped \in BOOLEAN
  BY <1>1 DEF Readings, Saying
<1>3. w \in Seq(Samples) /\ d \in Seq(Samples)
  BY EmptySeq DEF HistoryHeard
<1>4. /\ unavailable' = ~r.scraped
      /\ work' = Sampled(w, r, r.work.messages, r.work.ack, r.work.condition)
      /\ dead' = Sampled(d, r, r.dead, Unknown, None)
      /\ cell' = CellModel(unavailable', work', dead') /\ unfed' = FALSE
      /\ loggedKind' = IF cell'.dlq.state = "unknown" THEN was ELSE cell'.dlq.kind
      /\ heard' = IF work' = <<>> THEN {} ELSE {n} \cup IF w = <<>> THEN {} ELSE heard
  BY DEF UpdateQueues
<1> HIDE DEF r
<1>5. /\ work' \in Seq(Samples) /\ (work' = <<>> <=> ~r.scraped \/ r.work.messages = -1)
      /\ (w # <<>> /\ r.at < Latest(w).t /\ work' # <<>>) => work' = w
      /\ (~(w # <<>> /\ r.at < Latest(w).t) /\ work' # <<>>) => Latest(work') = new
  <2> DEFINE q == Sampled(w, r, r.work.messages, r.work.ack, r.work.condition)
  <2>1. /\ q \in Seq(Samples) /\ (q = <<>> <=> ~r.scraped \/ r.work.messages = -1)
        /\ (w # <<>> /\ r.at < Latest(w).t /\ q # <<>>) => q = w
        /\ (~(w # <<>> /\ r.at < Latest(w).t) /\ q # <<>>) => Latest(q) = new
    <3> HIDE DEF Latest
    <3>1. QED BY <1>1, <1>2, <1>3, SampledKeeps
  <2> HIDE DEF q
  <2>2. work' = q
    BY <1>4 DEF q
  <2>3. Latest(work') = Latest(q)
    BY <2>2 DEF Latest
  <2>4. QED BY <2>1, <2>2, <2>3
<1>6. /\ dead' \in Seq(Samples) /\ (dead' = <<>> <=> ~r.scraped \/ r.dead = -1)
  <2> DEFINE q == Sampled(d, r, r.dead, Unknown, None)
  <2>1. q \in Seq(Samples) /\ (q = <<>> <=> ~r.scraped \/ r.dead = -1)
    BY <1>1, <1>2, <1>3, SampledKeeps
  <2> HIDE DEF q
  <2>2. QED BY <1>4, <2>1 DEF q
<1>7. /\ new.t = r.at /\ new.messages = r.work.messages /\ new.condition = r.work.condition
  BY DEF new
<1> HIDE DEF new
<1>8. unavailable' \in BOOLEAN /\ heard \subseteq 1..Len(readings)
      /\ heard' \subseteq 1..Len(readings)
  BY <1>2, <1>4 DEF HistoryHeard
<1>9. heard' # {} <=> work' # <<>>
  BY <1>4
<1>10. ASSUME heard' # {}
       PROVE  /\ ~unavailable'
              /\ \E k \in heard' :
                   /\ \A m \in heard' : m <= k
                   /\ Latest(work').t = readings[k].at
                   /\ Latest(work').messages = readings[k].work.messages
                   /\ Latest(work').condition = readings[k].work.condition
  <2>1. work' # <<>> /\ ~unavailable'
    BY <1>2, <1>4, <1>5, <1>9, <1>10
  <2>3. heard' = {n} \cup IF w = <<>> THEN {} ELSE heard
    BY <1>4, <2>1
  <2>4. CASE w = <<>>
    BY <1>5, <1>7, <2>1, <2>3, <2>4 DEF r
  <2>5. CASE w # <<>>
    <3>1. w = work /\ heard # {} /\ heard' = {n} \cup heard
      BY <2>3, <2>5 DEF HistoryHeard
    <3>2. PICK k \in heard : /\ \A m \in heard : m <= k
                             /\ Latest(work).t = readings[k].at
                             /\ Latest(work).messages = readings[k].work.messages
                             /\ Latest(work).condition = readings[k].work.condition
      BY <3>1 DEF HistoryHeard
    <3>3. k \in 1..Len(readings) /\ k \in Int /\ n \in Int /\ \A m \in heard : m \in Int
      BY <1>8, <3>2
    <3>4. \A i, j \in 1..Len(readings) : i < j => readings[i].at < readings[j].at
      BY DEF ReadingsTaken
    <3>5. CASE r.at < Latest(work).t
      <4>1. work' = work
        BY <1>5, <2>1, <2>5, <3>1, <3>5
      <4>2. ~(k < n) /\ k # n
        BY <1>1, <3>2, <3>3, <3>4, <3>5 DEF r
      <4>3. n <= k
        BY <3>3, <4>2
      <4>4. \A m \in heard' : m <= k
        BY <3>1, <3>2, <4>3
      <4>5. QED BY <2>1, <3>1, <3>2, <4>1, <4>4
    <3>6. CASE ~(r.at < Latest(work).t)
      <4>1. Latest(work') = new
        BY <1>5, <2>1, <3>1, <3>6
      <4>2. ~(n < k)
        BY <1>1, <3>2, <3>3, <3>4, <3>6 DEF r
      <4>3. k <= n
        BY <3>3, <4>2
      <4>4. \A m \in heard' : m <= n
        BY <3>1, <3>2, <3>3, <4>3
      <4>5. n \in heard'
        BY <3>1
      <4>6. QED BY <1>7, <2>1, <4>1, <4>4, <4>5 DEF r
    <3>7. QED BY <3>5, <3>6
  <2>6. QED BY <2>4, <2>5
<1>11. HistoryHeard'
  BY <1>4, <1>5, <1>6, <1>8, <1>9, <1>10 DEF HistoryHeard
<1>12. QED BY <1>4, <1>8, <1>11

\* The bar derived anew says what is known once the step is over.
LEMMA BarNow ==
  ASSUME readings' = readings, alerts' \in AlertAnswers, unavailable' \in BOOLEAN,
         work' \in Seq(Samples), dead' \in Seq(Samples), NEW hidden, UpdateAttention(hidden)
  PROVE  /\ collapsed' \in BOOLEAN
         /\ \A item \in items' : item.severity \in {"crit", "warn"}
         /\ (shown' # 0 /\ topology' # 0) =>
              items' = Bar' /\ header' = Overall(items', readings'[shown'].service)
<1> DEFINE c == CellModel(unavailable', work', dead')
           r == readings[shown']
<1>1. /\ items' = Derived
      /\ collapsed' = (hidden /\ \A item \in items' : \E old \in items : old.id = item.id)
      /\ header' = IF shown' = 0 THEN "connecting"
                   ELSE Overall(items', IF topology' = 0 THEN None ELSE r.service)
  BY DEF UpdateAttention
<1>2. collapsed' \in BOOLEAN
  BY <1>1
<1>3. /\ Derived = AlertItems(alerts')
              \cup IF shown' = 0 THEN Nothing
                   ELSE PlatformItems(r.platform, r.group) \cup DatastoreItems(r.db)
                          \cup IF topology' = 0 THEN Nothing
                               ELSE PipelineItems(r.down, unavailable', r.service, c)
  BY DEF Derived
<1>4. \A id, kind : \A sev \in {"crit", "warn"} : \A item \in Item(id, sev, kind) :
        item.severity \in {"crit", "warn"}
  BY DEF Item
<1>5. \A item \in AlertItems(alerts') : item.severity \in {"crit", "warn"}
  BY DEF AlertItems, AlertAnswers, Firing
<1>6. \A status, group : \A item \in PlatformItems(status, group) :
        item.severity \in {"crit", "warn"}
  BY <1>4 DEF PlatformItems, Nothing
<1>7. \A status : \A item \in DatastoreItems(status) : item.severity \in {"crit", "warn"}
  BY <1>4 DEF DatastoreItems, Nothing
<1>8. \A item \in CellItems(c) : item.severity \in {"crit", "warn"}
  BY CellAssessed
<1>9. \A down, u, service : \A item \in PipelineItems(down, u, service, c) :
        item.severity \in {"crit", "warn"}
  <2>1. \A service : \A item \in ServiceItems(service) : item.severity \in {"crit", "warn"}
    BY <1>4 DEF ServiceItems, Nothing
  <2> HIDE DEF c
  <2>2. QED BY <1>4, <1>8, <2>1 DEF PipelineItems
<1> HIDE DEF c
<1>10. \A item \in items' : item.severity \in {"crit", "warn"}
  BY <1>1, <1>3, <1>5, <1>6, <1>7, <1>9 DEF Nothing
<1>11. ASSUME shown' # 0, topology' # 0
       PROVE  items' = Bar' /\ header' = Overall(items', readings'[shown'].service)
  <2>1. Bar' = AlertItems(alerts') \cup PlatformItems(r.platform, r.group)
                 \cup DatastoreItems(r.db) \cup PipelineItems(r.down, unavailable', r.service, c)
    BY DEF Bar, c
  <2>2. QED BY <1>1, <1>3, <1>11, <2>1
<1>12. QED BY <1>2, <1>10, <1>11

\* A reading is applied, to the histories kept or to none: what is drawn says what is known.
LEMMA ReadingApplied ==
  ASSUME ReadingsTaken, HistoryHeard, BarDerived, NEW n \in 1..Len(readings),
         readings' = readings, NEW w, NEW d, NEW was, UpdateQueues(n, w, d, was),
         (w = work /\ d = dead) \/ (w = <<>> /\ d = <<>>),
         shown' = n, alerts' = alerts, topology' # 0, UpdateAttention(collapsed)
  PROVE  HistoryHeard' /\ BarDerived'
<1>1. /\ HistoryHeard' /\ unfed' = FALSE /\ cell' = CellModel(unavailable', work', dead')
  BY QueuesUpdated
<1>2. alerts' \in AlertAnswers /\ shown' \in 0..Len(readings') /\ shown' # 0
  <2>1. Len(readings) \in Nat
    BY LenProperties DEF ReadingsTaken
  <2>2. QED BY <2>1 DEF BarDerived
<1>3. /\ collapsed' \in BOOLEAN
      /\ \A item \in items' : item.severity \in {"crit", "warn"}
      /\ items' = Bar' /\ header' = Overall(items', readings'[shown'].service)
  BY <1>1, <1>2, BarNow DEF HistoryHeard
<1>4. QED BY <1>1, <1>2, <1>3 DEF BarDerived

\* updateDashboard: without a layout the reading is kept back, and otherwise applied.
LEMMA DashboardUpdated ==
  ASSUME OnScreen, OverviewCore, UNCHANGED pageSession, begun # 0,
         NEW n \in 1..Len(readings), readings' = readings, UpdateDashboard(n)
  PROVE  /\ HistoryHeard' /\ BarDerived' /\ LayoutFirst'
         /\ topology' = topology /\ asking' \subseteq 1..begun' /\ waiting' \subseteq 0..begun'
<1>1. /\ begun' = begun /\ begun \in Nat /\ Len(readings) \in Nat /\ session' = session
  BY LenProperties DEF OnScreen, pageSession, OverviewCore, ReadingsTaken
<1>2. CASE topology = 0
  <2>1. /\ pending' = n /\ waiting' = waiting \cup {0}
        /\ asking' = IF asking = {} THEN {begun} ELSE asking
        /\ UNCHANGED <<topology, historyVars, drawnVars, barVars>>
    BY <1>2 DEF UpdateDashboard, Await
  <2>2. asking' \subseteq 1..begun' /\ waiting' \subseteq 0..begun'
    BY <1>1, <2>1 DEF OverviewCore, RequestsBegun
  <2>3. LayoutFirst'
    BY <1>1, <1>2, <2>1 DEF OverviewCore, LayoutFirst, barVars
  <2>4. HistoryHeard'
    BY <2>1 DEF OverviewCore, HistoryHeard, historyVars, drawnVars
  <2>5. BarDerived'
    BY <2>1 DEF OverviewCore, BarDerived, Bar, historyVars, drawnVars, barVars
  <2>6. QED BY <2>1, <2>2, <2>3, <2>4, <2>5
<1>3. CASE topology # 0
  <2>1. UNCHANGED <<topology, asking, waiting, pending, alerts>> /\ Apply(n)
    BY <1>3 DEF UpdateDashboard
  <2>2. UpdateQueues(n, work, dead, loggedKind) /\ shown' = n /\ UpdateAttention(collapsed)
    BY <2>1 DEF Apply
  <2>3. HistoryHeard' /\ BarDerived'
    BY <1>3, <2>1, <2>2, ReadingApplied DEF OverviewCore
  <2>4. asking' \subseteq 1..begun' /\ waiting' \subseteq 0..begun'
    BY <1>1, <2>1 DEF OverviewCore, RequestsBegun
  <2>5. LayoutFirst'
    BY <1>1, <1>3, <2>1 DEF OverviewCore, LayoutFirst
  <2>6. QED BY <2>1, <2>3, <2>4, <2>5
<1>4. QED BY <1>2, <1>3

\* The histories are lost, and the cell with them or not: nothing is heard.
LEMMA HistoryForgotten ==
  ASSUME HistoryHeard, ResetHistory, unavailable' = unavailable
  PROVE  HistoryHeard'
BY EmptySeq DEF HistoryHeard, ResetHistory

\* What a step that leaves the histories and what is drawn keeps of them, and of the bar.
LEMMA PageStands ==
  ASSUME HistoryHeard, BarDerived, UNCHANGED <<readings, historyVars, cell, unfed, barVars>>
  PROVE  HistoryHeard' /\ BarDerived'
<1>1. HistoryHeard'
  BY DEF HistoryHeard, historyVars
<1>2. BarDerived'
  BY DEF BarDerived, Bar, historyVars, barVars
<1>3. QED BY <1>1, <1>2

\* The view of a session begins.
LEMMA OverviewStarts ==
  ASSUME OnScreen, OverviewCore, Begin, StartOverview
  PROVE  OverviewCore'
<1>1. /\ session = 0 /\ begun' = begun + 1 /\ session' = begun' /\ begun \in Nat
      /\ Len(readings) \in Nat
  BY LenProperties DEF Begin, OnScreen, OverviewCore, ReadingsTaken
<1>2. /\ UNCHANGED <<readings, topology, pending, socketVars, historyVars, drawnVars, barVars,
                     strayed>>
      /\ alertCalls' = alertCalls \cup {session'}
  BY DEF StartOverview
<1>3. HistoryHeard' /\ BarDerived'
  BY <1>2, PageStands DEF OverviewCore, drawnVars
<1>4. ReadingsTaken'
  BY <1>2 DEF OverviewCore, ReadingsTaken, socketVars
<1>5. RequestsBegun' /\ LayoutFirst'
  <2>1. /\ asking \cup alertCalls \subseteq 1..begun /\ waiting \subseteq 0..begun
        /\ initial \subseteq [session : 1..begun, from : 0..Len(readings)]
        /\ {connected, strayed} \subseteq BOOLEAN /\ ~connected
        /\ topology \in 0..begun /\ pending \in 0..Len(readings)
        /\ (asking # {} => topology = 0) /\ (shown # 0 => topology # 0)
    <3>1. RequestsBegun /\ LayoutFirst
      BY DEF OverviewCore
    <3>2. /\ asking \cup alertCalls \subseteq 1..begun /\ waiting \subseteq 0..begun
          /\ initial \subseteq [session : 1..begun, from : 0..Len(readings)]
          /\ {connected, strayed} \subseteq BOOLEAN /\ ~connected
      BY <1>1, <3>1 DEF RequestsBegun
    <3>3. /\ topology \in 0..begun /\ pending \in 0..Len(readings)
          /\ (asking # {} => topology = 0) /\ (shown # 0 => topology # 0)
      BY <3>1 DEF LayoutFirst
    <3>4. QED BY <3>2, <3>3
  <2>2. \/ /\ topology = 0 /\ waiting' = waiting \cup {session'} /\ initial' = initial
           /\ asking' = IF asking = {} THEN {begun'} ELSE asking
        \/ /\ topology # 0 /\ asking' = asking /\ waiting' = waiting
           /\ initial' = initial \cup {[session |-> session', from |-> Len(readings)]}
    BY DEF StartOverview, Await
  <2>3. alertCalls' \subseteq 1..begun' /\ asking' \subseteq 1..begun' /\ waiting' \subseteq 0..begun'
    <3>1. 1..begun \subseteq 1..begun' /\ 0..begun \subseteq 0..begun'
          /\ session' \in 1..begun' /\ session' \in 0..begun' /\ begun' \in 1..begun'
      BY <1>1
    <3>2. alertCalls' \subseteq 1..begun'
      BY <1>2, <2>1, <3>1
    <3>3. asking' \subseteq 1..begun' /\ waiting' \subseteq 0..begun'
      BY <2>1, <2>2, <3>1
    <3>4. QED BY <3>2, <3>3
  <2>4. initial' \subseteq [session : 1..begun', from : 0..Len(readings)]
    <3>1. initial \subseteq [session : 1..begun', from : 0..Len(readings)]
      <4>1. ASSUME NEW call \in initial
            PROVE  call \in [session : 1..begun', from : 0..Len(readings)]
        BY <1>1, <2>1
      <4>2. QED BY <4>1
    <3>2. [session |-> session', from |-> Len(readings)]
             \in [session : 1..begun', from : 0..Len(readings)]
      BY <1>1
    <3>3. QED BY <2>2, <3>1, <3>2
  <2>5. connected' = connected /\ strayed' = strayed /\ readings' = readings
        /\ topology' = topology /\ pending' = pending /\ shown' = shown
    BY <1>2 DEF socketVars, barVars
  <2>6. RequestsBegun'
    BY <2>1, <2>3, <2>4, <2>5 DEF RequestsBegun
  <2>7. LayoutFirst'
    BY <1>1, <2>1, <2>2, <2>5 DEF LayoutFirst
  <2>8. QED BY <2>6, <2>7
<1>6. OutlivesOnlyByLateAnswer'
  <2>1. strayed' = strayed /\ topology' = topology /\ session' # 0
    BY <1>1, <1>2
  <2>2. ~strayed => topology = 0
    BY <1>1 DEF OverviewCore, OutlivesOnlyByLateAnswer
  <2>3. QED BY <2>1, <2>2 DEF OutlivesOnlyByLateAnswer
<1>7. QED BY <1>3, <1>4, <1>5, <1>6 DEF OverviewCore

\* The view of a session ends.
LEMMA OverviewStops ==
  ASSUME OnScreen, OverviewCore, End, StopOverview
  PROVE  OverviewCore'
<1>1. session' = 0 /\ begun' = begun /\ begun \in Nat /\ Len(readings) \in Nat
  BY LenProperties DEF End, OnScreen, OverviewCore, ReadingsTaken
<1>2. /\ connected' = FALSE /\ fed' = 0 /\ topology' = 0 /\ pending' = 0 /\ ResetHistory
      /\ cell' = Blank /\ drawer' = Closed /\ unfed' = FALSE
      /\ shown' = 0 /\ alerts' = <<>> /\ items' = {} /\ collapsed' = FALSE
      /\ header' = "connecting" /\ strayed' = FALSE
      /\ UNCHANGED <<readings, asking, waiting, initial, unavailable, alertCalls>>
  BY DEF StopOverview
<1>3. HistoryHeard'
  BY <1>2, HistoryForgotten DEF OverviewCore
<1>4. BarDerived'
  <2>0. readings' = readings /\ unfed' = FALSE /\ collapsed' = FALSE
    BY <1>2
  <2>1. 0 \in 0..Len(readings') /\ {unfed', collapsed'} \subseteq BOOLEAN
    <3>1. 0 \in 0..Len(readings')
      BY <1>1, <2>0
    <3>2. QED BY <2>0, <3>1, Zenon
  <2>2. alerts' \in AlertAnswers /\ items' = {} /\ shown' = 0
    BY <1>2 DEF AlertAnswers
  <2>3. QED BY <2>1, <2>2 DEF BarDerived
<1>5. ReadingsTaken'
  BY <1>1, <1>2 DEF OverviewCore, ReadingsTaken
<1>6. RequestsBegun'
  BY <1>1, <1>2 DEF OverviewCore, RequestsBegun
<1>7. LayoutFirst'
  BY <1>1, <1>2 DEF LayoutFirst
<1>8. OutlivesOnlyByLateAnswer'
  <2>1. work' = <<>> /\ dead' = <<>> /\ ~drawer'.open
    BY <1>2 DEF ResetHistory, Closed
  <2>2. Blank' = Blank
    BY DEF Blank
  <2>3. QED BY <1>1, <1>2, <2>1, <2>2 DEF OutlivesOnlyByLateAnswer
<1>9. QED BY <1>3, <1>4, <1>5, <1>6, <1>7, <1>8 DEF OverviewCore

\* The server takes a reading: what was said of the ones before still holds.
LEMMA ReadingTaken ==
  ASSUME OnScreen, OverviewCore, UNCHANGED pageSession, TakeReading
  PROVE  OverviewCore'
<1> DEFINE last == Len(readings)
<1>1. /\ last \in Nat /\ readings \in Seq(Readings) /\ last <= MaxReadings /\ fed \in 0..last
      /\ MaxReadings \in Nat
      /\ \A i, j \in 1..last : i < j => readings[i].at < readings[j].at
      /\ \A i \in 1..last : readings[i].at \in Nat
  <2>1. /\ readings \in Seq(Readings) /\ last <= MaxReadings /\ fed \in 0..last
        /\ \A i, j \in 1..last : i < j => readings[i].at < readings[j].at
    BY DEF OverviewCore, ReadingsTaken
  <2>2. last \in Nat /\ \A i \in 1..last : readings[i] \in Readings
    BY <2>1, LenProperties
  <2>3. \A i \in 1..last : readings[i].at \in Nat
    BY <2>2 DEF Readings, Saying
  <2>4. MaxReadings \in Nat
    BY OverviewAssumption
  <2>5. QED BY <2>1, <2>2, <2>3, <2>4
<1>2. /\ session' = session /\ begun' = begun /\ last < MaxReadings
      /\ UNCHANGED <<layoutVars, socketVars, historyVars, drawnVars, barVars, alertCalls, strayed>>
  BY DEF TakeReading, pageSession
<1>3. PICK r \in Contents, gap \in Gaps :
        readings' = Append(readings,
          [r EXCEPT !.at = gap + IF readings = <<>> THEN 0 ELSE readings[Len(readings)].at])
  BY DEF TakeReading
<1> DEFINE time == gap + IF readings = <<>> THEN 0 ELSE readings[Len(readings)].at
           new == [r EXCEPT !.at = time]
<1>4. time \in Nat /\ (last # 0 => readings[last].at < time)
  <2>1. gap \in Nat /\ gap > 0
    BY OverviewAssumption
  <2>2. readings = <<>> <=> last = 0
    BY <1>1, EmptySeq
  <2>3. last # 0 => last \in 1..last
    BY <1>1
  <2>4. QED BY <1>1, <2>1, <2>2, <2>3
<1>5. new \in Readings /\ new.at = time
  <2> HIDE DEF time
  <2>1. new \in Readings
    BY <1>4, ContentsAre
  <2>2. r \in Saying => new.at = time
    BY DEF Saying
  <2>3. [r EXCEPT !.at = 0] \in Readings
    BY ContentsAre
  <2>4. "at" \in DOMAIN [r EXCEPT !.at = 0]
    BY <2>3 DEF Readings, Saying
  <2>5. QED BY <2>1, <2>4
<1> HIDE DEF time, new
<1>6. /\ readings' \in Seq(Readings) /\ Len(readings') = last + 1
      /\ readings'[last + 1] = new
      /\ \A i \in 1..last : readings'[i] = readings[i]
  BY <1>1, <1>3, <1>5, AppendProperties DEF new, time
<1>7. ReadingsTaken'
  <2>1. \A i, j \in 1..(last + 1) : i < j => readings'[i].at < readings'[j].at
    <3>1. \A i \in 1..last : readings[i].at < time
      <4>1. ASSUME NEW i \in 1..last PROVE readings[i].at < time
        <5>1. i = last \/ readings[i].at < readings[last].at
          BY <1>1
        <5>2. QED BY <1>1, <1>4, <5>1
      <4>2. QED BY <4>1
    <3>2. ASSUME NEW i \in 1..(last + 1), NEW j \in 1..(last + 1), i < j
          PROVE  readings'[i].at < readings'[j].at
      <4>1. i \in 1..last
        BY <1>1, <3>2
      <4>2. CASE j = last + 1
        BY <1>5, <1>6, <3>1, <4>1, <4>2
      <4>3. CASE j # last + 1
        BY <1>1, <1>6, <3>2, <4>1, <4>3
      <4>4. QED BY <4>2, <4>3
    <3>3. QED BY <3>2
  <2>2. fed' \in 0..Len(readings') /\ Len(readings') <= MaxReadings
    BY <1>1, <1>2, <1>6 DEF socketVars
  <2>3. QED BY <1>6, <2>1, <2>2 DEF ReadingsTaken
<1>8. RequestsBegun'
  <2>1. initial \subseteq [session : 1..begun, from : 0..(last + 1)]
    <3>1. initial \subseteq [session : 1..begun, from : 0..last]
      BY DEF OverviewCore, RequestsBegun
    <3>2. 0..last \subseteq 0..(last + 1)
      BY <1>1
    <3>3. QED BY <3>1, <3>2
  <2>2. QED BY <1>2, <1>6, <2>1 DEF OverviewCore, RequestsBegun, layoutVars, socketVars
<1>9. LayoutFirst'
  BY <1>1, <1>2, <1>6 DEF OverviewCore, LayoutFirst, layoutVars, barVars
<1>10. HistoryHeard'
  <2>1. heard \subseteq 1..last
    BY DEF OverviewCore, HistoryHeard
  <2>2. \A n \in heard : readings'[n] = readings[n]
    BY <1>6, <2>1
  <2>3. 1..last \subseteq 1..Len(readings')
    BY <1>1, <1>6
  <2>4. UNCHANGED <<work, dead, unavailable, heard, loggedKind, cell>>
    BY <1>2 DEF historyVars, drawnVars
  <2>5. QED BY <2>1, <2>2, <2>3, <2>4 DEF OverviewCore, HistoryHeard
<1>11. BarDerived'
  <2>1. UNCHANGED <<shown, alerts, unfed, collapsed, items, header, cell, unavailable, work, dead>>
    BY <1>2 DEF historyVars, drawnVars, barVars
  <2>2. shown \in 0..last /\ (shown # 0 => readings'[shown] = readings[shown])
    BY <1>1, <1>6 DEF OverviewCore, BarDerived
  <2>3. shown' \in 0..Len(readings')
    BY <1>1, <1>6, <2>1, <2>2
  <2>4. shown # 0 => Bar' = Bar
    BY <2>1, <2>2 DEF Bar
  <2>5. QED BY <2>1, <2>2, <2>3, <2>4 DEF OverviewCore, BarDerived
<1>12. OutlivesOnlyByLateAnswer'
  BY <1>2 DEF OverviewCore, OutlivesOnlyByLateAnswer, Blank, layoutVars, socketVars, historyVars,
     drawnVars, barVars
<1>13. QED BY <1>7, <1>8, <1>9, <1>10, <1>11, <1>12 DEF OverviewCore

\* The socket opens, hands over a reading, or is lost and the histories with it.
LEMMA SocketKeeps ==
  ASSUME OnScreen, OverviewCore, UNCHANGED pageSession, SocketUp \/ Frame \/ SocketDown
  PROVE  OverviewCore'
<1>1. /\ session' = session /\ begun' = begun /\ begun \in Nat /\ session \in 0..begun
      /\ Len(readings) \in Nat /\ fed \in 0..Len(readings) /\ readings' = readings
  BY LenProperties
  DEF OnScreen, pageSession, OverviewCore, ReadingsTaken, SocketUp, Frame, SocketDown
<1>2. /\ ReadingsTaken /\ RequestsBegun /\ LayoutFirst /\ HistoryHeard /\ BarDerived
      /\ OutlivesOnlyByLateAnswer
  BY DEF OverviewCore
<1>3. CASE SocketUp
  <2>1. /\ session # 0 /\ connected' = TRUE
        /\ fed' = IF readings = <<>> THEN 0 ELSE Len(readings) - 1
        /\ UNCHANGED <<readings, layoutVars, historyVars, drawnVars, barVars, alertCalls, strayed>>
    BY <1>3 DEF SocketUp
  <2>2. fed' \in 0..Len(readings)
    <3>1. readings # <<>> => Len(readings) # 0
      BY EmptySeq DEF OverviewCore, ReadingsTaken
    <3>2. QED BY <1>1, <2>1, <3>1
  <2>3. HistoryHeard' /\ BarDerived'
    BY <1>2, <2>1, PageStands DEF drawnVars
  <2>4. ReadingsTaken'
    BY <1>2, <2>1, <2>2 DEF ReadingsTaken
  <2>5. RequestsBegun'
    BY <1>1, <1>2, <2>1 DEF RequestsBegun, layoutVars
  <2>6. LayoutFirst'
    BY <1>1, <1>2, <2>1 DEF LayoutFirst, layoutVars, barVars
  <2>7. OutlivesOnlyByLateAnswer'
    BY <1>1, <1>2, <2>1 DEF OutlivesOnlyByLateAnswer, layoutVars
  <2>8. QED BY <2>3, <2>4, <2>5, <2>6, <2>7 DEF OverviewCore
<1>4. CASE Frame
  <2>1. /\ connected /\ fed' = fed + 1 /\ fed' \in 1..Len(readings) /\ UpdateDashboard(fed')
        /\ UNCHANGED <<readings, initial, connected, alertCalls, strayed>>
    BY <1>1, <1>4 DEF Frame
  <2>2. session # 0 /\ begun # 0
    BY <1>1, <1>2, <2>1 DEF RequestsBegun
  <2>3. /\ HistoryHeard' /\ BarDerived' /\ LayoutFirst'
        /\ topology' = topology /\ asking' \subseteq 1..begun' /\ waiting' \subseteq 0..begun'
    BY <2>1, <2>2, DashboardUpdated
  <2>4. ReadingsTaken'
    BY <1>1, <1>2, <2>1 DEF ReadingsTaken
  <2>5. RequestsBegun'
    BY <1>1, <1>2, <2>1, <2>3 DEF RequestsBegun
  <2>6. OutlivesOnlyByLateAnswer'
    BY <1>1, <1>2, <2>1, <2>2, <2>3 DEF OutlivesOnlyByLateAnswer
  <2>7. QED BY <2>3, <2>4, <2>5, <2>6 DEF OverviewCore
<1>5. CASE SocketDown
  <2>1. /\ connected /\ connected' = FALSE /\ fed' = 0 /\ ResetHistory /\ unfed' = TRUE
        /\ UNCHANGED <<readings, layoutVars, unavailable, cell, drawer, barVars, alertCalls,
                       strayed>>
    BY <1>5 DEF SocketDown
  <2>2. session # 0
    BY <1>1, <1>2, <2>1 DEF RequestsBegun
  <2>3. HistoryHeard'
    BY <1>2, <2>1, HistoryForgotten
  <2>4. BarDerived'
    BY <1>2, <2>1 DEF BarDerived, barVars
  <2>5. ReadingsTaken'
    BY <1>1, <1>2, <2>1 DEF ReadingsTaken
  <2>6. RequestsBegun'
    <3>1. {connected', strayed'} \subseteq BOOLEAN /\ ~connected'
      BY <1>2, <2>1, Zenon DEF RequestsBegun
    <3>2. QED BY <1>1, <1>2, <2>1, <3>1 DEF RequestsBegun, layoutVars
  <2>7. LayoutFirst'
    BY <1>1, <1>2, <2>1 DEF LayoutFirst, layoutVars, barVars
  <2>8. OutlivesOnlyByLateAnswer'
    BY <1>1, <1>2, <2>1, <2>2 DEF OutlivesOnlyByLateAnswer, layoutVars
  <2>9. QED BY <2>3, <2>4, <2>5, <2>6, <2>7, <2>8 DEF OverviewCore
<1>6. QED BY <1>3, <1>4, <1>5

\* The first read is answered or fails.
LEMMA FirstReadKeeps ==
  ASSUME OnScreen, OverviewCore, UNCHANGED pageSession, FirstReadArrives \/ FirstReadFails
  PROVE  OverviewCore'
<1>1. /\ session' = session /\ begun' = begun /\ begun \in Nat /\ session \in 0..begun
      /\ Len(readings) \in Nat /\ readings' = readings
  BY LenProperties
  DEF OnScreen, pageSession, OverviewCore, ReadingsTaken, FirstReadArrives, FirstReadFails
<1>2. /\ ReadingsTaken /\ RequestsBegun /\ LayoutFirst /\ HistoryHeard /\ BarDerived
      /\ OutlivesOnlyByLateAnswer
  BY DEF OverviewCore
<1>3. CASE FirstReadArrives
  <2>1. PICK call \in initial, n \in 1..Len(readings) :
          /\ initial' = initial \ {call} /\ UpdateDashboard(n)
          /\ strayed' = (strayed \/ call.session # session)
          /\ UNCHANGED <<readings, socketVars, alertCalls>>
    BY <1>3 DEF FirstReadArrives
  <2>2. call.session \in 1..begun /\ begun # 0
    BY <1>1, <1>2 DEF RequestsBegun
  <2>3. /\ HistoryHeard' /\ BarDerived' /\ LayoutFirst'
        /\ topology' = topology /\ asking' \subseteq 1..begun' /\ waiting' \subseteq 0..begun'
    BY <2>1, <2>2, DashboardUpdated
  <2>4. ReadingsTaken'
    BY <1>2, <2>1 DEF ReadingsTaken, socketVars
  <2>5. RequestsBegun'
    <3>1. strayed' \in BOOLEAN
      BY <1>2, <2>1, Zenon
    <3>2. QED BY <1>1, <1>2, <2>1, <2>3, <3>1 DEF RequestsBegun, socketVars
  <2>6. OutlivesOnlyByLateAnswer'
    <3>1. ~strayed' => ~strayed /\ session # 0
      <4>1. ~strayed' => ~strayed /\ call.session = session
        BY <2>1, Zenon
      <4>2. QED BY <2>2, <4>1
    <3>2. QED BY <1>1, <1>2, <2>3, <3>1 DEF OutlivesOnlyByLateAnswer
  <2>7. QED BY <2>3, <2>4, <2>5, <2>6 DEF OverviewCore
<1>4. CASE FirstReadFails
  <2>1. /\ initial' \subseteq initial
        /\ UNCHANGED <<readings, topology, asking, waiting, pending, socketVars, historyVars,
                       drawnVars, barVars, alertCalls, strayed>>
    BY <1>4 DEF FirstReadFails
  <2>2. HistoryHeard' /\ BarDerived'
    BY <1>2, <2>1, PageStands DEF drawnVars
  <2>3. ReadingsTaken'
    BY <1>2, <2>1 DEF ReadingsTaken, socketVars
  <2>4. RequestsBegun'
    BY <1>1, <1>2, <2>1 DEF RequestsBegun, socketVars
  <2>5. LayoutFirst'
    BY <1>1, <1>2, <2>1 DEF LayoutFirst, barVars
  <2>6. OutlivesOnlyByLateAnswer'
    BY <1>1, <1>2, <2>1 DEF OutlivesOnlyByLateAnswer, Blank, socketVars, historyVars, drawnVars,
       barVars
  <2>7. QED BY <2>2, <2>3, <2>4, <2>5, <2>6 DEF OverviewCore
<1>5. QED BY <1>3, <1>4

\* The layout arrives, whoever asked for it, or fails: those who awaited it go on.
LEMMA LayoutKeeps ==
  ASSUME OnScreen, OverviewCore, UNCHANGED pageSession, LayoutArrives \/ LayoutFails
  PROVE  OverviewCore'
<1>1. /\ session' = session /\ begun' = begun /\ begun \in Nat /\ session \in 0..begun
      /\ Len(readings) \in Nat /\ readings' = readings
  BY LenProperties
  DEF OnScreen, pageSession, OverviewCore, ReadingsTaken, LayoutArrives, LayoutFails
<1>2. /\ ReadingsTaken /\ RequestsBegun /\ LayoutFirst /\ HistoryHeard /\ BarDerived
      /\ OutlivesOnlyByLateAnswer
  BY DEF OverviewCore
<1>3. /\ asking # {} /\ asking' = {} /\ waiting' = {} /\ initial' = initial \cup Released
      /\ UNCHANGED <<socketVars, alertCalls>>
      /\ topology = 0 /\ shown = 0
  BY <1>2 DEF LayoutArrives, LayoutFails, LayoutFirst
<1>4. initial' \subseteq [session : 1..begun, from : 0..Len(readings)]
  <2>1. \A s \in waiting \ {0} : s \in 1..begun
    BY <1>1, <1>2 DEF RequestsBegun
  <2>2. \A s \in waiting \ {0} : [session |-> s, from |-> Len(readings)]
                                   \in [session : 1..begun, from : 0..Len(readings)]
    BY <1>1, <2>1
  <2>3. Released \subseteq [session : 1..begun, from : 0..Len(readings)]
    BY <2>2 DEF Released
  <2>4. QED BY <1>2, <1>3, <2>3 DEF RequestsBegun
<1>5. ReadingsTaken'
  BY <1>1, <1>2, <1>3 DEF ReadingsTaken, socketVars
<1>6. strayed' \in BOOLEAN => RequestsBegun'
  BY <1>1, <1>2, <1>3, <1>4 DEF RequestsBegun, socketVars
<1>7. CASE LayoutArrives
  <2>1. /\ topology' \in asking /\ strayed' = (strayed \/ topology' # session)
        /\ pending' = IF 0 \in waiting THEN 0 ELSE pending
        /\ IF 0 \in waiting /\ pending # 0
           THEN /\ UpdateQueues(pending, <<>>, <<>>, None)
                /\ shown' = pending /\ alerts' = alerts /\ UpdateAttention(collapsed)
           ELSE /\ ResetHistory /\ cell' = Blank /\ drawer' = Closed /\ unfed' = FALSE
                /\ UNCHANGED <<unavailable, barVars>>
    BY <1>7 DEF LayoutArrives
  <2>2. topology' \in 1..begun /\ topology' # 0
    BY <1>1, <1>2, <2>1 DEF RequestsBegun
  <2>3. LayoutFirst'
    BY <1>1, <1>2, <1>3, <2>1, <2>2 DEF LayoutFirst
  <2>4. RequestsBegun'
    <3>1. strayed' \in BOOLEAN
      BY <2>1, Zenon
    <3>2. QED BY <1>6, <3>1
  <2>5. HistoryHeard' /\ BarDerived'
    <3>1. CASE 0 \in waiting /\ pending # 0
      <4>1. pending \in 1..Len(readings)
        BY <1>1, <1>2, <3>1 DEF LayoutFirst
      <4>2. QED BY <1>1, <1>2, <2>1, <2>2, <3>1, <4>1, ReadingApplied
    <3>2. CASE ~(0 \in waiting /\ pending # 0)
      <4>1. ResetHistory /\ unfed' = FALSE /\ UNCHANGED <<unavailable, barVars>>
        BY <2>1, <3>2
      <4>2. HistoryHeard'
        BY <1>2, <4>1, HistoryForgotten
      <4>3. BarDerived'
        BY <1>1, <1>2, <1>3, <4>1 DEF BarDerived, barVars
      <4>4. QED BY <4>2, <4>3
    <3>3. QED BY <3>1, <3>2
  <2>6. OutlivesOnlyByLateAnswer'
    <3>1. ~strayed' => topology' = session
      BY <2>1, Zenon
    <3>2. QED BY <1>1, <2>2, <3>1 DEF OutlivesOnlyByLateAnswer
  <2>7. QED BY <1>5, <2>3, <2>4, <2>5, <2>6 DEF OverviewCore
<1>8. CASE LayoutFails
  <2>1. UNCHANGED <<readings, topology, pending, socketVars, historyVars, drawnVars, barVars,
                    alertCalls, strayed>>
    BY <1>8 DEF LayoutFails
  <2>2. HistoryHeard' /\ BarDerived'
    BY <1>2, <2>1, PageStands DEF drawnVars
  <2>3. RequestsBegun'
    <3>1. strayed' \in BOOLEAN
      BY <1>2, <2>1 DEF RequestsBegun
    <3>2. QED BY <1>6, <3>1
  <2>4. LayoutFirst'
    BY <1>1, <1>2, <1>3, <2>1 DEF LayoutFirst, barVars
  <2>5. OutlivesOnlyByLateAnswer'
    BY <1>1, <1>2, <2>1 DEF OutlivesOnlyByLateAnswer, Blank, socketVars, historyVars, drawnVars,
       barVars
  <2>6. QED BY <1>5, <2>2, <2>3, <2>4, <2>5 DEF OverviewCore
<1>9. QED BY <1>7, <1>8

\* The alerts are asked for and answered, the bar is toggled: the bar is derived anew.
LEMMA AlertsKeep ==
  ASSUME OnScreen, OverviewCore, UNCHANGED pageSession,
         \/ PollAlerts \/ ToggleAttention
         \/ \E s \in alertCalls : AlertsAnswered(s) \/ AlertsRefused(s)
  PROVE  OverviewCore'
<1>1. /\ session' = session /\ begun' = begun /\ begun \in Nat /\ session \in 0..begun
      /\ Len(readings) \in Nat
  BY LenProperties DEF OnScreen, pageSession, OverviewCore, ReadingsTaken
<1>2. /\ ReadingsTaken /\ RequestsBegun /\ LayoutFirst /\ HistoryHeard /\ BarDerived
      /\ OutlivesOnlyByLateAnswer
  BY DEF OverviewCore
<1>3. /\ UNCHANGED <<readings, layoutVars, socketVars, historyVars, drawnVars, strayed>>
      /\ shown' = shown /\ alertCalls' \subseteq alertCalls \cup ({session} \ {0})
      /\ \/ UNCHANGED barVars
         \/ alerts' \in AlertAnswers /\ session # 0 /\ \E hidden : UpdateAttention(hidden)
  <2>1. CASE PollAlerts
    BY <2>1 DEF PollAlerts, barVars
  <2>2. CASE ToggleAttention
    BY <1>2, <2>2 DEF ToggleAttention, BarDerived
  <2>3. ASSUME NEW s \in alertCalls, AlertsAnswered(s)
        PROVE  /\ UNCHANGED <<readings, layoutVars, socketVars, historyVars, drawnVars, strayed>>
               /\ shown' = shown /\ alertCalls' \subseteq alertCalls
               /\ \/ UNCHANGED barVars
                  \/ alerts' \in AlertAnswers /\ session # 0 /\ \E hidden : UpdateAttention(hidden)
    <3>1. s # 0
      BY <1>1, <1>2 DEF RequestsBegun
    <3>2. QED BY <2>3, <3>1 DEF AlertsAnswered, barVars
  <2>4. ASSUME NEW s \in alertCalls, AlertsRefused(s)
        PROVE  /\ UNCHANGED <<readings, layoutVars, socketVars, historyVars, drawnVars, strayed>>
               /\ shown' = shown /\ alertCalls' \subseteq alertCalls /\ UNCHANGED barVars
    BY <2>4 DEF AlertsRefused, barVars
  <2>5. QED BY <2>1, <2>2, <2>3, <2>4
<1>4. HistoryHeard'
  BY <1>2, <1>3 DEF HistoryHeard, historyVars, drawnVars
<1>5. BarDerived'
  <2>1. CASE UNCHANGED barVars
    BY <1>2, <1>3, <2>1, PageStands DEF drawnVars
  <2>2. CASE alerts' \in AlertAnswers /\ \E hidden : UpdateAttention(hidden)
    <3>1. PICK hidden : UpdateAttention(hidden)
      BY <2>2
    <3>2. /\ collapsed' \in BOOLEAN
          /\ \A item \in items' : item.severity \in {"crit", "warn"}
          /\ (shown' # 0 /\ topology' # 0) =>
               items' = Bar' /\ header' = Overall(items', readings'[shown'].service)
      BY <1>3, <1>4, <2>2, <3>1, BarNow DEF HistoryHeard
    <3>3. shown' # 0 => topology' # 0
      BY <1>2, <1>3 DEF LayoutFirst, layoutVars
    <3>4. UNCHANGED <<readings, shown, cell, unfed, unavailable, work, dead>>
      BY <1>3 DEF historyVars, drawnVars
    <3>5. QED BY <1>2, <2>2, <3>2, <3>3, <3>4 DEF BarDerived
  <2>3. QED BY <1>3, <2>1, <2>2
<1>6. ReadingsTaken'
  BY <1>2, <1>3 DEF ReadingsTaken, socketVars
<1>7. RequestsBegun'
  <2>1. alertCalls' \subseteq 1..begun
    BY <1>1, <1>2, <1>3 DEF RequestsBegun
  <2>2. QED BY <1>1, <1>2, <1>3, <2>1 DEF RequestsBegun, layoutVars, socketVars
<1>8. LayoutFirst'
  BY <1>1, <1>2, <1>3 DEF LayoutFirst, layoutVars
<1>9. OutlivesOnlyByLateAnswer'
  <2>1. UNCHANGED barVars \/ session # 0
    BY <1>3
  <2>2. QED BY <1>1, <1>2, <1>3, <2>1
        DEF OutlivesOnlyByLateAnswer, Blank, layoutVars, socketVars, historyVars, drawnVars, barVars
<1>10. QED BY <1>4, <1>5, <1>6, <1>7, <1>8, <1>9 DEF OverviewCore

\* The drawer is opened and closed.
LEMMA DrawerKeeps ==
  ASSUME OnScreen, OverviewCore, UNCHANGED pageSession, OpenDrawer \/ CloseDrawer
  PROVE  OverviewCore'
<1>1. session' = session /\ begun' = begun
  BY DEF pageSession
<1>2. /\ ReadingsTaken /\ RequestsBegun /\ LayoutFirst /\ HistoryHeard /\ BarDerived
      /\ OutlivesOnlyByLateAnswer
  BY DEF OverviewCore
<1>3. /\ UNCHANGED <<readings, layoutVars, socketVars, historyVars, cell, unfed, barVars,
                     alertCalls, strayed>>
      /\ session # 0 \/ drawer' = Closed
  BY DEF OpenDrawer, CloseDrawer, historyVars
<1>4. HistoryHeard' /\ BarDerived'
  BY <1>2, <1>3, PageStands
<1>5. ReadingsTaken' /\ RequestsBegun' /\ LayoutFirst'
  BY <1>1, <1>2, <1>3 DEF ReadingsTaken, RequestsBegun, LayoutFirst, layoutVars, socketVars,
     barVars
<1>6. OutlivesOnlyByLateAnswer'
  <2>1. session # 0 \/ ~drawer'.open
    BY <1>3 DEF Closed
  <2>2. QED BY <1>1, <1>2, <1>3, <2>1
        DEF OutlivesOnlyByLateAnswer, Blank, layoutVars, socketVars, historyVars, barVars
<1>7. QED BY <1>4, <1>5, <1>6 DEF OverviewCore

\* Every step of the Overview keeps what is inductive without the log.
LEMMA CoreStep ==
  ASSUME OnScreen, OverviewCore,
         \/ Begin /\ StartOverview
         \/ End /\ StopOverview
         \/ (OverviewNext \/ UNCHANGED overviewVars) /\ UNCHANGED pageSession
  PROVE  OverviewCore'
<1>1. CASE UNCHANGED overviewVars /\ UNCHANGED pageSession
  <2>1. HistoryHeard' /\ BarDerived'
    BY <1>1, PageStands DEF overviewVars, drawnVars, OverviewCore
  <2>2. ReadingsTaken' /\ RequestsBegun' /\ LayoutFirst'
    BY <1>1 DEF pageSession, overviewVars, OverviewCore, ReadingsTaken, RequestsBegun, LayoutFirst,
       layoutVars, socketVars, barVars
  <2>3. OutlivesOnlyByLateAnswer'
    BY <1>1 DEF pageSession, overviewVars, OverviewCore, OutlivesOnlyByLateAnswer, Blank,
       layoutVars, socketVars, historyVars, drawnVars, barVars
  <2>4. QED BY <2>1, <2>2, <2>3 DEF OverviewCore
<1>2. CASE OverviewNext /\ UNCHANGED pageSession
  BY <1>2, ReadingTaken, SocketKeeps, LayoutKeeps, FirstReadKeeps, AlertsKeep, DrawerKeeps
  DEF OverviewNext
<1>3. QED BY <1>1, <1>2, OverviewStarts, OverviewStops

\* Before the first session nothing has been read, asked for or drawn.
LEMMA CoreInit == OverviewInit /\ NoSession => OverviewCore
<1> SUFFICES ASSUME OverviewInit, NoSession PROVE OverviewCore
  OBVIOUS
<1>1. readings = <<>> /\ Len(readings) = 0 /\ readings \in Seq(Readings)
  BY EmptySeq DEF OverviewInit
<1>2. session = 0 /\ begun = 0 /\ MaxReadings \in Nat
  BY OverviewAssumption DEF NoSession
<1>3. ReadingsTaken
  BY <1>1, <1>2 DEF OverviewInit, ReadingsTaken
<1>4. RequestsBegun
  <2>1. {connected, strayed} \subseteq BOOLEAN /\ ~connected
    BY Zenon DEF OverviewInit
  <2>2. QED BY <1>2, <2>1 DEF OverviewInit, RequestsBegun
<1>5. LayoutFirst
  BY <1>1, <1>2 DEF OverviewInit, LayoutFirst
<1>6. HistoryHeard
  BY <1>1, EmptySeq DEF OverviewInit, HistoryHeard
<1>7. BarDerived
  <2>1. {unfed, collapsed} \subseteq BOOLEAN
    BY Zenon DEF OverviewInit
  <2>2. QED BY <1>1, <2>1 DEF OverviewInit, BarDerived, AlertAnswers
<1>8. OutlivesOnlyByLateAnswer
  BY <1>2 DEF OverviewInit, OutlivesOnlyByLateAnswer, Closed
<1>9. QED BY <1>3, <1>4, <1>5, <1>6, <1>7, <1>8 DEF OverviewCore

\* A step draws the cell with its dead-letter state logged, clears it, or leaves it or the feed.
LEMMA LoggedStep ==
  ASSUME LoggedAsDrawn,
         \/ StartOverview \/ StopOverview \/ OverviewNext \/ UNCHANGED overviewVars
  PROVE  LoggedAsDrawn'
<1>1. Blank.dlq.state = "unknown"
  BY DEF Blank, CellModel, AssessDlq
<1> DEFINE Kept == UNCHANGED <<cell, unfed, loggedKind>>
           Drawn == \E n, w, d, known : UpdateQueues(n, w, d, known)
           Cleared == cell' = Blank
<1>2. Kept \/ Drawn \/ Cleared \/ unfed' = TRUE => LoggedAsDrawn'
  <2>1. ASSUME Drawn PROVE LoggedAsDrawn'
    <3>1. loggedKind' = cell'.dlq.kind \/ cell'.dlq.state = "unknown"
      BY <2>1 DEF UpdateQueues
    <3>2. QED BY <3>1 DEF LoggedAsDrawn
  <2>2. QED BY <1>1, <2>1 DEF LoggedAsDrawn
<1>3. ASSUME NEW n, UpdateDashboard(n) PROVE Kept \/ Drawn
  BY <1>3 DEF UpdateDashboard, Apply, historyVars, drawnVars
<1>4. StartOverview \/ UNCHANGED overviewVars => Kept
  BY DEF StartOverview, overviewVars, historyVars, drawnVars
<1>5. StopOverview => Cleared
  BY DEF StopOverview
<1>6. TakeReading \/ SocketUp \/ LayoutFails \/ FirstReadFails \/ PollAlerts => Kept
  BY DEF TakeReading, SocketUp, LayoutFails, FirstReadFails, PollAlerts, historyVars, drawnVars
<1>7. SocketDown => unfed' = TRUE
  BY DEF SocketDown
<1>8. Frame \/ FirstReadArrives => Kept \/ Drawn
  BY <1>3 DEF Frame, FirstReadArrives
<1>9. LayoutArrives => Drawn \/ Cleared
  BY DEF LayoutArrives
<1>10. (\E s \in alertCalls : AlertsAnswered(s) \/ AlertsRefused(s)) => Kept
  BY DEF AlertsAnswered, AlertsRefused, historyVars, drawnVars
<1>11. ToggleAttention \/ OpenDrawer \/ CloseDrawer => Kept
  BY DEF ToggleAttention, OpenDrawer, CloseDrawer, historyVars, drawnVars
<1> HIDE DEF Kept, Drawn, Cleared
<1>12. QED
  BY <1>2, <1>4, <1>5, <1>6, <1>7, <1>8, <1>9, <1>10, <1>11 DEF OverviewNext

\* Every step of the Overview keeps its invariant.
LEMMA OverviewStep ==
  ASSUME OnScreen, OverviewInv,
         \/ Begin /\ StartOverview
         \/ End /\ StopOverview
         \/ (OverviewNext \/ UNCHANGED overviewVars) /\ UNCHANGED pageSession
  PROVE  OverviewInv'
BY CoreStep, LoggedStep DEF OverviewInv

\* Before the first session its invariant holds.
LEMMA OverviewInitInv == OverviewInit /\ NoSession => OverviewInv
<1>1. OverviewInit => LoggedAsDrawn
  BY DEF OverviewInit, LoggedAsDrawn, Blank, CellModel, AssessDlq
<1>2. QED BY <1>1, CoreInit DEF OverviewInv

\* What the invariant says of the types.
LEMMA OverviewTyped == OnScreen /\ OverviewInv => OverviewTypeOK
<1> SUFFICES ASSUME OnScreen, OverviewInv PROVE OverviewTypeOK
  OBVIOUS
<1>1. /\ ReadingsTaken /\ RequestsBegun /\ LayoutFirst /\ HistoryHeard /\ BarDerived
      /\ begun \in Nat /\ begun <= MaxSessions /\ MaxSessions \in Nat /\ Len(readings) \in Nat
  BY PageAssumption, LenProperties DEF OverviewInv, OverviewCore, OnScreen, ReadingsTaken
<1>2. 1..begun \subseteq Sessions
  BY <1>1 DEF Sessions
<1>3. /\ asking \subseteq Sessions /\ alertCalls \subseteq Sessions /\ waiting \subseteq 0..begun
      /\ {connected, strayed} \subseteq BOOLEAN
  BY <1>1, <1>2 DEF RequestsBegun
<1>4. initial \subseteq [session : Sessions, from : 0..Len(readings)]
  BY <1>1, <1>2 DEF RequestsBegun
<1>5. topology \in 0..begun /\ {pending, shown, fed} \subseteq 0..Len(readings)
      /\ Len(readings) <= MaxReadings
  BY <1>1 DEF LayoutFirst, BarDerived, ReadingsTaken
<1>6. /\ heard \subseteq 1..Len(readings) /\ {unavailable, collapsed, unfed} \subseteq BOOLEAN
      /\ alerts \in AlertAnswers /\ \A item \in items : item.severity \in {"crit", "warn"}
  BY <1>1 DEF HistoryHeard, BarDerived
<1>7. {connected, unavailable, collapsed, unfed, strayed} \subseteq BOOLEAN
  BY <1>3, <1>6, Zenon
<1>8. QED BY <1>3, <1>4, <1>5, <1>6, <1>7 DEF OverviewTypeOK

\* The cell speaks of the newest of the readings heard (updateQueues, cellModel).
LEMMA NewestProved == OverviewInv => NewestReadingShown
<1> SUFFICES ASSUME OverviewInv, heard # {}
             PROVE  cell.health.kind = Verdict(readings[Max(heard)])
  BY DEF NewestReadingShown, OverviewInv, LoggedAsDrawn
<1>1. /\ work \in Seq(Samples) /\ dead \in Seq(Samples) /\ work # <<>> /\ ~unavailable
      /\ unavailable \in BOOLEAN
      /\ cell = CellModel(unavailable, work, dead)
      /\ heard \subseteq 1..Len(readings) /\ Len(readings) \in Nat
  BY LenProperties DEF OverviewInv, OverviewCore, HistoryHeard, ReadingsTaken
<1>2. PICK n \in heard : /\ \A m \in heard : m <= n
                         /\ Latest(work).messages = readings[n].work.messages
                         /\ Latest(work).condition = readings[n].work.condition
  BY DEF OverviewInv, OverviewCore, HistoryHeard
<1>3. n = Max(heard)
  <2>1. IsFiniteSet(heard) /\ heard \in SUBSET Int
    <3>1. IsFiniteSet(1..Len(readings))
      BY <1>1, FS_Interval
    <3>2. IsFiniteSet(heard)
      BY <1>1, <3>1, FS_Subset
    <3>3. QED BY <1>1, <3>2
  <2>2. Max(heard) \in heard /\ \A m \in heard : m <= Max(heard)
    BY <2>1, MaxIsGreatest
  <2>3. n \in Int /\ Max(heard) \in Int
    BY <2>1, <2>2
  <2>4. QED BY <1>2, <2>2, <2>3
<1>4. cell.health = AssessQueue(work)
  BY <1>1, CellAssessed
<1>5. AssessQueue(work).kind = Verdict(readings[n])
  BY <1>1, <1>2, QueueAssessed DEF Verdict
<1>6. QED BY <1>1, <1>3, <1>4, <1>5

\* The bar has an item of the pipeline exactly when the matrix shows one in trouble
\* (deriveAttention, pipelineItems).
LEMMA BarProved == OverviewInv => BarAgreesWithMatrix
<1> SUFFICES ASSUME OverviewInv, shown # 0, topology # 0, ~readings[shown].down, ~unfed
             PROVE  /\ {item \in items : item.id[1] \in {"queue", "dlq"}} = CellItems(cell)
                    /\ cell.state = "crit" => header \in {"critical", "offline"}
  BY DEF BarAgreesWithMatrix
<1> DEFINE r == readings[shown]
<1>1. /\ cell = CellModel(unavailable, work, dead) /\ items = Bar
      /\ header = Overall(items, r.service)
      /\ alerts \in AlertAnswers /\ unavailable \in BOOLEAN
      /\ work \in Seq(Samples) /\ dead \in Seq(Samples)
  BY DEF OverviewInv, OverviewCore, BarDerived, HistoryHeard
<1>2. /\ unavailable => CellItems(cell) = {}
      /\ cell.state = "crit" => \E item \in CellItems(cell) : item.severity = "crit"
      /\ cell.state = "crit" => ~unavailable
      /\ \A item \in CellItems(cell) : item.id[1] \in {"queue", "dlq"}
  BY <1>1, CellAssessed
<1>3. \A id, sev, kind : \A item \in Item(id, sev, kind) : item.id[1] = id
  BY DEF Item
<1> DEFINE rest == AlertItems(alerts) \cup PlatformItems(r.platform, r.group)
                     \cup DatastoreItems(r.db) \cup ServiceItems(r.service)
                     \cup IF unavailable THEN Item("queues", "warn", "queues-unavailable") ELSE {}
<1>4. items = rest \cup CellItems(cell)
  <2>1. PipelineItems(r.down, unavailable, r.service, cell) =
          ServiceItems(r.service)
            \cup IF unavailable THEN Item("queues", "warn", "queues-unavailable")
                 ELSE CellItems(cell)
    BY DEF PipelineItems
  <2>2. items = AlertItems(alerts) \cup PlatformItems(r.platform, r.group)
                  \cup DatastoreItems(r.db) \cup PipelineItems(r.down, unavailable, r.service, cell)
    BY <1>1 DEF Bar
  <2>3. CASE unavailable
    BY <1>2, <2>1, <2>2, <2>3
  <2>4. CASE ~unavailable
    BY <2>1, <2>2, <2>4
  <2>5. QED BY <2>3, <2>4
<1>5. \A item \in rest : item.id[1] \notin {"queue", "dlq"}
  <2>1. \A item \in AlertItems(alerts) : item.id[1] \in {"a", "b"}
    BY <1>1 DEF AlertItems, AlertAnswers, Firing
  <2>2. \A item \in PlatformItems(r.platform, r.group) : item.id[1] = "platform"
    BY <1>3 DEF PlatformItems, Nothing
  <2>3. \A item \in DatastoreItems(r.db) : item.id[1] = "datastore"
    BY <1>3 DEF DatastoreItems, Nothing
  <2>4. \A item \in ServiceItems(r.service) : item.id[1] = "service"
    BY <1>3 DEF ServiceItems, Nothing
  <2>5. \A item \in Item("queues", "warn", "queues-unavailable") : item.id[1] = "queues"
    BY <1>3
  <2>6. QED BY <2>1, <2>2, <2>3, <2>4, <2>5
<1> HIDE DEF rest
<1>6. {item \in items : item.id[1] \in {"queue", "dlq"}} = CellItems(cell)
  BY <1>2, <1>4, <1>5
<1>7. cell.state = "crit" => header \in {"critical", "offline"}
  BY <1>1, <1>2, <1>4 DEF Overall
<1>8. QED BY <1>6, <1>7

-----------------------------------------------------------------------------
(* The runs: when the headline and the Run progress view may lag behind *)

\* The runs that catalog-api's history can name.
Named == {NoRun} \cup {LatestRun(Recorded(n)) : n \in Nat}

PollRecords == [session : Nat, stage : {"over", "history", "layout", "progress"}, from : Nat,
                key : Named]

PollTypes ==
  /\ polls \in [1..MaxPolls -> PollRecords] /\ runs \in Named
  /\ \A n \in 1..MaxPolls : polls[n].session <= begun /\ polls[n].from <= history
  /\ \A n \in 1..MaxPolls : polls[n].stage # "over" => polls[n].session # 0

\* Polls of the session that know the run and have not drawn it.
Bearing == {n \in InSession : polls[n].stage \in {"layout", "progress"}}

\* Before the layout is drawn nothing is known or drawn of a run, and no poll of the session is
\* past it; afterwards none waits for it.
BeforeLayout ==
  /\ ~laidOut => progress = NoEntry /\ headline = Unrendered /\ section = Empty
  /\ \A n \in InSession : polls[n].stage = "progress" => laidOut
  /\ \A n \in InSession : polls[n].stage = "layout" => ~laidOut

\* What is drawn may only lag behind while a poll of the session bears news, or the feed is lost.
DrawnAsKnown ==
  (Bearing = {} /\ ~lapsed) =>
    /\ headline # Unrendered => headline = Headline(runs, progress, assessed)
    /\ (view = "progress" /\ section # Empty) => section = Section(runs, progress, assessed)

\* Where polls do not overlap, the one under way reads the progress of the run shown.
OnePoll ==
  ~overlapped =>
    /\ \A m, n \in InSession : m = n
    /\ \A n \in InSession : polls[n].stage = "progress" => polls[n].key = runs
    /\ Bearing = {} => progress.key \in {NoRun, runs}

\* The inductive invariant of the runs.
RunInv == RunTypeOK /\ PollTypes /\ BeforeLayout /\ DrawnAsKnown /\ OnePoll

\* A headline is one of those the page can draw.
LEMMA HeadlineTypes ==
  ASSUME NEW run, NEW entry, NEW c
  PROVE  Headline(run, entry, c)
           \in {None, "cannot finish", "unavailable", "unknown", "loaded", "finishes"}
<1> DEFINE e == Eta(entry.data, c)
<1> HIDE DEF e
<1>1. (IF e = Unknown THEN "unknown" ELSE IF e = 0 THEN "loaded" ELSE "finishes")
         \in {None, "cannot finish", "unavailable", "unknown", "loaded", "finishes"}
  OBVIOUS
<1>2. QED BY <1>1 DEF Headline, e

\* Every poll is of a session that has begun, and asked for the history as it was then.
LEMMA PollsTyped ==
  ASSUME RunTypeOK, PollTypes
  PROVE  /\ DOMAIN polls = 1..MaxPolls /\ runs \in Named /\ NoRun \in Named
         /\ history \in Nat /\ InSession \subseteq 1..MaxPolls
         /\ \A n \in 1..MaxPolls : /\ polls[n] \in PollRecords
                                   /\ polls[n].session <= begun /\ polls[n].from <= history
                                   /\ polls[n].stage # "over" => polls[n].session # 0
<1>1. MaxHistory \in Nat
  BY RunAssumption
<1>2. history \in Nat
  <2>1. history \in 0..MaxHistory
    BY DEF RunTypeOK
  <2>2. QED BY <1>1, <2>1
<1>3. runs \in Named /\ NoRun \in Named
  BY DEF PollTypes, Named
<1>4. DOMAIN polls = 1..MaxPolls
  BY DEF PollTypes
<1>5. InSession \subseteq 1..MaxPolls
  BY <1>4 DEF InSession
<1>6. QED BY <1>2, <1>3, <1>4, <1>5 DEF PollTypes

\* The types after a step whose polls, run and headline have theirs.
LEMMA RunTypes ==
  ASSUME OnScreen, RunTypeOK, PollTypes, begun' \in Nat, begun' >= begun,
         history' \in 0..MaxHistory, history' >= history,
         polls' \in [1..MaxPolls -> PollRecords], runs' \in Named,
         \A n \in 1..MaxPolls :
           /\ polls'[n].session <= begun' /\ polls'[n].from <= history'
           /\ polls'[n].stage # "over" => polls'[n].session # 0,
         {laidOut', lapsed', overlapped'} \subseteq BOOLEAN, view' \in {"matrix", "progress"},
         headline' = Unrendered \/ headline' = headline \/ DrawHeadline
  PROVE  RunTypeOK' /\ PollTypes'
<1>1. PollTypes'
  BY DEF PollTypes
<1>2. headline' \in {Unrendered, None, "cannot finish", "unavailable", "unknown", "loaded",
                     "finishes"}
  BY HeadlineTypes DEF DrawHeadline, RunTypeOK
<1>3. \A n \in DOMAIN polls' :
       /\ polls'[n].session \in 0..begun' /\ polls'[n].from \in 0..history'
       /\ polls'[n].stage \in {"over", "history", "layout", "progress"}
  <2>1. DOMAIN polls' = 1..MaxPolls
    OBVIOUS
  <2>2. \A n \in 1..MaxPolls : polls'[n] \in PollRecords
    OBVIOUS
  <2>3. history' \in Nat
    OBVIOUS
  <2>4. QED BY <2>1, <2>2, <2>3 DEF PollRecords
<1>4. QED BY <1>1, <1>2, <1>3 DEF RunTypeOK

\* What is drawn is what is known.
LEMMA DrawnNow ==
  ASSUME DrawHeadline, DrawSection
  PROVE  DrawnAsKnown'
BY DEF DrawHeadline, DrawSection, DrawnAsKnown

\* A session begins: its first poll is the only one.
LEMMA RunsStart ==
  ASSUME OnScreen, RunInv, Begin, StartRuns
  PROVE  RunInv'
<1>1. /\ session = 0 /\ begun' = begun + 1 /\ session' = begun' /\ begun \in Nat
  BY DEF Begin, OnScreen
<1>2. /\ DOMAIN polls = 1..MaxPolls /\ runs \in Named /\ NoRun \in Named /\ history \in Nat
      /\ \A n \in 1..MaxPolls : /\ polls[n] \in PollRecords
                                /\ polls[n].session <= begun /\ polls[n].from <= history
                                /\ polls[n].stage # "over" => polls[n].session # 0
  BY PollsTyped DEF RunInv
<1>3. UNCHANGED <<history, runs, progress, laidOut, assessed, headline, view, section, lapsed,
                  overlapped>>
  BY DEF StartRuns
<1>4. /\ InSession = {} /\ Bearing = {}
      /\ ~laidOut => progress = NoEntry /\ headline = Unrendered /\ section = Empty
  BY <1>1, <1>2 DEF InSession, Bearing, RunInv, BeforeLayout
<1>5. PICK k : \/ polls' = polls
               \/ k \in 1..MaxPolls /\ polls' = [polls EXCEPT ![k] =
                    [session |-> session', stage |-> "history", from |-> history, key |-> NoRun]]
  BY <1>2 DEF StartRuns, Poll
<1>6. /\ polls' \in [1..MaxPolls -> PollRecords]
      /\ \A n \in 1..MaxPolls : /\ polls'[n].session <= begun' /\ polls'[n].from <= history
                                /\ polls'[n].stage # "over" => polls'[n].session # 0
      /\ \A n \in 1..MaxPolls : n # k => polls'[n] = polls[n]
      /\ polls' # polls => polls'[k].stage = "history"
  <2>1. CASE polls' = polls
    BY <1>1, <1>2, <2>1 DEF RunInv, PollTypes, PollRecords
  <2>2. CASE polls' # polls
    <3>1. /\ k \in 1..MaxPolls /\ polls \in [1..MaxPolls -> PollRecords]
          /\ polls' = [polls EXCEPT ![k] =
                    [session |-> session', stage |-> "history", from |-> history, key |-> NoRun]]
      BY <1>5, <2>2 DEF RunInv, PollTypes
    <3>2. [session |-> session', stage |-> "history", from |-> history, key |-> NoRun]
             \in PollRecords
      BY <1>1, <1>2 DEF PollRecords
    <3>3. polls' \in [1..MaxPolls -> PollRecords] /\ polls'[k] =
             [session |-> session', stage |-> "history", from |-> history, key |-> NoRun]
      BY <3>1, <3>2
    <3>4. \A n \in 1..MaxPolls : n # k => polls'[n] = polls[n]
      BY <3>1
    <3>5. \A n \in 1..MaxPolls : /\ polls'[n].session <= begun' /\ polls'[n].from <= history
                                 /\ polls'[n].stage # "over" => polls'[n].session # 0
      BY <1>1, <1>2, <3>3, <3>4 DEF PollRecords
    <3>6. QED BY <3>3, <3>4, <3>5
  <2>3. QED BY <2>1, <2>2
<1>7. RunTypeOK' /\ PollTypes'
  <2>1. history \in 0..MaxHistory /\ {laidOut, lapsed, overlapped} \subseteq BOOLEAN
        /\ view \in {"matrix", "progress"}
    BY DEF RunInv, RunTypeOK
  <2>2. QED BY <1>1, <1>2, <1>3, <1>6, <2>1, RunTypes DEF RunInv
<1>8. \A n \in InSession' : n = k /\ polls'[n].stage = "history"
  <2>1. ASSUME NEW n \in InSession' PROVE n = k /\ polls'[n].stage = "history"
    <3>1. n \in 1..MaxPolls /\ polls'[n].session = begun' /\ polls'[n].stage # "over"
      BY <1>1, <1>6, <2>1 DEF InSession
    <3>2. polls'[n] # polls[n]
      BY <1>1, <1>2, <3>1 DEF PollRecords
    <3>3. QED BY <1>6, <3>1, <3>2
  <2>2. QED BY <2>1
<1>9. BeforeLayout' /\ DrawnAsKnown'
  BY <1>3, <1>4, <1>8 DEF BeforeLayout, DrawnAsKnown, RunInv
<1>10. OnePoll'
  BY <1>3, <1>4, <1>8 DEF OnePoll, RunInv
<1>11. QED BY <1>7, <1>9, <1>10 DEF RunInv

\* A session ends: everything known and drawn of its runs is gone.
LEMMA RunsStop ==
  ASSUME OnScreen, RunInv, End, StopRuns
  PROVE  RunInv'
<1>1. session' = 0 /\ begun' = begun /\ begun \in Nat
  BY DEF End, OnScreen
<1>2. /\ DOMAIN polls = 1..MaxPolls /\ runs \in Named /\ NoRun \in Named /\ history \in Nat
      /\ \A n \in 1..MaxPolls : /\ polls[n] \in PollRecords
                                /\ polls[n].session <= begun /\ polls[n].from <= history
                                /\ polls[n].stage # "over" => polls[n].session # 0
  BY PollsTyped DEF RunInv
<1>3. /\ runs' = NoRun /\ progress' = NoEntry /\ laidOut' = FALSE /\ headline' = Unrendered
      /\ view' = "matrix" /\ section' = Empty /\ lapsed' = FALSE /\ overlapped' = FALSE
      /\ history' = history /\ polls' = polls
  BY DEF StopRuns
<1>4. RunTypeOK' /\ PollTypes'
  <2>1. history \in 0..MaxHistory /\ polls \in [1..MaxPolls -> PollRecords]
    BY DEF RunInv, RunTypeOK, PollTypes
  <2>2. {laidOut', lapsed', overlapped'} \subseteq BOOLEAN /\ view' \in {"matrix", "progress"}
    BY <1>3
  <2>3. /\ begun' \in Nat /\ begun' >= begun /\ history' \in 0..MaxHistory /\ history' >= history
        /\ polls' \in [1..MaxPolls -> PollRecords] /\ runs' \in Named
        /\ \A n \in 1..MaxPolls :
             /\ polls'[n].session <= begun' /\ polls'[n].from <= history'
             /\ polls'[n].stage # "over" => polls'[n].session # 0
    BY <1>1, <1>2, <1>3, <2>1
  <2>4. QED BY <1>3, <2>2, <2>3, RunTypes DEF RunInv
<1>5. InSession' = {}
  BY <1>1, <1>2, <1>3 DEF InSession
<1>6. BeforeLayout' /\ DrawnAsKnown' /\ OnePoll'
  BY <1>3, <1>5 DEF BeforeLayout, DrawnAsKnown, OnePoll, NoEntry
<1>7. QED BY <1>4, <1>6 DEF RunInv

\* A poll is asked for while others may be under way.
LEMMA PollAsked ==
  ASSUME OnScreen, RunInv, UNCHANGED pageSession, PollRuns
  PROVE  RunInv'
<1>1. /\ session' = session /\ begun' = begun /\ begun \in Nat /\ session # 0
      /\ session \in Nat /\ session <= begun
  BY DEF OnScreen, pageSession, PollRuns
<1>2. /\ DOMAIN polls = 1..MaxPolls /\ runs \in Named /\ NoRun \in Named /\ history \in Nat
      /\ InSession \subseteq 1..MaxPolls
      /\ \A n \in 1..MaxPolls : /\ polls[n] \in PollRecords
                                /\ polls[n].session <= begun /\ polls[n].from <= history
                                /\ polls[n].stage # "over" => polls[n].session # 0
  BY PollsTyped DEF RunInv
<1>3. /\ UNCHANGED <<history, runs, progress, laidOut, assessed, headline, view, section, lapsed>>
      /\ overlapped' = (overlapped \/ InSession # {})
  BY DEF PollRuns
<1> DEFINE new == [session |-> session, stage |-> "history", from |-> history, key |-> NoRun]
<1>4. PICK k \in 1..MaxPolls :
        polls[k].stage = "over" /\ polls' = [polls EXCEPT ![k] = new]
  BY <1>2 DEF PollRuns, Poll
<1>5. new \in PollRecords
  BY <1>1, <1>2 DEF PollRecords
<1>6. /\ polls' \in [1..MaxPolls -> PollRecords] /\ polls'[k] = new
      /\ \A n \in 1..MaxPolls : n # k => polls'[n] = polls[n]
  <2>1. polls \in [1..MaxPolls -> PollRecords]
    BY DEF RunInv, PollTypes
  <2>2. QED BY <1>4, <1>5, <2>1
<1>7. RunTypeOK' /\ PollTypes'
  <2>1. history \in 0..MaxHistory /\ {laidOut, lapsed, overlapped} \subseteq BOOLEAN
        /\ view \in {"matrix", "progress"}
    BY DEF RunInv, RunTypeOK
  <2>2. {laidOut', lapsed', overlapped'} \subseteq BOOLEAN /\ view' \in {"matrix", "progress"}
    BY <1>3, <2>1
  <2>3. \A n \in 1..MaxPolls : /\ polls'[n].session <= begun' /\ polls'[n].from <= history'
                               /\ polls'[n].stage # "over" => polls'[n].session # 0
    BY <1>1, <1>2, <1>3, <1>6
  <2>4. history' = history /\ history' >= history /\ begun' >= begun /\ runs' \in Named
    BY <1>1, <1>2, <1>3
  <2>5. QED BY <1>1, <1>3, <1>6, <2>1, <2>2, <2>3, <2>4, RunTypes DEF RunInv
<1>8. /\ InSession' = InSession \cup {k} /\ k \notin InSession
      /\ \A n \in InSession : polls'[n] = polls[n]
      /\ Bearing' = Bearing
  BY <1>1, <1>2, <1>4, <1>6 DEF InSession, Bearing
<1>9. BeforeLayout' /\ DrawnAsKnown'
  BY <1>1, <1>3, <1>6, <1>8 DEF RunInv, BeforeLayout, DrawnAsKnown
<1>10. OnePoll'
  <2>1. SUFFICES ASSUME ~overlapped'
                 PROVE  /\ \A m, n \in InSession' : m = n
                        /\ \A n \in InSession' : polls'[n].stage = "progress" => polls'[n].key = runs'
                        /\ Bearing' = {} => progress'.key \in {NoRun, runs'}
    BY DEF OnePoll
  <2>2. InSession = {} /\ ~overlapped
    BY <1>3, <2>1
  <2>3. Bearing = {} /\ progress.key \in {NoRun, runs}
    BY <2>2 DEF RunInv, OnePoll, Bearing
  <2>4. \A n \in InSession' : n = k /\ polls'[n].stage = "history"
    BY <1>6, <1>8, <2>2
  <2>5. progress' = progress /\ runs' = runs
    BY <1>3
  <2>6. QED BY <2>3, <2>4, <2>5
<1>11. QED BY <1>7, <1>9, <1>10 DEF RunInv

\* A poll that is over, dropped or refused before it knew of anything new.
LEMMA PollDropped ==
  ASSUME OnScreen, RunInv, UNCHANGED pageSession,
         NEW n \in 1..MaxPolls, polls[n].stage # "over",
         polls[n].session = session => polls[n].stage = "history",
         polls' = [polls EXCEPT ![n] = Idle],
         UNCHANGED <<history, runs, progress, laidOut, assessed, headline, view, section, lapsed,
                     overlapped>>
  PROVE  RunInv'
<1>1. /\ session' = session /\ begun' = begun /\ begun \in Nat
      /\ session \in Nat /\ session <= begun
  BY DEF OnScreen, pageSession
<1>2. /\ DOMAIN polls = 1..MaxPolls /\ runs \in Named /\ NoRun \in Named /\ history \in Nat
      /\ InSession \subseteq 1..MaxPolls
      /\ \A m \in 1..MaxPolls : /\ polls[m] \in PollRecords
                                /\ polls[m].session <= begun /\ polls[m].from <= history
                                /\ polls[m].stage # "over" => polls[m].session # 0
  BY PollsTyped DEF RunInv
<1>3. Idle \in PollRecords /\ Idle.session = 0 /\ Idle.stage = "over" /\ Idle.from = 0
  BY <1>2 DEF PollRecords, Idle
<1>4. /\ polls' \in [1..MaxPolls -> PollRecords] /\ polls'[n] = Idle
      /\ \A m \in 1..MaxPolls : m # n => polls'[m] = polls[m]
  <2>1. polls \in [1..MaxPolls -> PollRecords]
    BY DEF RunInv, PollTypes
  <2>2. QED BY <1>3, <2>1
<1>5. RunTypeOK' /\ PollTypes'
  <2>1. history \in 0..MaxHistory /\ {laidOut, lapsed, overlapped} \subseteq BOOLEAN
        /\ view \in {"matrix", "progress"}
    BY DEF RunInv, RunTypeOK
  <2>2. \A m \in 1..MaxPolls : /\ polls'[m].session <= begun' /\ polls'[m].from <= history'
                               /\ polls'[m].stage # "over" => polls'[m].session # 0
    BY <1>1, <1>2, <1>3, <1>4
  <2>3. history' >= history /\ begun' >= begun /\ runs' \in Named
    BY <1>1, <1>2
  <2>4. QED BY <1>1, <1>4, <2>1, <2>2, <2>3, RunTypes DEF RunInv
<1>6. /\ InSession' = InSession \ {n}
      /\ \A m \in InSession' : polls'[m] = polls[m]
      /\ Bearing' = Bearing
  BY <1>1, <1>2, <1>3, <1>4 DEF InSession, Bearing
<1>7. BeforeLayout' /\ DrawnAsKnown'
  BY <1>1, <1>6 DEF RunInv, BeforeLayout, DrawnAsKnown
<1>8. OnePoll'
  BY <1>6 DEF RunInv, OnePoll
<1>9. QED BY <1>5, <1>7, <1>8 DEF RunInv

\* The runs asked for or known already are named whenever they are drawn.
LEMMA RunsNamed ==
  ASSUME RunInv, NEW n \in 1..MaxPolls
  PROVE  \A then \in polls[n].from..history : LatestRun(Recorded(then)) \in Named
<1>1. history \in Nat /\ polls[n].from \in Nat
  BY PollsTyped DEF RunInv, PollRecords
<1>2. ASSUME NEW then \in polls[n].from..history PROVE LatestRun(Recorded(then)) \in Named
  <2>1. then \in Nat
    BY <1>1, <1>2
  <2>2. QED BY <2>1 DEF Named
<1>3. QED BY <1>2

\* The polls in ready, which knew of no run, learn which run is shown: they are over when it
\* needs no reading, and read its progress otherwise.
LEMMA PollsProceed ==
  ASSUME OnScreen, RunInv, UNCHANGED pageSession,
         NEW ready \in SUBSET (1..MaxPolls), ready # {},
         \A n \in ready : polls[n].stage \in {"history", "layout"},
         runs' \in Named, laidOut' = TRUE, Proceed(ready),
         UNCHANGED <<history, assessed, view, overlapped>>,
         \/ \E n \in ready : ready = {n} /\ polls[n].session = session /\ laidOut
         \/ ready = AtLayout /\ runs' = runs /\ ~laidOut
  PROVE  RunInv'
<1>1. /\ session' = session /\ begun' = begun /\ begun \in Nat
      /\ session \in Nat /\ session <= begun
  BY DEF OnScreen, pageSession
<1>2. /\ DOMAIN polls = 1..MaxPolls /\ runs \in Named /\ NoRun \in Named /\ history \in Nat
      /\ InSession \subseteq 1..MaxPolls
      /\ \A m \in 1..MaxPolls : /\ polls[m] \in PollRecords
                                /\ polls[m].session <= begun /\ polls[m].from <= history
                                /\ polls[m].stage # "over" => polls[m].session # 0
  BY PollsTyped DEF RunInv
<1>3. Idle \in PollRecords /\ Idle.session = 0 /\ Idle.stage = "over" /\ Idle.from = 0
  BY <1>2 DEF PollRecords, Idle
<1>4. /\ \A n \in InSession : polls[n].stage = "progress" => laidOut
      /\ \A n \in InSession : polls[n].stage = "layout" => ~laidOut
      /\ ~laidOut => progress = NoEntry /\ headline = Unrendered /\ section = Empty
  BY DEF RunInv, BeforeLayout
<1>5. /\ history \in 0..MaxHistory /\ {laidOut, lapsed, overlapped} \subseteq BOOLEAN
      /\ view \in {"matrix", "progress"}
  BY DEF RunInv, RunTypeOK
<1>6. CASE runs' = NoRun \/ Known(runs')
  <2>1. /\ progress' = IF runs' = NoRun THEN NoEntry ELSE progress
        /\ polls' = [n \in 1..MaxPolls |-> IF n \in ready THEN Idle ELSE polls[n]]
    BY <1>2, <1>6 DEF Proceed
  <2>2. \/ DrawHeadline /\ DrawSection
        \/ Undrawn /\ \A n \in ready : polls[n].session # session
    BY <1>6 DEF Proceed
  <2>3. polls' \in [1..MaxPolls -> PollRecords]
    BY <1>2, <1>3, <2>1
  <2>4. RunTypeOK' /\ PollTypes'
    <3>1. \A n \in 1..MaxPolls : /\ polls'[n].session <= begun' /\ polls'[n].from <= history'
                                 /\ polls'[n].stage # "over" => polls'[n].session # 0
      BY <1>1, <1>2, <1>3, <2>1
    <3>2. {laidOut', lapsed', overlapped'} \subseteq BOOLEAN
      BY <1>5, <2>2 DEF DrawHeadline, Undrawn
    <3>3. headline' = headline \/ DrawHeadline
      BY <2>2 DEF Undrawn
    <3>4. QED BY <1>1, <1>2, <1>5, <2>3, <3>1, <3>2, <3>3, RunTypes DEF RunInv
  <2>5. /\ InSession' = InSession \ ready
        /\ \A n \in InSession' : polls'[n] = polls[n]
    BY <1>1, <1>2, <1>3, <2>1 DEF InSession
  <2>6. BeforeLayout'
    <3>1. \A n \in InSession' : polls'[n].stage = "layout" => FALSE
      <4>1. CASE laidOut
        BY <1>4, <2>5, <4>1
      <4>2. CASE ready = AtLayout
        BY <1>2, <2>5, <4>2 DEF AtLayout
      <4>3. QED BY <4>1, <4>2
    <3>2. QED BY <1>1, <3>1 DEF BeforeLayout
  <2>7. DrawnAsKnown'
    <3>1. CASE Undrawn /\ \A n \in ready : polls[n].session # session
      <4>1. ~laidOut
        BY <3>1
      <4>2. headline' = Unrendered /\ section' = Empty
        BY <1>4, <3>1, <4>1 DEF Undrawn
      <4>3. QED BY <4>2 DEF DrawnAsKnown
    <3>2. QED BY <2>2, <3>1, DrawnNow
  <2>8. OnePoll'
    <3>1. ASSUME ~overlapped, ~laidOut
          PROVE  /\ \A m, n \in InSession' : m = n
                 /\ \A n \in InSession' : polls'[n].stage = "progress" => polls'[n].key = runs'
                 /\ progress'.key \in {NoRun, runs'}
      <4>1. progress'.key = NoRun
        BY <1>4, <2>1, <3>1 DEF NoEntry
      <4>2. QED BY <1>4, <2>5, <3>1, <4>1 DEF RunInv, OnePoll
    <3>2. ASSUME ~overlapped, laidOut
          PROVE  InSession' = {} /\ progress'.key \in {NoRun, runs'}
      <4>1. PICK n \in ready : ready = {n} /\ polls[n].session = session
        BY <3>2
      <4>2. n \in InSession
        BY <1>2, <4>1 DEF InSession
      <4>3. InSession' = {}
        BY <2>5, <3>2, <4>1, <4>2 DEF RunInv, OnePoll
      <4>4. progress'.key \in {NoRun, runs'}
        BY <1>6, <2>1 DEF Known, NoEntry
      <4>5. QED BY <4>3, <4>4
    <3>3. QED BY <3>1, <3>2 DEF OnePoll
  <2>9. QED BY <2>4, <2>6, <2>7, <2>8 DEF RunInv
<1>7. CASE ~(runs' = NoRun \/ Known(runs'))
  <2> DEFINE on(n) == [polls[n] EXCEPT !.stage = "progress", !.from = 0, !.key = runs']
  <2>1. /\ UNCHANGED <<progress, headline, section, lapsed>>
        /\ polls' = [n \in 1..MaxPolls |-> IF n \in ready THEN on(n) ELSE polls[n]]
    BY <1>2, <1>7 DEF Proceed
  <2>2. \A n \in 1..MaxPolls : /\ on(n) \in PollRecords /\ on(n).session = polls[n].session
                               /\ on(n).stage = "progress" /\ on(n).from = 0
                               /\ on(n).key = runs'
    BY <1>2 DEF PollRecords
  <2> HIDE DEF on
  <2>3. polls' \in [1..MaxPolls -> PollRecords]
    BY <1>2, <2>1, <2>2
  <2>4. RunTypeOK' /\ PollTypes'
    <3>1. \A n \in 1..MaxPolls : /\ polls'[n].session <= begun' /\ polls'[n].from <= history'
                                 /\ polls'[n].stage # "over" => polls'[n].session # 0
      BY <1>1, <1>2, <2>1, <2>2
    <3>2. {laidOut', lapsed', overlapped'} \subseteq BOOLEAN
      BY <1>5, <2>1
    <3>3. QED BY <1>1, <1>2, <1>5, <2>1, <2>3, <3>1, <3>2, RunTypes DEF RunInv
  <2>5. /\ InSession' = InSession
        /\ \A n \in InSession \ ready : polls'[n] = polls[n]
        /\ \A n \in ready : polls'[n].stage = "progress" /\ polls'[n].key = runs'
    BY <1>1, <1>2, <2>1, <2>2 DEF InSession
  <2>6. BeforeLayout'
    <3>1. \A n \in InSession' : polls'[n].stage = "layout" => FALSE
      <4>1. CASE laidOut
        BY <1>4, <2>5, <4>1
      <4>2. CASE ready = AtLayout
        BY <1>2, <2>5, <4>2 DEF AtLayout
      <4>3. QED BY <4>1, <4>2
    <3>2. QED BY <1>1, <3>1 DEF BeforeLayout
  <2>7. CASE laidOut
    <3>1. PICK n \in ready : ready = {n} /\ polls[n].session = session
      BY <2>7
    <3>2. n \in InSession' /\ n \in Bearing'
      BY <1>2, <2>5, <3>1 DEF InSession, Bearing
    <3>3. DrawnAsKnown'
      BY <3>2 DEF DrawnAsKnown
    <3>4. OnePoll'
      BY <2>5, <3>1, <3>2 DEF RunInv, OnePoll
    <3>5. QED BY <2>4, <2>6, <3>3, <3>4 DEF RunInv
  <2>8. CASE ~laidOut
    <3>1. progress' = NoEntry /\ headline' = Unrendered /\ section' = Empty
      BY <1>4, <2>1, <2>8
    <3>2. DrawnAsKnown'
      BY <3>1 DEF DrawnAsKnown
    <3>3. OnePoll'
      BY <1>4, <2>5, <2>8, <3>1 DEF RunInv, OnePoll, NoEntry
    <3>4. QED BY <2>4, <2>6, <3>2, <3>3 DEF RunInv
  <2>9. QED BY <2>7, <2>8
<1>8. QED BY <1>6, <1>7

\* A poll whose history is known waits for the layout.
LEMMA PollWaits ==
  ASSUME OnScreen, RunInv, UNCHANGED pageSession, ~laidOut,
         NEW n \in 1..MaxPolls, polls[n].stage = "history", polls[n].session = session,
         polls' = [polls EXCEPT ![n].stage = "layout", ![n].from = 0],
         runs' \in Named,
         UNCHANGED <<history, progress, laidOut, assessed, headline, view, section, lapsed,
                     overlapped>>
  PROVE  RunInv'
<1>1. /\ session' = session /\ begun' = begun /\ begun \in Nat
      /\ session \in Nat /\ session <= begun
  BY DEF OnScreen, pageSession
<1>2. /\ DOMAIN polls = 1..MaxPolls /\ runs \in Named /\ NoRun \in Named /\ history \in Nat
      /\ InSession \subseteq 1..MaxPolls
      /\ \A m \in 1..MaxPolls : /\ polls[m] \in PollRecords
                                /\ polls[m].session <= begun /\ polls[m].from <= history
                                /\ polls[m].stage # "over" => polls[m].session # 0
  BY PollsTyped DEF RunInv
<1>3. /\ polls' \in [1..MaxPolls -> PollRecords]
      /\ polls'[n].stage = "layout" /\ polls'[n].session = session /\ polls'[n].from = 0
      /\ \A m \in 1..MaxPolls : m # n => polls'[m] = polls[m]
  <2>1. polls \in [1..MaxPolls -> PollRecords]
    BY DEF RunInv, PollTypes
  <2>2. QED BY <2>1 DEF PollRecords
<1>4. RunTypeOK' /\ PollTypes'
  <2>1. history \in 0..MaxHistory /\ {laidOut, lapsed, overlapped} \subseteq BOOLEAN
        /\ view \in {"matrix", "progress"}
    BY DEF RunInv, RunTypeOK
  <2>2. \A m \in 1..MaxPolls : /\ polls'[m].session <= begun' /\ polls'[m].from <= history'
                               /\ polls'[m].stage # "over" => polls'[m].session # 0
    BY <1>1, <1>2, <1>3
  <2>3. history' >= history /\ begun' >= begun
    BY <1>1, <1>2
  <2>4. QED BY <1>1, <1>3, <2>1, <2>2, <2>3, RunTypes DEF RunInv
<1>5. /\ InSession' = InSession /\ n \in Bearing'
      /\ \A m \in InSession \ {n} : polls'[m] = polls[m]
  BY <1>1, <1>2, <1>3 DEF InSession, Bearing
<1>6. BeforeLayout' /\ DrawnAsKnown'
  BY <1>1, <1>3, <1>5 DEF RunInv, BeforeLayout, DrawnAsKnown
<1>7. OnePoll'
  <2>1. \A m \in InSession : polls[m].stage # "progress"
    BY DEF RunInv, BeforeLayout
  <2>2. QED BY <1>3, <1>5, <2>1 DEF RunInv, OnePoll
<1>8. QED BY <1>4, <1>6, <1>7 DEF RunInv

\* The history is answered, or fails, or is refused.
LEMMA HistoryKeeps ==
  ASSUME OnScreen, RunInv, UNCHANGED pageSession,
         NEW n \in 1..MaxPolls, HistoryAnswered(n) \/ HistoryFails(n) \/ HistoryRefused(n)
  PROVE  RunInv'
<1>1. polls[n].stage = "history" /\ polls[n].stage # "over"
      /\ UNCHANGED <<history, laidOut, assessed, view, overlapped>>
  BY DEF HistoryAnswered, HistoryFails, HistoryRefused
<1>2. CASE Dropped(n)
  BY <1>1, <1>2, PollDropped DEF Dropped
<1>3. CASE ~Dropped(n)
  <2>1. polls[n].session = session /\ FromHistory(n)
    BY <1>3 DEF HistoryAnswered, HistoryFails, HistoryRefused
  <2>2. session # 0 /\ runs \in Named
    BY <1>1, <2>1, PollsTyped DEF RunInv
  <2>3. runs' \in Named
    BY <1>3, <2>1, <2>2, RunsNamed DEF HistoryAnswered, HistoryFails, HistoryRefused
  <2>4. CASE laidOut
    <3>1. Proceed({n}) /\ laidOut' = TRUE
      BY <1>1, <2>1, <2>4 DEF FromHistory
    <3>2. QED BY <1>1, <2>1, <2>2, <2>3, <2>4, <3>1, PollsProceed
  <2>5. CASE ~laidOut
    BY <1>1, <2>1, <2>3, <2>5, PollWaits DEF FromHistory
  <2>6. QED BY <2>4, <2>5
<1>4. QED BY <1>2, <1>3

\* The progress is answered, fails or is refused: the poll is over and everything drawn.
LEMMA ProgressKeeps ==
  ASSUME OnScreen, RunInv, UNCHANGED pageSession,
         NEW n \in 1..MaxPolls, ProgressAnswered(n) \/ ProgressRefused(n)
  PROVE  RunInv'
<1>1. /\ session' = session /\ begun' = begun /\ begun \in Nat
      /\ session \in Nat /\ session <= begun
  BY DEF OnScreen, pageSession
<1>2. /\ DOMAIN polls = 1..MaxPolls /\ runs \in Named /\ NoRun \in Named /\ history \in Nat
      /\ InSession \subseteq 1..MaxPolls
      /\ \A m \in 1..MaxPolls : /\ polls[m] \in PollRecords
                                /\ polls[m].session <= begun /\ polls[m].from <= history
                                /\ polls[m].stage # "over" => polls[m].session # 0
  BY PollsTyped DEF RunInv
<1>3. Idle \in PollRecords /\ Idle.session = 0 /\ Idle.stage = "over" /\ Idle.from = 0
  BY <1>2 DEF PollRecords, Idle
<1>4. /\ polls[n].stage = "progress" /\ polls' = [polls EXCEPT ![n] = Idle]
      /\ UNCHANGED <<history, runs, laidOut, assessed, view>>
      /\ IF polls[n].session = session THEN DrawHeadline /\ DrawSection ELSE Undrawn
  BY DEF ProgressAnswered, ProgressRefused, FinishPoll
<1>5. /\ polls' \in [1..MaxPolls -> PollRecords] /\ polls'[n] = Idle
      /\ \A m \in 1..MaxPolls : m # n => polls'[m] = polls[m]
  <2>1. polls \in [1..MaxPolls -> PollRecords]
    BY DEF RunInv, PollTypes
  <2>2. QED BY <1>3, <1>4, <2>1
<1>6. InSession' = InSession \ {n} /\ \A m \in InSession' : polls'[m] = polls[m]
  BY <1>1, <1>2, <1>3, <1>5 DEF InSession
<1>7. \/ overlapped' = overlapped
      \/ polls[n].session = session /\ overlapped' = TRUE
  BY DEF ProgressAnswered, ProgressRefused, RunInv, RunTypeOK
<1>8. RunTypeOK' /\ PollTypes'
  <2>1. history \in 0..MaxHistory /\ {laidOut, lapsed, overlapped} \subseteq BOOLEAN
        /\ view \in {"matrix", "progress"}
    BY DEF RunInv, RunTypeOK
  <2>2. \A m \in 1..MaxPolls : /\ polls'[m].session <= begun' /\ polls'[m].from <= history'
                               /\ polls'[m].stage # "over" => polls'[m].session # 0
    BY <1>1, <1>2, <1>3, <1>4, <1>5
  <2>3. {laidOut', lapsed', overlapped'} \subseteq BOOLEAN
    BY <1>4, <1>7, <2>1 DEF DrawHeadline, Undrawn
  <2>4. headline' = headline \/ DrawHeadline
    BY <1>4 DEF Undrawn
  <2>5. /\ history' = history /\ history' >= history /\ begun' >= begun /\ runs' \in Named
        /\ view' \in {"matrix", "progress"}
    BY <1>1, <1>2, <1>4, <2>1
  <2>6. QED BY <1>1, <1>5, <2>1, <2>2, <2>3, <2>4, <2>5, RunTypes DEF RunInv
<1>9. CASE polls[n].session # session
  <2>1. Undrawn /\ progress' = progress /\ overlapped' = overlapped
    BY <1>4, <1>7, <1>9 DEF ProgressAnswered, ProgressRefused
  <2>2. InSession' = InSession /\ Bearing' = Bearing
    BY <1>6, <1>9 DEF InSession, Bearing
  <2>3. BeforeLayout' /\ DrawnAsKnown'
    BY <1>1, <1>4, <1>6, <2>1, <2>2 DEF RunInv, BeforeLayout, DrawnAsKnown, Undrawn
  <2>4. OnePoll'
    BY <1>4, <1>6, <2>1, <2>2 DEF RunInv, OnePoll
  <2>5. QED BY <1>8, <2>3, <2>4 DEF RunInv
<1>10. CASE polls[n].session = session
  <2>1. n \in InSession
    BY <1>2, <1>4, <1>10 DEF InSession
  <2>2. laidOut
    BY <1>2, <1>4, <1>10, <2>1 DEF RunInv, BeforeLayout
  <2>3. BeforeLayout'
    BY <1>1, <1>4, <1>6, <2>2 DEF RunInv, BeforeLayout
  <2>4. DrawnAsKnown'
    BY <1>4, <1>10, DrawnNow
  <2>5. OnePoll'
    <3>1. SUFFICES ASSUME ~overlapped' PROVE OnePoll'
      BY DEF OnePoll
    <3>2. ~overlapped /\ ProgressAnswered(n)
      <4>1. ~ProgressRefused(n)
        BY <1>10, <3>1, Zenon DEF ProgressRefused
      <4>2. ~overlapped
        BY <1>7, <3>1
      <4>3. QED BY <4>1, <4>2
    <3>3. InSession = {n} /\ polls[n].key = runs
      BY <1>4, <2>1, <3>2 DEF RunInv, OnePoll
    <3>4. progress'.key = polls[n].key
      BY <1>10, <3>2 DEF ProgressAnswered
    <3>5. QED BY <1>4, <1>6, <3>3, <3>4 DEF OnePoll
  <2>6. QED BY <1>8, <2>3, <2>4, <2>5 DEF RunInv
<1>11. QED BY <1>9, <1>10

\* The layout is lost: those who waited for it are over, and none was past it.
LEMMA LayoutLostKeeps ==
  ASSUME OnScreen, RunInv, UNCHANGED pageSession, LayoutLost
  PROVE  RunInv'
<1>1. /\ session' = session /\ begun' = begun /\ begun \in Nat
      /\ session \in Nat /\ session <= begun
  BY DEF OnScreen, pageSession
<1>2. /\ DOMAIN polls = 1..MaxPolls /\ runs \in Named /\ NoRun \in Named /\ history \in Nat
      /\ InSession \subseteq 1..MaxPolls
      /\ \A m \in 1..MaxPolls : /\ polls[m] \in PollRecords
                                /\ polls[m].session <= begun /\ polls[m].from <= history
                                /\ polls[m].stage # "over" => polls[m].session # 0
  BY PollsTyped DEF RunInv
<1>3. Idle \in PollRecords /\ Idle.session = 0 /\ Idle.stage = "over" /\ Idle.from = 0
  BY <1>2 DEF PollRecords, Idle
<1>4. /\ ~laidOut /\ polls' = [m \in 1..MaxPolls |-> IF m \in AtLayout THEN Idle ELSE polls[m]]
      /\ UNCHANGED <<history, runs, progress, laidOut, assessed, headline, view, section, lapsed,
                     overlapped>>
  BY <1>2 DEF LayoutLost
<1>5. polls' \in [1..MaxPolls -> PollRecords]
  BY <1>2, <1>3, <1>4
<1>6. RunTypeOK' /\ PollTypes'
  <2>1. history \in 0..MaxHistory /\ {laidOut, lapsed, overlapped} \subseteq BOOLEAN
        /\ view \in {"matrix", "progress"}
    BY DEF RunInv, RunTypeOK
  <2>2. \A m \in 1..MaxPolls : /\ polls'[m].session <= begun' /\ polls'[m].from <= history'
                               /\ polls'[m].stage # "over" => polls'[m].session # 0
    BY <1>1, <1>2, <1>3, <1>4
  <2>3. history' >= history /\ begun' >= begun /\ runs' \in Named
    BY <1>1, <1>2, <1>4
  <2>4. QED BY <1>1, <1>4, <1>5, <2>1, <2>2, <2>3, RunTypes DEF RunInv
<1>7. /\ InSession' = InSession \ AtLayout
      /\ \A m \in InSession' : polls'[m] = polls[m] /\ polls[m].stage \notin {"layout", "progress"}
  <2>1. InSession' = InSession \ AtLayout /\ \A m \in InSession' : polls'[m] = polls[m]
    BY <1>1, <1>2, <1>3, <1>4 DEF InSession
  <2>2. \A m \in InSession \ AtLayout : polls[m].stage \notin {"layout", "progress"}
    BY <1>2, <1>4 DEF AtLayout, RunInv, BeforeLayout
  <2>3. QED BY <2>1, <2>2
<1>8. progress = NoEntry /\ headline = Unrendered /\ section = Empty
  BY <1>4 DEF RunInv, BeforeLayout
<1>9. BeforeLayout' /\ DrawnAsKnown'
  BY <1>1, <1>4, <1>7, <1>8 DEF BeforeLayout, DrawnAsKnown
<1>10. OnePoll'
  BY <1>4, <1>7, <1>8 DEF RunInv, OnePoll, NoEntry
<1>11. QED BY <1>6, <1>9, <1>10 DEF RunInv

\* The layout is drawn: those who waited for it go on.
LEMMA LayoutDrawnKeeps ==
  ASSUME OnScreen, RunInv, UNCHANGED pageSession, LayoutDrawn
  PROVE  RunInv'
<1>1. /\ session' = session /\ begun' = begun /\ begun \in Nat
      /\ session \in Nat /\ session <= begun
  BY DEF OnScreen, pageSession
<1>2. /\ ~laidOut /\ laidOut' = TRUE
      /\ UNCHANGED <<history, runs, assessed, view, overlapped>>
      /\ IF AtLayout = {} THEN UNCHANGED <<progress, polls, headline, section, lapsed>>
         ELSE Proceed(AtLayout)
  BY DEF LayoutDrawn
<1>3. runs \in Named /\ AtLayout \subseteq 1..MaxPolls
      /\ \A n \in AtLayout : polls[n].stage \in {"history", "layout"}
  BY PollsTyped DEF RunInv, AtLayout
<1>4. CASE AtLayout # {}
  BY <1>2, <1>3, <1>4, PollsProceed
<1>5. CASE AtLayout = {}
  <2>1. UNCHANGED <<progress, polls, headline, section, lapsed>>
    BY <1>2, <1>5
  <2>2. RunTypeOK' /\ PollTypes'
    BY <1>1, <1>2, <2>1 DEF RunInv, RunTypeOK, PollTypes
  <2>3. InSession' = InSession /\ \A m \in InSession' : polls[m].stage # "layout"
    BY <1>1, <1>5, <2>1 DEF InSession, AtLayout
  <2>4. headline' = Unrendered /\ section' = Empty /\ progress' = NoEntry
    BY <1>2, <2>1 DEF RunInv, BeforeLayout
  <2>5. BeforeLayout' /\ DrawnAsKnown'
    BY <1>1, <1>2, <2>1, <2>3, <2>4 DEF BeforeLayout, DrawnAsKnown
  <2>6. OnePoll'
    BY <1>2, <2>1, <2>3, <2>4 DEF RunInv, OnePoll, NoEntry
  <2>7. QED BY <2>2, <2>5, <2>6 DEF RunInv
<1>6. QED BY <1>4, <1>5

\* catalog-api goes on, the matrix is read or its feed lost, the views are switched.
LEMMA ViewsKeep ==
  ASSUME OnScreen, RunInv, UNCHANGED pageSession,
         RunAdvances \/ MatrixReading \/ FeedLost \/ ShowOverviewView
  PROVE  RunInv'
<1>1. /\ session' = session /\ begun' = begun /\ begun \in Nat
  BY DEF OnScreen, pageSession
<1>2. /\ UNCHANGED <<runs, progress, polls, laidOut, overlapped>>
      /\ history' = history \/ (history < MaxHistory /\ history' = history + 1)
  BY DEF RunAdvances, MatrixReading, FeedLost, ShowOverviewView
<1>3. /\ runs \in Named /\ history \in Nat /\ history \in 0..MaxHistory
      /\ polls \in [1..MaxPolls -> PollRecords]
      /\ \A m \in 1..MaxPolls : /\ polls[m] \in PollRecords
                                /\ polls[m].session <= begun /\ polls[m].from <= history
                                /\ polls[m].stage # "over" => polls[m].session # 0
  BY PollsTyped DEF RunInv, RunTypeOK, PollTypes
<1>4. RunTypeOK' /\ PollTypes'
  <2>1. {laidOut, lapsed, overlapped} \subseteq BOOLEAN /\ view \in {"matrix", "progress"}
    BY DEF RunInv, RunTypeOK
  <2>2. {laidOut', lapsed', overlapped'} \subseteq BOOLEAN /\ view' \in {"matrix", "progress"}
    BY <1>2, <2>1
    DEF RunAdvances, MatrixReading, FeedLost, ShowOverviewView, DrawHeadline
  <2>3. headline' = headline \/ DrawHeadline
    BY DEF RunAdvances, MatrixReading, FeedLost, ShowOverviewView
  <2>4. history' \in 0..MaxHistory /\ history' >= history
    BY <1>2, <1>3, RunAssumption
  <2>5. \A m \in 1..MaxPolls : polls[m].from <= history'
    BY <1>3, <2>4 DEF PollRecords
  <2>6. QED BY <1>1, <1>2, <1>3, <2>2, <2>3, <2>4, <2>5, RunTypes DEF RunInv
<1>5. InSession' = InSession /\ Bearing' = Bearing
  BY <1>1, <1>2 DEF InSession, Bearing
<1>6. OnePoll'
  BY <1>2, <1>5 DEF RunInv, OnePoll
<1>7. BeforeLayout'
  <2>1. laidOut \/ (headline' = headline /\ section' = section)
    <3>1. CASE RunAdvances
      BY <3>1 DEF RunAdvances
    <3>2. CASE MatrixReading
      BY <3>2, Zenon DEF MatrixReading
    <3>3. CASE FeedLost
      BY <3>3 DEF FeedLost
    <3>4. CASE ShowOverviewView
      <4>1. ASSUME ~laidOut PROVE section' = section
        BY <3>4, <4>1, Zenon DEF ShowOverviewView
      <4>2. headline' = headline
        BY <3>4, Zenon DEF ShowOverviewView
      <4>3. QED BY <4>1, <4>2
    <3>5. QED BY <3>1, <3>2, <3>3, <3>4
  <2>2. QED BY <1>1, <1>2, <1>5, <2>1 DEF RunInv, BeforeLayout
<1>8. DrawnAsKnown'
  <2>1. CASE RunAdvances
    BY <1>2, <1>5, <2>1 DEF RunAdvances, RunInv, DrawnAsKnown
  <2>2. CASE MatrixReading
    BY <2>2 DEF MatrixReading, DrawHeadline, DrawSection, DrawnAsKnown
  <2>3. CASE FeedLost
    BY <2>3 DEF FeedLost, DrawnAsKnown
  <2>4. CASE ShowOverviewView
    <3>1. UNCHANGED <<assessed, headline, lapsed>>
      BY <2>4 DEF ShowOverviewView
    <3>2. \/ view' = "progress" /\ laidOut /\ DrawSection
          \/ view' # "progress"
          \/ ~laidOut /\ section' = section
      BY <2>4 DEF ShowOverviewView
    <3>3. view' = "progress" /\ section' # Empty => section' = Section(runs', progress', assessed')
      BY <3>2 DEF DrawSection, RunInv, BeforeLayout
    <3>4. QED BY <1>2, <1>5, <3>1, <3>3 DEF RunInv, DrawnAsKnown
  <2>5. QED BY <2>1, <2>2, <2>3, <2>4
<1>9. QED BY <1>4, <1>6, <1>7, <1>8 DEF RunInv

\* Every step of the runs keeps their invariant.
LEMMA RunsStep ==
  ASSUME OnScreen, RunInv,
         \/ Begin /\ StartRuns
         \/ End /\ StopRuns
         \/ (RunNext \/ UNCHANGED runVars) /\ UNCHANGED pageSession
  PROVE  RunInv'
<1>1. DOMAIN polls = 1..MaxPolls
  BY PollsTyped DEF RunInv
<1>2. CASE UNCHANGED runVars /\ UNCHANGED pageSession
  BY <1>2 DEF runVars, pageSession, RunInv, RunTypeOK, PollTypes, BeforeLayout, DrawnAsKnown,
     OnePoll, InSession, Bearing
<1>3. CASE RunNext /\ UNCHANGED pageSession
  BY <1>1, <1>3, PollAsked, HistoryKeeps, ProgressKeeps, LayoutDrawnKeeps, LayoutLostKeeps,
     ViewsKeep DEF RunNext
<1>4. QED BY <1>2, <1>3, RunsStart, RunsStop

\* No run is known or drawn before the first session.
LEMMA RunsInit == RunInit /\ NoSession => RunInv
<1> SUFFICES ASSUME RunInit, NoSession PROVE RunInv
  OBVIOUS
<1>1. polls \in [1..MaxPolls -> PollRecords]
      /\ \A n \in 1..MaxPolls : polls[n].stage = "over" /\ polls[n].session = 0 /\ polls[n].from = 0
  BY DEF RunInit, Idle, PollRecords, Named
<1>2. session = 0 /\ begun = 0 /\ history = 0 /\ MaxHistory \in Nat
  BY RunAssumption DEF NoSession, RunInit
<1>3. InSession = {}
  BY <1>1 DEF InSession
<1>4. RunTypeOK
  <2>1. {laidOut, lapsed, overlapped} \subseteq BOOLEAN /\ view \in {"matrix", "progress"}
        /\ headline = Unrendered
    BY DEF RunInit
  <2>2. \A n \in DOMAIN polls :
          /\ polls[n].session \in 0..begun /\ polls[n].from \in 0..history
          /\ polls[n].stage \in {"over", "history", "layout", "progress"}
    BY <1>1, <1>2
  <2>3. history \in 0..MaxHistory
    BY <1>2
  <2>4. QED BY <2>1, <2>2, <2>3 DEF RunTypeOK
<1>5. PollTypes
  BY <1>1, <1>2 DEF RunInit, PollTypes, Named
<1>6. BeforeLayout /\ DrawnAsKnown /\ OnePoll
  BY <1>3 DEF RunInit, BeforeLayout, DrawnAsKnown, OnePoll, NoEntry
<1>7. QED BY <1>4, <1>5, <1>6 DEF RunInv

\* What the invariant says between polls.
LEMMA RunsProved == RunInv => RunViewIsCurrent
BY DEF RunInv, DrawnAsKnown, OnePoll, Bearing, RunViewIsCurrent
=============================================================================
