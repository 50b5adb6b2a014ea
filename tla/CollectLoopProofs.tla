------------------------- MODULE CollectLoopProofs -------------------------
(***************************************************************************)
(* Proofs about the cadence of the collection loop, for every setting of   *)
(* its intervals, of the limits of the rules and of the bounds.  Instead   *)
(* of the past readings, the invariant speaks of the next one: when it is  *)
(* due, watched or not, and in which stage a stall will then be.           *)
(***************************************************************************)
EXTENDS CollectLoop, TLAPS

\* What the cycles that failed so far have cost: each its collection and its retry.
Lost == fails * (Retry + MaxCollect)

\* A time that was noted, if it was, is not in the future.
Sooner(t) == t # None => t \in Nat /\ t <= now

\* The types, with the clock never past the end of what the loop awaits.
LoopTypes ==
  /\ now \in Nat /\ due \in Nat /\ now <= due
  /\ phase \in {"collecting", "casting", "waiting", "resting"}
  /\ waited \in Nat /\ waited < Idle /\ fails \in 0..MaxFails
  /\ open \in BOOLEAN /\ counted \in BOOLEAN
  /\ Sooner(readAt) /\ Sooner(scrapedAt) /\ Sooner(frozenAt) /\ Sooner(watchedSince)
  /\ Sooner(seenAt) /\ Sooner(zeroSince)

\* What each wait lasts at most.  A collection under way began after the last reading and the
\* last scrape.
InPhase ==
  /\ phase = "collecting" =>
       /\ MaxCollect <= due /\ due <= now + MaxCollect
       /\ \A t \in {seenAt, scrapedAt} : t # None => t <= due - MaxCollect
  /\ phase = "casting" => due <= now + MaxCast
  /\ phase = "waiting" => due <= now + Active
  /\ phase = "resting" => due <= now + Retry /\ fails > 0

\* The time since when somebody watches is noted exactly while has_viewers() is true.
WatchedWhile == watchedSince # None <=> HasViewers(open, readAt, now)

\* An ack rate is known from the second scrape on, and a run of zero acks is under way only if
\* the last scrape came after the consumer stopped.
ZeroWhenFrozen ==
  /\ counted <=> scrapedAt # None
  /\ zeroSince # None => frozenAt # None /\ scrapedAt # None /\ frozenAt <= scrapedAt

\* When the next reading is due at the latest, if somebody watches until then.
NextWatched ==
  IF phase = "collecting" THEN due
  ELSE IF phase = "casting" THEN due + Active + MaxCollect ELSE due + MaxCollect

\* When the next reading is due at the latest, even if nobody does.
NextIdle ==
  IF phase = "collecting" THEN due
  ELSE IF phase = "casting" THEN due + Active + Idle + MaxCollect
  ELSE IF phase = "waiting" THEN due - waited + Idle + MaxCollect ELSE due + MaxCollect

\* The next reading is due within a cycle of the last one, or of the arrival of a viewer, plus
\* what the failures cost: the distance that no step but a reading lengthens.
NextIsNear ==
  /\ watchedSince # None => NextWatched <= Later(watchedSince, seenAt) + Cycle + Lost
  /\ NextIdle <= Later(0, seenAt) + Idle + Cycle + Lost

\* The inductive invariant of the cadence.  ReadingsStayFresh looks back at the last reading,
\* and what bounds its age is when the next one is due.
FreshInv == LoopTypes /\ InPhase /\ WatchedWhile /\ ZeroWhenFrozen /\ NextIsNear

\* Since when the queue is frozen and watched.
StallBegun == Later(frozenAt, watchedSince)

\* A reading was kept at t or later.
ReadSince(t) == seenAt # None /\ seenAt >= t

\* The last scrape came after the consumer stopped: the next one reads a zero rate.
ScrapedFrozen == scrapedAt # None /\ scrapedAt >= frozenAt

\* What StallSeenWatched needs besides: how far a watched stall is on its way to being seen.  No
\* reading yet, a reading but no scrape, no zero rate yet, and a run of zero rates that began in
\* time and has not reached STALL_SECONDS: each stage is over by a deadline of its own.
StallCountsUp ==
  frozenAt # None /\ watchedSince # None =>
    /\ ~ReadSince(StallBegun) => NextWatched <= StallBegun + Cycle + Lost
    /\ ReadSince(StallBegun) /\ ~ScrapedFrozen => NextWatched <= StallBegun + 2 * Cycle + Lost
    /\ ReadSince(StallBegun) /\ ScrapedFrozen /\ zeroSince = None
         => NextWatched <= StallBegun + 3 * Cycle + Lost
    /\ ReadSince(StallBegun) /\ zeroSince # None
         => /\ zeroSince <= StallBegun + 3 * Cycle + Lost
            /\ condition # "stalled" => NextWatched < StallBegun + StallTime + 4 * Cycle + Lost

-----------------------------------------------------------------------------
(* The constants, and the deadlines *)

\* What the assumptions say of the intervals.
LEMMA LoopConstants ==
  /\ Active \in Nat /\ Idle \in Nat /\ Grace \in Nat /\ Retry \in Nat /\ MaxCollect \in Nat
  /\ Active > 0 /\ Idle > 0 /\ Retry > 0 /\ MaxCollect > 0
  /\ MaxCast \in Nat /\ MaxFails \in Nat /\ None \notin Int
  /\ StallTime \in Nat /\ StallTime > 0 /\ GapTime \in Nat
  /\ Cycle \in Nat /\ Cycle = MaxCast + Active + MaxCollect
BY LoopAssumption, ConditionAssumption DEF Cycle

\* The cost of the failed cycles stays within Setbacks, and a failure adds one retry to it.
LEMMA LostIs ==
  ASSUME fails \in 0..MaxFails
  PROVE  /\ Lost \in Nat /\ Lost <= Setbacks /\ Setbacks \in Nat
         /\ fails > 0 => Lost >= Retry + MaxCollect
         /\ fails' = fails + 1 => Lost' = Lost + Retry + MaxCollect
         /\ fails' = fails => Lost' = Lost
<1> DEFINE S == Retry + MaxCollect
<1>1. S \in Nat /\ MaxFails \in Nat /\ fails \in Nat
  BY LoopConstants
<1> HIDE DEF S
<1>2. \A a, b \in Nat : a * b \in Nat
  OBVIOUS
<1>3. Lost = fails * S /\ Setbacks = MaxFails * S /\ Lost' = fails' * S
  BY DEF Lost, Setbacks, S
<1>4. fails * S <= MaxFails * S
  <2>1. PICK d \in Nat : MaxFails = fails + d
    <3>1. MaxFails - fails \in Nat /\ MaxFails = fails + (MaxFails - fails)
      BY <1>1
    <3>2. QED BY <3>1
  <2>2. MaxFails * S = fails * S + d * S
    BY <1>1, <2>1
  <2>3. d * S \in Nat /\ fails * S \in Nat
    BY <1>1, <1>2
  <2>4. QED BY <2>2, <2>3
<1>5. fails > 0 => fails * S >= S
  <2>1. SUFFICES ASSUME fails > 0 PROVE fails * S >= S
    OBVIOUS
  <2>2. fails - 1 \in Nat /\ fails * S = (fails - 1) * S + S
    BY <1>1, <2>1
  <2>3. (fails - 1) * S \in Nat
    BY <1>1, <1>2, <2>2
  <2>4. QED BY <1>1, <2>2, <2>3
<1>6. (fails + 1) * S = fails * S + S
  BY <1>1
<1>7. fails * S \in Nat /\ MaxFails * S \in Nat
  BY <1>1, <1>2
<1>8. /\ fails' = fails + 1 => Lost' = Lost + S
      /\ fails' = fails => Lost' = Lost
  BY <1>3, <1>6
<1>9. Lost \in Nat /\ Lost <= Setbacks /\ Setbacks \in Nat /\ (fails > 0 => Lost >= S)
  BY <1>3, <1>4, <1>5, <1>7
<1>10. Lost + S = Lost + Retry + MaxCollect
  BY <1>9, LoopConstants DEF S
<1>11. QED BY <1>8, <1>9, <1>10 DEF S

\* The next reading comes after the end of the present wait, and within a cycle of now.
LEMMA NextIsSoon ==
  ASSUME FreshInv
  PROVE  /\ NextWatched \in Int /\ NextIdle \in Int /\ due <= NextWatched /\ due <= NextIdle
         /\ NextWatched <= now + Cycle + Lost
<1> USE DEF FreshInv, LoopTypes, InPhase
<1>1. Lost \in Nat /\ (fails > 0 => Lost >= Retry + MaxCollect)
  BY LostIs
<1>2. QED BY <1>1, LoopConstants DEF NextWatched, NextIdle

\* A step that takes no reading and brings no viewer keeps every deadline, if it puts the next
\* reading off by no more than the failures it adds cost.
LEMMA LoopGoesOn ==
  ASSUME FreshInv, UNCHANGED <<now, viewVars, frozenAt, seenAt, zeroSince, condition>>,
         NEW lost \in Nat, lost = Lost', lost >= Lost,
         NEW next \in Int, next = NextWatched', NEW idle \in Int, idle = NextIdle',
         watchedSince # None => next <= NextWatched + (lost - Lost),
         idle <= NextIdle + (lost - Lost),
         ScrapedFrozen /\ frozenAt # None => ScrapedFrozen'
  PROVE  NextIsNear' /\ (StallCountsUp => StallCountsUp')
<1> USE DEF FreshInv, LoopTypes, Sooner, viewVars
<1>1. Lost \in Nat /\ NextWatched \in Int /\ NextIdle \in Int /\ Cycle \in Nat
      /\ Idle \in Nat /\ StallTime \in Nat /\ 0 # None /\ Cycle' = Cycle
  BY LostIs, LoopConstants, NextIsSoon DEF Cycle
<1>2. /\ lost \in Nat /\ lost >= Lost /\ next \in Int /\ idle \in Int
      /\ watchedSince # None => next <= NextWatched + (lost - Lost)
      /\ idle <= NextIdle + (lost - Lost)
  OBVIOUS
<1>3. next = NextWatched' /\ idle = NextIdle' /\ lost = Lost'
  OBVIOUS
<1>4. NextIsNear'
  <2>1. watchedSince # None => Later(watchedSince, seenAt) \in Int
    BY DEF Later
  <2>2. Later(0, seenAt) \in Int
    BY DEF Later
  <2>3. /\ Later(watchedSince, seenAt)' = Later(watchedSince, seenAt)
        /\ Later(0, seenAt)' = Later(0, seenAt) /\ watchedSince' = watchedSince
    BY DEF Later
  <2>4. /\ watchedSince # None => NextWatched <= Later(watchedSince, seenAt) + Cycle + Lost
        /\ NextIdle <= Later(0, seenAt) + Idle + Cycle + Lost
    BY DEF NextIsNear
  <2>5. watchedSince # None => next <= Later(watchedSince, seenAt) + Cycle + lost
    BY ONLY <1>1, <1>2, <2>1, <2>4
  <2>6. idle <= Later(0, seenAt) + Idle + Cycle + lost
    BY ONLY <1>1, <1>2, <2>2, <2>4
  <2>7. QED BY ONLY <1>1, <1>3, <2>3, <2>5, <2>6 DEF NextIsNear
<1>5. ASSUME StallCountsUp PROVE StallCountsUp'
  <2>1. SUFFICES ASSUME frozenAt # None, watchedSince # None PROVE StallCountsUp'
    BY DEF StallCountsUp
  <2> DEFINE F == StallBegun
             R == ReadSince(StallBegun)
  <2>2. F \in Int /\ (zeroSince # None => zeroSince \in Nat)
    BY <2>1 DEF StallBegun, Later
  <2>3. StallBegun' = F /\ (ReadSince(StallBegun))' = R
    BY DEF StallBegun, Later, ReadSince
  <2>4. next <= NextWatched + (lost - Lost)
    BY <1>2, <2>1
  <2>5. UNCHANGED <<frozenAt, watchedSince, zeroSince, condition>>
    OBVIOUS
  <2>6. /\ ~R => NextWatched <= F + Cycle + Lost
        /\ R /\ ~ScrapedFrozen => NextWatched <= F + 2 * Cycle + Lost
        /\ R /\ ScrapedFrozen /\ zeroSince = None => NextWatched <= F + 3 * Cycle + Lost
        /\ R /\ zeroSince # None
             => /\ zeroSince <= F + 3 * Cycle + Lost
                /\ condition # "stalled" => NextWatched < F + StallTime + 4 * Cycle + Lost
    BY <1>5, <2>1 DEF StallCountsUp
  <2> HIDE DEF F, R
  <2>7. /\ ~R => next <= F + Cycle + lost
        /\ R /\ ~ScrapedFrozen => next <= F + 2 * Cycle + lost
        /\ R /\ zeroSince = None => next <= F + 3 * Cycle + lost
    BY ONLY <1>1, <1>2, <2>2, <2>4, <2>6
  <2>8. R /\ zeroSince # None
         => /\ zeroSince <= F + 3 * Cycle + lost
            /\ condition # "stalled" => next < F + StallTime + 4 * Cycle + lost
    BY ONLY <1>1, <1>2, <2>2, <2>4, <2>6
  <2>9. ~ScrapedFrozen' => ~ScrapedFrozen
    BY <2>1
  <2>10. QED BY ONLY <1>1, <1>3, <2>3, <2>5, <2>7, <2>8, <2>9 DEF StallCountsUp
<1>6. QED BY <1>4, <1>5

\* A step of the viewers, of the consumer or of the clock keeps every deadline: who starts to
\* watch now is a cycle away from the next reading (has_viewers, _wait_for_next_cycle).
LEMMA WatchersCome ==
  ASSUME FreshInv, UNCHANGED <<phase, due, waited, scrapedAt, fails, queueVars>>,
         watchedSince' \in {watchedSince, None, now},
         frozenAt' = frozenAt \/ (frozenAt = None /\ frozenAt' = now)
  PROVE  NextIsNear' /\ (StallCountsUp => StallCountsUp')
<1> USE DEF FreshInv, LoopTypes, Sooner, queueVars
<1>1. Lost \in Nat /\ NextWatched \in Int /\ NextIdle \in Int /\ Cycle \in Nat
      /\ Idle \in Nat /\ StallTime \in Nat \ {0} /\ 0 # None /\ Cycle' = Cycle
      /\ NextWatched <= now + Cycle + Lost
  BY LostIs, LoopConstants, NextIsSoon DEF Cycle
<1>2. NextWatched' = NextWatched /\ NextIdle' = NextIdle /\ Lost' = Lost
  BY DEF NextWatched, NextIdle, Lost
<1>3. NextIsNear'
  <2>1. watchedSince' = now =>
          Later(watchedSince, seenAt)' >= now /\ Later(watchedSince, seenAt)' \in Int
    BY DEF Later
  <2>2. watchedSince' = watchedSince =>
          Later(watchedSince, seenAt)' = Later(watchedSince, seenAt)
    BY DEF Later
  <2>3. Later(0, seenAt)' = Later(0, seenAt)
    BY DEF Later
  <2> HIDE DEF LoopTypes, Sooner
  <2>4. now \in Nat
    BY DEF LoopTypes
  <2>5. QED BY <1>1, <1>2, <2>1, <2>2, <2>3, <2>4 DEF NextIsNear
<1>4. ASSUME StallCountsUp PROVE StallCountsUp'
  <2>1. SUFFICES ASSUME frozenAt' # None, watchedSince' # None PROVE StallCountsUp'
    BY DEF StallCountsUp
  <2>2. CASE frozenAt' = frozenAt /\ watchedSince' = watchedSince
    <3>1. StallBegun' = StallBegun /\ (ReadSince(StallBegun))' = ReadSince(StallBegun)
          /\ ScrapedFrozen' = ScrapedFrozen
      BY <2>2 DEF StallBegun, Later, ReadSince, ScrapedFrozen
    <3>2. QED BY <1>2, <1>4, <2>1, <2>2, <3>1 DEF StallCountsUp
  <2>3. CASE frozenAt' = now \/ watchedSince' = now
    <3>1. StallBegun' = now
      BY <2>1, <2>3, LoopConstants DEF StallBegun, Later
    <3>2. zeroSince' # None => zeroSince' \in Nat /\ zeroSince' <= now
      OBVIOUS
    <3>3. now \in Nat
      OBVIOUS
    <3> HIDE DEF LoopTypes, Sooner
    <3>4. QED BY <1>1, <1>2, <3>1, <3>2, <3>3 DEF StallCountsUp
  <2>4. QED BY <2>1, <2>2, <2>3
<1>5. QED BY <1>3, <1>4

-----------------------------------------------------------------------------
(* The actions *)

\* What a reading does to the registers of the rules: a zero rate begins a run, or continues it
\* unless the gap was too long, and a run of STALL_SECONDS is a stall (Observe).
LEMMA CollectionEnds ==
  ASSUME FreshInv, CollectEnds
  PROVE  /\ phase = "collecting" /\ phase' = "casting" /\ due' = now + MaxCast
         /\ UNCHANGED <<now, waited, frozenAt, fails, viewVars>>
         /\ counted' = TRUE /\ seenAt' = now
         /\ scrapedAt' \in Nat /\ scrapedAt' <= now /\ scrapedAt' >= due - MaxCollect
         /\ zeroSince' # None => ScrapedFrozen /\ frozenAt # None
         /\ ScrapedFrozen /\ frozenAt # None =>
              zeroSince' = IF zeroSince = None \/ (seenAt # None /\ now - seenAt > GapTime)
                           THEN now ELSE zeroSince
         /\ condition' # "stalled" /\ zeroSince' # None => ~(now - zeroSince' >= StallTime)
<1> USE DEF FreshInv, LoopTypes, Sooner, InPhase
<1>1. /\ phase = "collecting" /\ phase' = "casting" /\ due' = now + MaxCast
      /\ UNCHANGED <<now, waited, frozenAt, fails, viewVars>> /\ due < now + MaxCollect
      /\ scrapedAt' \in (due - MaxCollect)..now
  BY LoopConstants DEF CollectEnds, Collecting, ScrapeTimes
<1>2. scrapedAt' \in Nat /\ scrapedAt' <= now /\ scrapedAt' >= due - MaxCollect
  <2>1. \A t \in (due - MaxCollect)..now : t \in Nat /\ t <= now /\ t >= due - MaxCollect
    BY <1>1, LoopConstants
  <2>2. QED BY <1>1, <2>1
<1>3. /\ Reading.scraped = TRUE /\ Reading.present = TRUE /\ Reading.backlog = TRUE
      /\ Reading.consumed = TRUE
      /\ Reading.acks = "zero" <=> counted /\ frozenAt # None /\ frozenAt <= scrapedAt
  BY DEF Reading, Scrape
<1>4. Assess(Reading, now) /\ counted' = Counted(Reading)
  BY <1>3, Zenon DEF CollectEnds, Observe
<1>5. counted' = TRUE
  BY <1>3, <1>4 DEF Counted
<1>6. seenAt' = now /\ zeroSince' = ZeroSince(Reading, now)
  BY <1>4 DEF Assess
<1>7. Reading.acks = "zero" <=> ScrapedFrozen /\ frozenAt # None
  <2>1. ScrapedFrozen /\ frozenAt # None <=> counted /\ frozenAt # None /\ frozenAt <= scrapedAt
    BY LoopConstants DEF ZeroWhenFrozen, ScrapedFrozen
  <2>2. QED BY <1>3, <2>1
<1>8. zeroSince' # None => ScrapedFrozen /\ frozenAt # None
  BY <1>3, <1>6, <1>7 DEF ZeroSince
<1>9. ScrapedFrozen /\ frozenAt # None =>
        zeroSince' = IF zeroSince = None \/ (seenAt # None /\ now - seenAt > GapTime)
                     THEN now ELSE zeroSince
  BY <1>3, <1>6, <1>7 DEF ZeroSince
<1>10. condition' # "stalled" /\ zeroSince' # None => ~(now - zeroSince' >= StallTime)
  <2>1. SUFFICES ASSUME zeroSince' # None, now - zeroSince' >= StallTime
                 PROVE  condition' = "stalled"
    OBVIOUS
  <2>2. \E awaited : condition' = ConditionOf(Reading, now - zeroSince', awaited)
    BY <1>4, <2>1 DEF Assess
  <2>3. QED BY <1>3, <2>1, <2>2 DEF ConditionOf
<1>11. QED BY <1>1, <1>2, <1>5, <1>6, <1>8, <1>9, <1>10

\* A reading keeps the invariant, and moves a stall one stage on: with gaps between readings
\* within GAP_SECONDS, no run of zero rates starts afresh (collect_metrics_loop).
LEMMA CollectEndsKeeps ==
  ASSUME FreshInv, CollectEnds
  PROVE  FreshInv' /\ (Cycle + Setbacks <= GapTime /\ StallCountsUp => StallCountsUp')
<1> USE DEF FreshInv, LoopTypes, Sooner, InPhase
<1> DEFINE t == scrapedAt'
<1>1. /\ phase = "collecting" /\ phase' = "casting" /\ due' = now + MaxCast
      /\ UNCHANGED <<now, waited, frozenAt, fails, open, readAt, watchedSince>>
      /\ counted' = TRUE /\ seenAt' = now /\ t \in Nat /\ t <= now /\ t >= due - MaxCollect
  BY CollectionEnds DEF viewVars
<1>2. /\ zeroSince' # None => ScrapedFrozen /\ frozenAt # None
      /\ ScrapedFrozen /\ frozenAt # None =>
           zeroSince' = IF zeroSince = None \/ (seenAt # None /\ now - seenAt > GapTime)
                        THEN now ELSE zeroSince
      /\ condition' # "stalled" /\ zeroSince' # None => ~(now - zeroSince' >= StallTime)
  BY CollectionEnds
<1>3. Lost' = Lost /\ Lost \in Nat /\ Lost <= Setbacks /\ Setbacks \in Nat
  BY <1>1, LostIs
<1>4. NextWatched' = now + Cycle /\ NextIdle' = now + Idle + Cycle
  <2>1. NextWatched' = now + MaxCast + Active + MaxCollect
        /\ NextIdle' = now + MaxCast + Active + Idle + MaxCollect
    BY <1>1 DEF NextWatched, NextIdle
  <2>2. QED BY <2>1, LoopConstants
<1>5. scrapedAt # None => scrapedAt <= t
  BY <1>1, LoopConstants
<1>6. zeroSince' # None => zeroSince' \in Nat /\ zeroSince' <= now
  BY <1>1, <1>2
<1>7. LoopTypes'
  BY <1>1, <1>6, LoopConstants
<1>8. InPhase' /\ WatchedWhile'
  BY <1>1, LoopConstants DEF WatchedWhile, HasViewers
<1>9. ZeroWhenFrozen'
  BY <1>1, <1>2, <1>5, LoopConstants DEF ZeroWhenFrozen, ScrapedFrozen
<1>10. NextIsNear'
  <2>1. /\ watchedSince' # None => Later(watchedSince, seenAt)' = now
        /\ Later(0, seenAt)' = now
    BY <1>1, LoopConstants DEF Later
  <2>2. Cycle' = Cycle
    BY DEF Cycle
  <2>3. now + Cycle <= now + Cycle + Lost /\ now + Idle + Cycle <= now + Idle + Cycle + Lost
    BY <1>3, LoopConstants
  <2>4. QED BY ONLY <1>3, <1>4, <2>1, <2>2, <2>3 DEF NextIsNear
<1>11. ASSUME Cycle + Setbacks <= GapTime, StallCountsUp PROVE StallCountsUp'
  <2>1. SUFFICES ASSUME frozenAt # None, watchedSince # None PROVE StallCountsUp'
    BY <1>1 DEF StallCountsUp
  <2> DEFINE F == StallBegun
  <2>2. F \in Nat /\ F <= now /\ F >= frozenAt /\ F >= watchedSince
    BY <2>1 DEF StallBegun, Later
  <2>3. StallBegun' = F
    BY <1>1 DEF StallBegun, Later
  <2> DEFINE r == ReadSince(F)
             z == zeroSince'
  <2>4. now <= NextWatched
    BY NextIsSoon
  <2>5. /\ ~r => NextWatched <= F + Cycle + Lost
        /\ r /\ ~ScrapedFrozen => NextWatched <= F + 2 * Cycle + Lost
        /\ r /\ ScrapedFrozen /\ zeroSince = None => NextWatched <= F + 3 * Cycle + Lost
        /\ r /\ zeroSince # None => zeroSince <= F + 3 * Cycle + Lost
    BY <1>11, <2>1 DEF StallCountsUp
  <2>6. r => t >= frozenAt /\ seenAt # None /\ seenAt \in Nat
    <3>1. SUFFICES ASSUME r PROVE t >= frozenAt /\ seenAt # None /\ seenAt \in Nat
      OBVIOUS
    <3>2. seenAt # None /\ seenAt \in Nat /\ seenAt <= due - MaxCollect /\ seenAt >= F
      BY <1>1, <3>1 DEF ReadSince
    <3>3. frozenAt \in Nat
      BY <2>1
    <3>4. QED BY <1>1, <2>2, <3>2, <3>3, LoopConstants
  <2>7. r => now - seenAt <= GapTime
    <3>1. SUFFICES ASSUME r PROVE now - seenAt <= GapTime
      OBVIOUS
    <3>2. seenAt # None /\ seenAt \in Nat /\ seenAt >= F
      BY <2>6, <3>1 DEF ReadSince
    <3>3. Later(watchedSince, seenAt) = seenAt
      <4>1. watchedSince \in Nat /\ ~(watchedSince > seenAt)
        BY <2>1, <2>2, <3>2
      <4>2. QED BY <3>2, <4>1 DEF Later
    <3>4. NextWatched <= seenAt + Cycle + Lost
      BY <2>1, <3>3 DEF NextIsNear
    <3>5. NextWatched \in Int
      BY NextIsSoon
    <3>6. QED BY <1>3, <1>11, <2>4, <3>2, <3>4, <3>5, LoopConstants
  <2>8. /\ ScrapedFrozen => z # None /\ (z = now \/ (zeroSince # None /\ z = zeroSince))
        /\ r /\ ScrapedFrozen /\ zeroSince # None => z = zeroSince
        /\ z # None => ScrapedFrozen /\ z \in Nat /\ z <= now
        /\ condition' # "stalled" /\ z # None => ~(now - z >= StallTime)
    <3>1. now # None
      BY LoopConstants
    <3>2. r /\ seenAt # None => ~(now - seenAt > GapTime)
      BY <2>6, <2>7, LoopConstants
    <3>3. QED BY <1>2, <1>6, <2>1, <2>6, <3>1, <3>2
  <2>9. /\ now \in Nat /\ NextWatched \in Int /\ t \in Nat
        /\ (zeroSince # None => zeroSince \in Nat)
    BY <1>1, NextIsSoon
  <2> HIDE DEF F, r, z, t
  <2>10. ~(t >= frozenAt) => now + Cycle <= F + 2 * Cycle + Lost
    BY ONLY <1>3, <2>2, <2>4, <2>5, <2>6, <2>9, LoopConstants
  <2>11. z = None => now + Cycle <= F + 3 * Cycle + Lost
    BY ONLY <1>3, <2>2, <2>4, <2>5, <2>8, <2>9, LoopConstants
  <2>12. z # None => z <= F + 3 * Cycle + Lost
    BY ONLY <1>3, <2>2, <2>4, <2>5, <2>8, <2>9, LoopConstants
  <2>13. z # None /\ condition' # "stalled" => now + Cycle < F + StallTime + 4 * Cycle + Lost
    BY ONLY <1>3, <2>2, <2>8, <2>9, <2>12, LoopConstants
  <2>14. /\ frozenAt' = frozenAt /\ ReadSince(StallBegun)' /\ Cycle' = Cycle
         /\ ~ScrapedFrozen' => ~(t >= frozenAt)
    BY <1>1, <2>2, <2>3, LoopConstants DEF ReadSince, ScrapedFrozen, Cycle, t
  <2>15. QED
    BY ONLY <1>3, <1>4, <2>3, <2>10, <2>11, <2>12, <2>13, <2>14 DEF StallCountsUp, z
<1>12. QED BY <1>7, <1>8, <1>9, <1>10, <1>11

\* A collection that raised keeps the invariant: its retry is paid for by Lost.
LEMMA CollectFailsKeeps ==
  ASSUME FreshInv, CollectFails PROVE FreshInv' /\ (StallCountsUp => StallCountsUp')
<1> USE DEF FreshInv, LoopTypes, Sooner, InPhase
<1>1. /\ phase = "collecting" /\ fails < MaxFails /\ phase' = "resting" /\ due' = now + Retry
      /\ fails' = fails + 1
      /\ UNCHANGED <<waited, now, frozenAt, open, readAt, watchedSince>>
      /\ UNCHANGED <<seenAt, zeroSince, condition>>
      /\ UNCHANGED viewVars
  BY DEF CollectFails, Collecting, Rest, viewVars
<1>2. \/ UNCHANGED <<scrapedAt, counted>>
      \/ /\ counted' = TRUE
         /\ scrapedAt' \in Nat /\ scrapedAt' <= now /\ scrapedAt' >= due - MaxCollect
  <2>1. \A t \in (due - MaxCollect)..now : t \in Nat /\ t <= now /\ t >= due - MaxCollect
    BY <1>1, LoopConstants
  <2>2. QED BY <2>1 DEF CollectFails, ScrapeTimes
<1>3. scrapedAt # None => scrapedAt' # None /\ scrapedAt <= scrapedAt'
  BY <1>1, <1>2, LoopConstants
<1>4. LoopTypes'
  <2>1. /\ fails + 1 \in 0..MaxFails
        /\ now + Retry \in Nat /\ now <= now + Retry
    BY <1>1, LoopConstants
  <2>2. Sooner(scrapedAt)' /\ counted' \in BOOLEAN
    BY <1>1, <1>2
  <2>3. QED BY <1>1, <2>1, <2>2
<1>5. InPhase' /\ WatchedWhile'
  BY <1>1, LoopConstants DEF WatchedWhile, HasViewers
<1>6. ZeroWhenFrozen'
  BY <1>1, <1>2, <1>3, LoopConstants DEF ZeroWhenFrozen
<1>7. ScrapedFrozen /\ frozenAt # None => ScrapedFrozen'
  BY <1>1, <1>2, <1>3, LoopConstants DEF ScrapedFrozen
<1>8. PICK next \in Int : /\ next = NextWatched' /\ next = NextIdle'
                           /\ next = now + Retry + MaxCollect
  <2>1. now + Retry + MaxCollect \in Int
    BY LoopConstants
  <2>2. NextWatched' = now + Retry + MaxCollect /\ NextIdle' = now + Retry + MaxCollect
    BY <1>1 DEF NextWatched, NextIdle
  <2>3. QED BY <2>1, <2>2
<1>9. PICK lost \in Nat : lost = Lost' /\ lost = Lost + Retry + MaxCollect
  BY <1>1, LostIs, LoopConstants
<1>10. Lost \in Nat /\ NextWatched = due /\ NextIdle = due
  BY <1>1, LostIs DEF NextWatched, NextIdle
<1>11. lost >= Lost /\ next <= NextWatched + (lost - Lost) /\ next <= NextIdle + (lost - Lost)
  BY <1>8, <1>9, <1>10, LoopConstants
<1>12. QED
  BY <1>1, <1>4, <1>5, <1>6, <1>7, <1>8, <1>9, <1>11, LoopGoesOn

\* The end of a broadcast, or its failure, keeps the invariant.
LEMMA CastKeeps ==
  ASSUME FreshInv, CastEnds \/ CastFails PROVE FreshInv' /\ (StallCountsUp => StallCountsUp')
<1> USE DEF FreshInv, LoopTypes, Sooner, InPhase
<1>1. /\ phase = "casting" /\ UNCHANGED <<now, scrapedAt, frozenAt, queueVars, viewVars>>
      /\ UNCHANGED <<seenAt, zeroSince, condition, counted, open, readAt, watchedSince>>
  BY DEF CastEnds, CastFails, viewVars, queueVars
<1>2. /\ CastEnds => phase' = "waiting" /\ due' = now + Active /\ waited' = 0 /\ fails' = fails
      /\ CastFails => /\ phase' = "resting" /\ due' = now + Retry /\ waited' = waited
                      /\ fails' = fails + 1 /\ fails < MaxFails
  BY DEF CastEnds, CastFails, Rest
<1>3. LoopTypes'
  BY <1>1, <1>2, LoopConstants
<1>4. InPhase' /\ WatchedWhile' /\ ZeroWhenFrozen'
  BY <1>1, <1>2, LoopConstants DEF WatchedWhile, HasViewers, ZeroWhenFrozen
<1>5. ScrapedFrozen => ScrapedFrozen'
  BY <1>1 DEF ScrapedFrozen
<1>6. Lost \in Nat /\ NextWatched = due + Active + MaxCollect
      /\ NextIdle = due + Active + Idle + MaxCollect
  BY <1>1, LostIs DEF NextWatched, NextIdle
<1>7. CASE CastEnds
  <2>1. PICK next \in Int, idle \in Int :
          /\ next = NextWatched' /\ next = now + Active + MaxCollect
          /\ idle = NextIdle' /\ idle = now + Active + Idle + MaxCollect
    <3>1. now + Active + MaxCollect \in Int /\ now + Active + Idle + MaxCollect \in Int
      BY LoopConstants
    <3>2. /\ NextWatched' = now + Active + MaxCollect
          /\ NextIdle' = (now + Active) - 0 + Idle + MaxCollect
      BY <1>2, <1>7 DEF NextWatched, NextIdle
    <3>3. (now + Active) - 0 = now + Active
      BY LoopConstants
    <3>4. QED BY <3>1, <3>2, <3>3
  <2>2. PICK lost \in Nat : lost = Lost' /\ lost = Lost
    BY <1>2, <1>6, <1>7, LostIs
  <2>3. lost >= Lost /\ next <= NextWatched + (lost - Lost) /\ idle <= NextIdle + (lost - Lost)
    BY <1>6, <2>1, <2>2, LoopConstants
  <2>4. QED BY <1>1, <1>3, <1>4, <1>5, <2>1, <2>2, <2>3, LoopGoesOn
<1>8. CASE CastFails
  <2>1. PICK next \in Int : /\ next = NextWatched' /\ next = NextIdle'
                           /\ next = now + Retry + MaxCollect
    <3>1. now + Retry + MaxCollect \in Int
      BY LoopConstants
    <3>2. NextWatched' = now + Retry + MaxCollect /\ NextIdle' = now + Retry + MaxCollect
      BY <1>2, <1>8 DEF NextWatched, NextIdle
    <3>3. QED BY <3>1, <3>2
  <2>2. PICK lost \in Nat : lost = Lost' /\ lost = Lost + Retry + MaxCollect
    BY <1>2, <1>8, LostIs, LoopConstants
  <2>3. lost >= Lost /\ next <= NextWatched + (lost - Lost) /\ next <= NextIdle + (lost - Lost)
    BY <1>6, <2>1, <2>2, LoopConstants
  <2>4. QED BY <1>1, <1>3, <1>4, <1>5, <2>1, <2>2, <2>3, LoopGoesOn
<1>9. QED BY <1>7, <1>8

\* A tick of the wait that goes on, or ends, keeps the invariant: it goes on only with nobody
\* watching and short of the idle interval (_wait_for_next_cycle).
LEMMA WaitKeeps ==
  ASSUME FreshInv, Wake \/ Resume PROVE FreshInv' /\ (StallCountsUp => StallCountsUp')
<1> USE DEF FreshInv, LoopTypes, Sooner, InPhase
<1>1. /\ UNCHANGED <<now, scrapedAt, frozenAt, fails, viewVars, queueVars>> /\ now = due
      /\ UNCHANGED <<seenAt, zeroSince, condition, counted, open, readAt, watchedSince>>
  BY DEF Wake, WakeIf, Resume, viewVars, queueVars
<1>2. \/ /\ phase \in {"waiting", "resting"} /\ phase' = "collecting"
         /\ due' = now + MaxCollect /\ waited' = 0
      \/ /\ phase = "waiting" /\ phase' = "waiting" /\ due' = now + Active
         /\ waited' = waited + Active /\ ~(waited + Active >= Idle) /\ watchedSince = None
  BY DEF Wake, WakeIf, Resume, BeginCollect, WatchedWhile
<1>3. LoopTypes'
  BY <1>1, <1>2, LoopConstants
<1>4. InPhase' /\ WatchedWhile' /\ ZeroWhenFrozen'
  <2>1. (now + MaxCollect) - MaxCollect = now
    BY LoopConstants
  <2>2. InPhase'
    BY <1>1, <1>2, <2>1, LoopConstants
  <2>3. QED BY <1>1, <2>2 DEF WatchedWhile, HasViewers, ZeroWhenFrozen
<1>5. ScrapedFrozen => ScrapedFrozen'
  BY <1>1 DEF ScrapedFrozen
<1>6. PICK lost \in Nat : lost = Lost' /\ lost = Lost
  BY <1>1, LostIs
<1>7. NextWatched \in Int /\ NextIdle \in Int
  BY NextIsSoon
<1>8. PICK next \in Int, idle \in Int :
        /\ next = NextWatched' /\ idle = NextIdle' /\ idle <= NextIdle
        /\ watchedSince # None => next <= NextWatched
  <2>1. CASE phase' = "collecting"
    <3>1. NextWatched' = now + MaxCollect /\ NextIdle' = now + MaxCollect
      BY <1>2, <2>1 DEF NextWatched, NextIdle
    <3>2. /\ now + MaxCollect \in Int
          /\ now + MaxCollect <= NextIdle /\ now + MaxCollect <= NextWatched
      BY <1>1, <1>2, <2>1, LoopConstants DEF NextWatched, NextIdle
    <3>3. QED BY <3>1, <3>2
  <2>2. CASE phase' = "waiting"
    <3>1. /\ phase = "waiting" /\ phase' = "waiting" /\ due' = now + Active
          /\ waited' = waited + Active /\ watchedSince = None
      BY <1>2, <2>2
    <3>2. /\ NextWatched' = (now + Active) + MaxCollect
          /\ NextIdle' = (now + Active) - (waited + Active) + Idle + MaxCollect
      BY <3>1 DEF NextWatched, NextIdle
    <3>3. NextIdle = due - waited + Idle + MaxCollect
      BY <3>1 DEF NextIdle
    <3>4. /\ (now + Active) + MaxCollect \in Int
          /\ (now + Active) - (waited + Active) + Idle + MaxCollect = NextIdle
      BY <1>1, <3>3, LoopConstants
    <3>5. QED BY <1>7, <3>1, <3>2, <3>4
  <2>3. QED BY <1>2, <2>1, <2>2
<1>9. /\ lost >= Lost /\ idle <= NextIdle + (lost - Lost)
      /\ watchedSince # None => next <= NextWatched + (lost - Lost)
  BY <1>6, <1>7, <1>8
<1>10. QED BY <1>1, <1>3, <1>4, <1>5, <1>6, <1>8, <1>9, LoopGoesOn

\* The steps of the viewers, of the consumer and of the clock keep the invariant.
LEMMA ViewersKeep ==
  ASSUME FreshInv, ViewerOpens \/ ViewerLeaves \/ SnapshotRead \/ Freeze \/ Tick
  PROVE  FreshInv' /\ (StallCountsUp => StallCountsUp')
<1> USE DEF FreshInv, LoopTypes, Sooner, InPhase
<1>1. /\ UNCHANGED <<phase, due, waited, scrapedAt, fails, queueVars>>
      /\ UNCHANGED <<seenAt, zeroSince, condition, counted>>
  BY DEF ViewerOpens, ViewerLeaves, SnapshotRead, Freeze, Tick, viewVars, queueVars
<1>2. /\ now' \in Nat /\ now <= now' /\ now' <= due
      /\ frozenAt' = frozenAt \/ (frozenAt = None /\ frozenAt' = now)
      /\ open' \in BOOLEAN /\ (readAt' # None => readAt' \in Nat /\ readAt' <= now')
  <2>1. now' = now \/ (now' = now + 1 /\ now < due)
    BY DEF ViewerOpens, ViewerLeaves, SnapshotRead, Freeze, Tick
  <2>2. now' \in Nat /\ now <= now' /\ now' <= due
    BY <2>1
  <2>3. frozenAt' = frozenAt \/ (frozenAt = None /\ frozenAt' = now)
    BY DEF ViewerOpens, ViewerLeaves, SnapshotRead, Freeze, Tick
  <2>4. open' \in BOOLEAN
    BY DEF ViewerOpens, ViewerLeaves, SnapshotRead, Freeze, Tick, viewVars
  <2>5. readAt' = readAt \/ readAt' = now
    BY DEF ViewerOpens, ViewerLeaves, SnapshotRead, Freeze, Tick, viewVars
  <2>6. QED BY <2>2, <2>3, <2>4, <2>5
<1>3. watchedSince' \in {watchedSince, None, now} /\ WatchedWhile'
  <2>1. CASE Freeze
    BY <2>1 DEF Freeze, viewVars, WatchedWhile, HasViewers
  <2>2. CASE Tick
    BY <2>2, LoopConstants DEF Tick, Watch, WatchedWhile, HasViewers
  <2>3. CASE ViewerOpens \/ ViewerLeaves \/ SnapshotRead
    BY <2>3, LoopConstants
       DEF ViewerOpens, ViewerLeaves, SnapshotRead, Watch, WatchedWhile, HasViewers
  <2>4. QED BY <2>1, <2>2, <2>3
<1>4. LoopTypes'
  BY <1>1, <1>2, <1>3, LoopConstants
<1>5. InPhase'
  <2>1. \A a, b, d, x \in Nat : a <= b /\ d <= a + x => d <= b + x
    OBVIOUS
  <2>2. now \in Nat /\ now' \in Nat /\ due \in Nat /\ now <= now'
    BY <1>2
  <2>3. /\ due <= now + MaxCollect => due <= now' + MaxCollect
        /\ due <= now + MaxCast => due <= now' + MaxCast
        /\ due <= now + Active => due <= now' + Active
        /\ due <= now + Retry => due <= now' + Retry
    BY ONLY <2>1, <2>2, LoopConstants
  <2>4. InPhase
    OBVIOUS
  <2>5. QED BY ONLY <1>1, <2>3, <2>4 DEF InPhase
<1>6. ZeroWhenFrozen'
  BY <1>1, <1>2 DEF ZeroWhenFrozen
<1>7. QED BY <1>1, <1>2, <1>3, <1>4, <1>5, <1>6, WatchersCome

-----------------------------------------------------------------------------
(* The induction *)

\* The first state satisfies the invariant.
LEMMA LoopInvInit == LoopInit => FreshInv /\ StallCountsUp
<1> SUFFICES ASSUME LoopInit PROVE FreshInv /\ StallCountsUp
  OBVIOUS
<1>1. /\ seenAt = None /\ zeroSince = None /\ counted = FALSE
      /\ now = 0 /\ phase = "collecting" /\ due = MaxCollect /\ waited = 0
      /\ open = FALSE /\ readAt = None /\ watchedSince = None
      /\ scrapedAt = None /\ frozenAt = None /\ fails = 0
  BY DEF LoopInit, QueueInit
<1>2. LoopTypes
  <2>1. 0 \in 0..MaxFails /\ 0 \in Nat /\ 0 <= MaxCollect /\ 0 < Idle
        /\ MaxCollect \in Nat
    BY LoopConstants
  <2>2. QED BY <1>1, <2>1 DEF LoopTypes, Sooner
<1>3. InPhase
  <2>1. MaxCollect \in Nat /\ MaxCollect <= 0 + MaxCollect
    BY LoopConstants
  <2>2. QED BY <1>1, <2>1 DEF InPhase
<1>4. WatchedWhile /\ ZeroWhenFrozen
  BY <1>1 DEF WatchedWhile, HasViewers, ZeroWhenFrozen
<1>5. NextIsNear
  <2>1. NextIdle = MaxCollect /\ Later(0, seenAt) = 0
    BY <1>1 DEF NextIdle, Later
  <2>2. Lost \in Nat
    BY <1>2, LostIs DEF LoopTypes
  <2>3. QED BY <1>1, <2>1, <2>2, LoopConstants DEF NextIsNear
<1>6. StallCountsUp
  BY <1>1 DEF StallCountsUp
<1>7. QED BY <1>2, <1>3, <1>4, <1>5, <1>6 DEF FreshInv

\* Every step keeps the invariant of the cadence; the stages of a stall also need the gap limit
\* to be no less than the longest time between two watched readings.
LEMMA LoopInvStep ==
  ASSUME FreshInv, [LoopNext]_loopVars
  PROVE  FreshInv' /\ (Cycle + Setbacks <= GapTime /\ StallCountsUp => StallCountsUp')
<1>1. CASE UNCHANGED loopVars
  <2>1. /\ UNCHANGED <<now, phase, due, waited, open, readAt, watchedSince, fails>>
        /\ UNCHANGED <<scrapedAt, frozenAt, seenAt, zeroSince, counted, condition>>
    BY <1>1 DEF loopVars, queueVars
  <2>2. FreshInv'
    BY <2>1 DEF FreshInv, LoopTypes, Sooner, InPhase, WatchedWhile, HasViewers, ZeroWhenFrozen,
                NextIsNear, NextWatched, NextIdle, Later, Lost, Cycle
  <2>3. StallCountsUp => StallCountsUp'
    BY <2>1 DEF StallCountsUp, StallBegun, ReadSince, ScrapedFrozen, NextWatched, Later,
                Lost, Cycle
  <2>4. QED BY <2>2, <2>3
<1>2. QED
  BY <1>1, CollectEndsKeeps, CollectFailsKeeps, CastKeeps, WaitKeeps, ViewersKeep DEF LoopNext

\* The invariant of the cadence bounds the age of the reading shown.
LEMMA FreshProved == FreshInv => ReadingsStayFresh
<1> SUFFICES ASSUME FreshInv PROVE ReadingsStayFresh
  OBVIOUS
<1> USE DEF FreshInv, LoopTypes, Sooner
<1>1. /\ now <= NextWatched /\ now <= NextIdle /\ NextWatched \in Int /\ NextIdle \in Int
      /\ Lost \in Nat /\ Lost <= Setbacks /\ Setbacks \in Nat
  BY NextIsSoon, LostIs
<1>2. /\ watchedSince # None => Later(watchedSince, seenAt) \in Int
      /\ Later(0, seenAt) \in Int
  BY DEF Later
<1>3. /\ watchedSince # None => NextWatched <= Later(watchedSince, seenAt) + Cycle + Lost
      /\ NextIdle <= Later(0, seenAt) + Idle + Cycle + Lost
  BY DEF NextIsNear
<1>4. now \in Nat
  OBVIOUS
<1>5. /\ watchedSince # None => now - Later(watchedSince, seenAt) <= Cycle + Setbacks
      /\ now - Later(0, seenAt) <= Idle + Cycle + Setbacks
  BY ONLY <1>1, <1>2, <1>3, <1>4, LoopConstants
<1>6. QED BY <1>5 DEF ReadingsStayFresh

\* Past the last deadline, the only stage left is a stall that was reported.
LEMMA StallProved == FreshInv /\ StallCountsUp => StallSeenWatched
<1> SUFFICES ASSUME FreshInv, StallCountsUp, frozenAt # None, watchedSince # None,
                    now - StallBegun >= StallTime + 4 * Cycle + Setbacks
             PROVE  condition = "stalled"
  BY DEF StallSeenWatched, StallBegun
<1>1. /\ now <= NextWatched /\ NextWatched \in Int /\ now \in Nat
      /\ Lost \in Nat /\ Lost <= Setbacks /\ Setbacks \in Nat
  BY NextIsSoon, LostIs DEF FreshInv, LoopTypes
<1>2. StallBegun \in Int
  BY DEF StallBegun, Later, FreshInv, LoopTypes, Sooner
<1>3. zeroSince # None => ScrapedFrozen
  BY DEF FreshInv, ZeroWhenFrozen, ScrapedFrozen, LoopTypes, Sooner
<1>4. SUFFICES ASSUME condition # "stalled" PROVE FALSE
  OBVIOUS
<1>5. \/ NextWatched <= StallBegun + Cycle + Lost
      \/ NextWatched <= StallBegun + 2 * Cycle + Lost
      \/ NextWatched <= StallBegun + 3 * Cycle + Lost
      \/ NextWatched < StallBegun + StallTime + 4 * Cycle + Lost
  BY <1>3, <1>4 DEF StallCountsUp
<1>6. now - StallBegun >= StallTime + 4 * Cycle + Setbacks
  OBVIOUS
<1>7. QED BY ONLY <1>1, <1>2, <1>5, <1>6, LoopConstants

-----------------------------------------------------------------------------
(* The theorems *)

\* While somebody watches, the reading shown is never older than an active cycle and what failed
\* cycles add, and with nobody watching never older than an idle interval besides, for every
\* setting of the intervals (collect_metrics_loop, _wait_for_next_cycle).
THEOREM ReadingsFresh == LoopSpec => []ReadingsStayFresh
<1>1. FreshInv /\ [LoopNext]_loopVars => FreshInv'
  BY LoopInvStep
<1>2. QED BY <1>1, LoopInvInit, FreshProved, PTL DEF LoopSpec

\* A watched stall that lasts is reported, for every setting of the intervals in which the
\* longest time between two watched readings is within GAP_SECONDS; beyond it, a reading may
\* start the run of zero rates afresh each time (collect_metrics_loop, EventDetector.observe).
THEOREM StallSeen ==
  ASSUME Cycle + Setbacks <= GapTime
  PROVE  LoopSpec => []StallSeenWatched
<1>1. FreshInv /\ StallCountsUp /\ [LoopNext]_loopVars => FreshInv' /\ StallCountsUp'
  BY LoopInvStep
<1>2. QED BY <1>1, LoopInvInit, StallProved, PTL DEF LoopSpec
=============================================================================
