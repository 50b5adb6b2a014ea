----------------------------- MODULE JobReading -----------------------------
(***************************************************************************)
(* The part of a collection that the console's own PostgreSQL connection   *)
(* answers (get_database_info, get_job_status and _embeddings_job in       *)
(* dashboard/dashboard.py): the reading of the databases, and the record   *)
(* of the last embeddings load, which is reused for JOB_CACHE_SECONDS.     *)
(* Both hold _db_info_lock while they await the database, and asyncio      *)
(* grants a lock in the order it is asked for.  Collections of the loop    *)
(* and of GET /api/metrics run side by side, as in RateTracker.            *)
(***************************************************************************)
EXTENDS Integers, Sequences

CONSTANTS
  Readers,        \* reads of /api/metrics that found no reading kept
  JobTime,        \* JOB_CACHE_SECONDS
  MaxLoads,       \* bound: the embeddings loads that complete
  MaxJobTime,     \* bound: the time
  MaxCollections  \* bound: the collections that end

LoopReader == "loop"  \* collect_metrics_loop

ASSUME JobAssumption == LoopReader \notin Readers /\ JobTime \in Nat \ {0}
                          /\ {MaxLoads, MaxJobTime, MaxCollections} \subseteq Nat

VARIABLES
  jobClock,    \* time.monotonic
  loads,       \* the load PostgreSQL has on record, 0 before any
  jobKept,     \* latest_metrics is there
  jobCache,    \* _job_cache: what was read, and the time it stands for
  lock,        \* _db_info_lock: its holder and those that wait, in order
  collection,  \* by who collects: what it has so far
  jobsShown    \* the jobs of the collections that ended, in order

jobVars == <<jobClock, loads, jobKept, jobCache, lock, collection, jobsShown>>
-----------------------------------------------------------------------------
Collectors == Readers \cup {LoopReader}
Unreadable == -1                       \* embeddings_unreadable
NotYet     == [load |-> -2, read |-> -1]
Idle       == [begun |-> -1, databases |-> FALSE, row |-> NotYet, job |-> NotYet]
NoCache    == [at |-> -1, job |-> NotYet]

Task(c, reads) == [who |-> c, reads |-> reads]

\* __init__
JobInit ==
  /\ jobClock = 0 /\ loads = 0 /\ jobKept = FALSE /\ jobCache = NoCache
  /\ lock = <<>> /\ collection = [c \in Collectors |-> Idle] /\ jobsShown = <<>>

\* Time passes; an embeddings load completes and is recorded.
JobTimePasses ==
  /\ jobClock < MaxJobTime /\ jobClock' = jobClock + 1
  /\ UNCHANGED <<loads, jobKept, jobCache, lock, collection, jobsShown>>
LoadRecorded ==
  /\ loads < MaxLoads /\ loads' = loads + 1
  /\ UNCHANGED <<jobClock, jobKept, jobCache, lock, collection, jobsShown>>

\* The cached record is young enough.
CacheServes == jobCache # NoCache /\ jobClock - jobCache.at < JobTime

\* collect_all_metrics: the databases are asked for before the jobs, and both want the lock.
BeginReading(c) ==
  /\ Len(jobsShown) < MaxCollections
  /\ collection[c] = Idle /\ (c \in Readers => ~jobKept)
  /\ lock' = lock \o <<Task(c, "databases")>>
                  \o IF CacheServes THEN <<>> ELSE <<Task(c, "job")>>
  /\ collection' = [collection EXCEPT ![c] =
       [Idle EXCEPT !.begun = jobClock, !.job = IF CacheServes THEN jobCache.job ELSE NotYet]]
  /\ UNCHANGED <<jobClock, loads, jobKept, jobCache, jobsShown>>

\* Mutant of Holds: nobody waits for the lock.
HoldsAny(task) == \E i \in DOMAIN lock : lock[i] = task
Holds(task) == lock # <<>> /\ lock[1] = task

\* Its place in the queue is given up, and those behind it move up.
Release(task) ==
  \E i \in DOMAIN lock :
    /\ lock[i] = task
    /\ lock' = [j \in 1..Len(lock) - 1 |-> lock[IF j < i THEN j ELSE j + 1]]

\* _get_database_info_locked: whatever fails becomes an unhealthy reading.
DatabasesRead(c) ==
  /\ Holds(Task(c, "databases"))
  /\ Release(Task(c, "databases"))
  /\ collection' = [collection EXCEPT ![c].databases = TRUE]
  /\ UNCHANGED <<jobClock, loads, jobKept, jobCache, jobsShown>>

\* PostgreSQL answers the query of _embeddings_job.
RowRead(c) ==
  /\ Holds(Task(c, "job")) /\ collection[c].row = NotYet
  /\ collection' = [collection EXCEPT ![c].row = [load |-> loads, read |-> jobClock]]
  /\ UNCHANGED <<jobClock, loads, jobKept, jobCache, lock, jobsShown>>

\* The time the cached record stands for.  Mutant: the time of the answer.
StampLate(c) == jobClock
Stamp(c) == collection[c].begun

\* The lock is given back and the outcome cached, a failure as well.
JobEnds(c, job) ==
  /\ Release(Task(c, "job"))
  /\ jobCache' = [at |-> Stamp(c), job |-> job]
  /\ collection' = [collection EXCEPT ![c].job = job]
  /\ UNCHANGED <<jobClock, loads, jobKept, jobsShown>>
JobRead(c) ==
  /\ Holds(Task(c, "job")) /\ collection[c].row # NotYet
  /\ JobEnds(c, collection[c].row)
JobFails(c) ==
  /\ Holds(Task(c, "job"))
  /\ JobEnds(c, [load |-> Unreadable, read |-> jobClock])

\* The reading is complete; the loop keeps its own.
ReadingEnds(c) ==
  /\ Len(jobsShown) < MaxCollections
  /\ collection[c].databases /\ collection[c].job # NotYet
  /\ jobsShown' = Append(jobsShown, [who |-> c, begun |-> collection[c].begun,
                                     job |-> collection[c].job])
  /\ collection' = [collection EXCEPT ![c] = Idle]
  /\ jobKept' = (jobKept \/ c = LoopReader)
  /\ UNCHANGED <<jobClock, loads, jobCache, lock>>

JobNext ==
  \/ JobTimePasses \/ LoadRecorded
  \/ \E c \in Collectors : \/ BeginReading(c) \/ DatabasesRead(c) \/ RowRead(c)
                           \/ JobRead(c) \/ JobFails(c) \/ ReadingEnds(c)
-----------------------------------------------------------------------------
(* Properties *)

JobTypeOK ==
  /\ jobClock \in 0..MaxJobTime /\ loads \in 0..MaxLoads /\ jobKept \in BOOLEAN
  /\ jobCache.at \in -1..jobClock
  /\ \A i, j \in DOMAIN lock : lock[i] = lock[j] => i = j
  /\ \A c \in Collectors : collection[c].begun \in -1..jobClock
                           /\ collection[c].job.load \in -2..MaxLoads

\* A job is shown as PostgreSQL had it, or as it failed to answer, less than JOB_CACHE_SECONDS
\* before the collection began or later, however long the lock and the query took; and from one
\* reading of the loop to the next a load on record never gives way to an earlier one, although
\* other collections fill the same cache (get_job_status, _embeddings_job under _db_info_lock).
JobsAreCurrent ==
  /\ \A i \in DOMAIN jobsShown :
       jobsShown[i].job.read > jobsShown[i].begun - JobTime
  /\ \A i, j \in DOMAIN jobsShown :
       /\ i < j /\ jobsShown[i].who = LoopReader /\ jobsShown[j].who = LoopReader
       /\ jobsShown[j].job.load # Unreadable
       => jobsShown[i].job.load <= jobsShown[j].job.load
=============================================================================
