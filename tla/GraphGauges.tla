---------------------------- MODULE GraphGauges ----------------------------
(***************************************************************************)
(* The gauges of the graph store (_Neo4jGaugeSource, register_neo4j_gauges *)
(* and reset_neo4j_gauges in dashboard/telemetry.py).  The metric reader   *)
(* runs the five callbacks of a collection on a thread of its own; the     *)
(* first that finds no young snapshot has the console's event loop read    *)
(* the store and waits for it within a budget.  Meanwhile the event loop   *)
(* may shut the console down, which detaches the gauges and closes the     *)
(* driver, and start it again.  A step is what a thread does without       *)
(* waiting for the other.                                                  *)
(***************************************************************************)
EXTENDS Integers, Sequences

CONSTANTS
  SnapshotTime,   \* _refresh_ttl_s: half an export interval, thirty seconds
  RefreshBudget,  \* NEO4J_REFRESH_BUDGET_S, ten
  MaxStarts,      \* bound: the starts of the console within one process
  MaxGaugeTime    \* bound: the time

\* As with the default export interval.  An interval below twice the budget breaks it.
ASSUME GaugeAssumption ==
  /\ RefreshBudget \in Nat \ {0} /\ SnapshotTime \in Nat /\ RefreshBudget < SnapshotTime
  /\ {MaxStarts, MaxGaugeTime} \subseteq Nat

VARIABLES
  gaugeClock,  \* the clock the snapshot's freshness is measured against
  starts,      \* the starts of the console, each with a driver and a source of its own
  source,      \* _neo4j_source, by the start that registered it
  phase,       \* of the console
  snapshot,    \* by source: _snapshot and _refreshed_at
  exporter,    \* the metric reader's thread: the callback it runs and on which source
  answer,      \* of the read the event loop runs for it
  observed     \* what the callbacks of this collection have observed

gaugeVars == <<gaugeClock, starts, source, phase, snapshot, exporter, answer, observed>>
-----------------------------------------------------------------------------
Callbacks == 5
NoSource  == 0
NotTaken  == [up |-> FALSE, of |-> NoSource, at |-> -1, refreshed |-> -1, seen |-> -1, closed |-> FALSE]
Resting   == [callback |-> 0, source |-> NoSource, began |-> -1, closed |-> FALSE]

\* The driver of a start is open until its shutdown closes it.
ClosedDriver(s) == s < starts \/ phase = "closed"

\* Before the first start.
GaugeInit ==
  /\ gaugeClock = 0 /\ starts = 0 /\ source = NoSource /\ phase = "closed"
  /\ snapshot = [s \in 1..MaxStarts |-> NotTaken]
  /\ exporter = Resting /\ answer = NotTaken /\ observed = <<>>

Refreshing == exporter.callback > 0 /\ exporter.began >= 0

\* Time passes between collections and while a callback waits, within its budget; the callbacks
\* of a collection run back to back.
GaugeTimePasses ==
  /\ gaugeClock < MaxGaugeTime
  /\ exporter.callback = 0 \/ (Refreshing /\ gaugeClock < exporter.began + RefreshBudget)
  /\ gaugeClock' = gaugeClock + 1
  /\ UNCHANGED <<starts, source, phase, snapshot, exporter, answer, observed>>

\* startup: register_neo4j_gauges.
RegisterGauges ==
  /\ phase = "closed" /\ starts < MaxStarts
  /\ starts' = starts + 1 /\ source' = starts + 1 /\ phase' = "running"
  /\ UNCHANGED <<gaugeClock, snapshot, exporter, answer, observed>>

\* shutdown: reset_neo4j_gauges, and then the driver is closed.
\* Mutant: the source stays.
ResetKeeping == source
ResetSource == NoSource
ResetGauges ==
  /\ phase = "running" /\ phase' = "detached" /\ source' = ResetSource
  /\ UNCHANGED <<gaugeClock, starts, snapshot, exporter, answer, observed>>
CloseDriver ==
  /\ phase = "detached" /\ phase' = "closed"
  /\ UNCHANGED <<gaugeClock, starts, source, snapshot, exporter, answer, observed>>

\* The reader collects.
BeginExport ==
  /\ exporter = Resting /\ observed' = <<>>
  /\ exporter' = [Resting EXCEPT !.callback = 1]
  /\ UNCHANGED <<gaugeClock, starts, source, phase, snapshot, answer>>

\* A callback asks for the source, once.
TakeSource ==
  /\ exporter.callback > 0 /\ exporter.source = NoSource /\ source # NoSource
  /\ exporter' = [exporter EXCEPT !.source = source, !.closed = ClosedDriver(source)]
  /\ UNCHANGED <<gaugeClock, starts, source, phase, snapshot, answer, observed>>

\* The callback has observed; the next one follows, or the collection ends.
Observes(what) ==
  /\ observed' = Append(observed, [what EXCEPT !.seen = gaugeClock, !.closed = exporter.closed])
  /\ exporter' = IF exporter.callback = Callbacks THEN Resting
                 ELSE [Resting EXCEPT !.callback = exporter.callback + 1]

\* No source, no observation.
ObserveNothing ==
  /\ exporter.callback > 0 /\ exporter.source = NoSource /\ source = NoSource
  /\ Observes(NotTaken)
  /\ UNCHANGED <<gaugeClock, starts, source, phase, snapshot, answer>>

\* _Neo4jGaugeSource.snapshot.  Mutant: a failed reading is not reused.
YoungIfUp(taken) == taken.up /\ gaugeClock - taken.refreshed < SnapshotTime
Young(taken) == taken # NotTaken /\ gaugeClock - taken.refreshed < SnapshotTime

HasSource == exporter.source # NoSource /\ ~Refreshing
ObserveSnapshot ==
  /\ HasSource /\ Young(snapshot[exporter.source])
  /\ Observes(snapshot[exporter.source])
  /\ UNCHANGED <<gaugeClock, starts, source, phase, snapshot, answer>>
BeginRefresh ==
  /\ HasSource /\ ~Young(snapshot[exporter.source])
  /\ exporter' = [exporter EXCEPT !.began = gaugeClock]
  /\ answer' = NotTaken
  /\ UNCHANGED <<gaugeClock, starts, source, phase, snapshot, observed>>

\* _read, on the event loop: every number, or down; a closed driver answers nothing.
ReadStore ==
  /\ Refreshing /\ answer = NotTaken
  /\ \E up \in BOOLEAN :
       /\ up => ~ClosedDriver(exporter.source)
       /\ answer' = [NotTaken EXCEPT !.up = up, !.of = exporter.source, !.at = gaugeClock]
  /\ UNCHANGED <<gaugeClock, starts, source, phase, snapshot, exporter, observed>>

\* _refresh: the answer, or down when the budget is spent or the read cannot be submitted.
EndRefresh(taken) ==
  LET kept == [taken EXCEPT !.refreshed = exporter.began]
  IN /\ snapshot' = [snapshot EXCEPT ![exporter.source] = kept]
     /\ Observes(kept)
     /\ answer' = NotTaken
     /\ UNCHANGED <<gaugeClock, starts, source, phase>>
Refreshed == Refreshing /\ answer # NotTaken /\ EndRefresh(answer)
RefreshTimesOut ==
  /\ Refreshing /\ gaugeClock = exporter.began + RefreshBudget
  /\ EndRefresh([NotTaken EXCEPT !.of = exporter.source, !.at = gaugeClock])

GaugeNext ==
  \/ GaugeTimePasses \/ RegisterGauges \/ ResetGauges \/ CloseDriver
  \/ BeginExport \/ TakeSource \/ ObserveNothing \/ ObserveSnapshot
  \/ BeginRefresh \/ ReadStore \/ Refreshed \/ RefreshTimesOut
-----------------------------------------------------------------------------
(* Properties *)

GaugeTypeOK ==
  /\ gaugeClock \in 0..MaxGaugeTime /\ starts \in 0..MaxStarts /\ source \in {NoSource, starts}
  /\ phase \in {"running", "detached", "closed"} /\ exporter.callback \in 0..Callbacks
  /\ exporter.source \in 0..starts /\ Len(observed) <= Callbacks

\* The five gauges of a collection are of one reading of the store, also when it failed, so that
\* the store is never reported down beside numbers, nor numbers of two readings together; only a
\* shutdown or a start in the middle of the collection may part them.  What is reported was read
\* less than the snapshot's time ago.  And no callback that begins when the driver is closed reports
\* the store: a console that has stopped says nothing, rather than that the store is down; a
\* callback under way when it stops may still say so (snapshot, _refresh, reset_neo4j_gauges).
GaugesShareOneReading ==
  /\ \A i, j \in DOMAIN observed :
       /\ observed[i].of = observed[j].of
       => observed[i].at = observed[j].at /\ observed[i].up = observed[j].up
  /\ \A i \in DOMAIN observed : observed[i].of # NoSource =>
       observed[i].at > observed[i].seen - SnapshotTime /\ ~observed[i].closed
=============================================================================
