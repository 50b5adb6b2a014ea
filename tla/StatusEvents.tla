---------------------------- MODULE StatusEvents ----------------------------
(***************************************************************************)
(* The other transitions of the event detector (EventDetector in           *)
(* dashboard/events.py): a service of a pipeline, a probed platform        *)
(* service, a datastore, and the broker scrape of a pipeline with a        *)
(* dead-letter queue.  Each keeps what the last reading said of it and     *)
(* turns a change into an event, told here by its kind alone.  The history *)
(* variable told keeps the readings and their events, so that what an      *)
(* operator learns from the events can be compared with what was read.     *)
(* Only the broker and the dead-letter queue share a register, so a        *)
(* history is about one subject.                                           *)
(***************************************************************************)
EXTENDS Integers, Sequences

CONSTANTS
  Depths,    \* what a dead-letter queue may hold
  MaxTold    \* bound: the readings of a history

ASSUME StatusAssumption == Depths \subseteq Nat /\ 0 \in Depths /\ MaxTold \in Nat

VARIABLES
  subject,   \* whom the history is about
  serving,   \* _services, _platform, _datastores, _available: the state last seen, or Unseen
  depth,     \* _dlq_depth, Unseen when there is none
  told       \* the readings so far, with the events each was given

statusVars == <<subject, serving, depth, told>>
-----------------------------------------------------------------------------
Unseen   == -1
Subjects == {"service", "probe", "datastore", "broker"}

\* What a reading may say of a subject; of the broker also the depth of the dead-letter queue,
\* Unseen when it is not listed.
Statuses == [service |-> {"healthy", "starting", "unhealthy", "unknown"},
             probe |-> {"healthy", "unhealthy", "unreachable", "disabled", "unconfigured"}]
Says(s) ==
  CASE s = "broker"    -> [status : {"healthy"}, depth : Depths \cup {Unseen}]
                            \cup [status : {"unhealthy"}, depth : {Unseen}]
    [] s = "datastore" -> [status : {"healthy", "unhealthy"}, depth : {Unseen}]
    [] OTHER           -> [status : Statuses[s], depth : {Unseen}]

\* A service in one of _SERVICE_DOWN is not serving; a datastore and the scrape are well or not.
Down     == {"unhealthy", "unknown", "unreachable"}
Inactive == {"disabled", "unconfigured"}
Serves(r) == IF r.status \in Down THEN 0 ELSE 1

\* __post_init__
StatusInit == subject \in Subjects /\ serving = Unseen /\ depth = Unseen /\ told = <<>>

\* _services_of, _platform_of, _datastores_of and the first half of _broker_of: the first
\* reading is a baseline, and a change is told.
ServingEvents(r) ==
  IF serving \in {Unseen, Serves(r)} THEN {}
  ELSE {IF Serves(r) = 1 THEN "up" ELSE "down"}

\* The other half of _broker_of: growth and emptying, not across a failed scrape.
DepthEvents(r) ==
  CASE r.depth = Unseen \/ depth = Unseen -> {}
    [] r.depth # Unseen /\ depth # Unseen ->
         IF r.depth > depth THEN {"grew"}
         ELSE IF r.depth < depth /\ r.depth = 0 THEN {"emptied"}
         ELSE {}

\* A platform service that is turned off or has no target is forgotten.
\* Mutant: it keeps its last state.
ForgottenNever(r) == FALSE
Forgotten(r) == subject = "probe" /\ r.status \in Inactive

\* Mutant of DepthAfter: the depth outlives an outage.
DepthAfterOutage(r) == IF r.depth = Unseen THEN depth ELSE r.depth
DepthAfter(r) ==
  IF Serves(r) = 0 THEN Unseen ELSE IF r.depth = Unseen THEN depth ELSE r.depth

\* observe, for one reading
ObserveStatus(r) ==
  /\ serving' = IF Forgotten(r) THEN Unseen ELSE Serves(r)
  /\ depth' = IF subject = "broker" THEN DepthAfter(r) ELSE Unseen
  /\ told' = Append(told, [r |-> r, events |-> IF Forgotten(r) THEN {}
                                              ELSE ServingEvents(r) \cup DepthEvents(r)])
  /\ UNCHANGED subject

StatusNext == Len(told) < MaxTold /\ \E r \in Says(subject) : ObserveStatus(r)
-----------------------------------------------------------------------------
(* Properties *)

StatusTypeOK ==
  /\ subject \in Subjects /\ serving \in {0, 1, Unseen}
  /\ depth \in Depths \cup {Unseen} /\ Len(told) <= MaxTold

Told(i, kind) == kind \in told[i].events

\* The readings of a service that is looked after since it last was not.
Followed == {i \in DOMAIN told : \A j \in i..Len(told) :
               ~(subject = "probe" /\ told[j].r.status \in Inactive)}

\* What the events have said up to the i-th reading; the first reading of all says it silently.
SaidAt(i) ==
  LET news == {j \in Followed : j <= i /\ (Told(j, "up") \/ Told(j, "down"))}
      last == CHOOSE j \in news : \A k \in news : k <= j
      base == CHOOSE j \in Followed : \A k \in Followed : j <= k
  IN IF news = {} THEN Serves(told[base].r) ELSE IF Told(last, "up") THEN 1 ELSE 0

\* The dead-letter queue's readings since the last failed scrape.
Compared == {i \in DOMAIN told : /\ told[i].r.depth # Unseen
                                 /\ \A j \in i..Len(told) : told[j].r.status = "healthy"}
DepthAt(i) == told[i].r.depth

\* Whoever knows the first state and reads only the events knows the state at every reading,
\* from the time it is looked after, and no event repeats what is known.  Over any readings of a
\* dead-letter queue with no failed scrape between them: no growth and no emptying goes untold,
\* however many steps it took, and none is told that did not happen or that happened across a
\* failed scrape (_services_of, _platform_of, _datastores_of, _broker_of).
TransitionsAreTold ==
  /\ \A i \in Followed :
       /\ SaidAt(i) = Serves(told[i].r)
       /\ (Told(i, "up") \/ Told(i, "down")) => i - 1 \in Followed /\ SaidAt(i - 1) # SaidAt(i)
  /\ \A i, j \in Compared : i < j =>
       /\ DepthAt(j) > DepthAt(i) => \E k \in (i + 1)..j : Told(k, "grew")
       /\ (DepthAt(j) = 0 /\ DepthAt(i) > 0) => \E k \in (i + 1)..j : Told(k, "emptied")
  /\ \A j \in Compared :
       /\ Told(j, "grew") => \E i \in Compared : i < j /\ DepthAt(i) < DepthAt(j)
       /\ Told(j, "emptied") => DepthAt(j) = 0 /\ \E i \in Compared : i < j /\ DepthAt(i) > 0
=============================================================================
