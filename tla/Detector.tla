------------------------------ MODULE Detector ------------------------------
(***************************************************************************)
(* What the console makes of its readings before anybody sees them: the    *)
(* rates of a queue (RateTracker), the record of the jobs (JobReading),    *)
(* the conditions of a work queue and the page's history of it             *)
(* (QueueWindow), the other events (StatusEvents), and the gauges it       *)
(* exports of the graph store (GraphGauges).  Within one reading none of   *)
(* them reads a register of another, so each is looked at on its own:      *)
(* matter says which, and the others stand still.                          *)
(***************************************************************************)
EXTENDS QueueWindow, StatusEvents, RateTracker, JobReading, GraphGauges

VARIABLE matter  \* what is looked at

detectorVars == <<windowVars, statusVars, rateVars, jobVars, gaugeVars, matter>>

DetectorInit ==
  /\ matter \in {"queue", "status", "rate", "jobs", "gauges"}
  /\ WindowInit /\ StatusInit /\ RateInit /\ JobInit /\ GaugeInit
  /\ subject = "service" \/ matter = "status"

DetectorNext ==
  /\ UNCHANGED matter
  /\ \/ matter = "queue" /\ WindowNext /\ UNCHANGED <<statusVars, rateVars, jobVars, gaugeVars>>
     \/ matter = "status" /\ StatusNext /\ UNCHANGED <<windowVars, rateVars, jobVars, gaugeVars>>
     \/ matter = "rate" /\ RateNext /\ UNCHANGED <<windowVars, statusVars, jobVars, gaugeVars>>
     \/ matter = "jobs" /\ JobNext /\ UNCHANGED <<windowVars, statusVars, rateVars, gaugeVars>>
     \/ matter = "gauges" /\ GaugeNext /\ UNCHANGED <<windowVars, statusVars, rateVars, jobVars>>

DetectorSpec == DetectorInit /\ [][DetectorNext]_detectorVars
-----------------------------------------------------------------------------
\* The type invariants of the parts.
DetectorTypeOK == QueueTypeOK /\ StatusTypeOK /\ RateTypeOK /\ JobTypeOK /\ GaugeTypeOK
=============================================================================
