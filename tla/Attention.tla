----------------------------- MODULE Attention -----------------------------
(***************************************************************************)
(* What needs an operator right now (Attention in static/dashboard.js):    *)
(* the items of the attention bar, derived from one reading, the cell of   *)
(* the matrix and the Grafana alerts.  One pipeline with one service and   *)
(* one cell, one platform service and one datastore stand for each of      *)
(* their kind.  An item is told apart by what it is about (its id) and by  *)
(* its kind; the texts are left out.                                       *)
(***************************************************************************)
EXTENDS Integers, Sequences

Item(id, severity, kind) == {[id |-> <<id, 0>>, severity |-> severity, kind |-> kind]}
Nothing == {}
-----------------------------------------------------------------------------
\* pipelineItems, for a service of the pipeline.
ServiceItems(status) ==
  CASE status \in {"healthy", "extracting", "active"} -> Nothing
    [] status = "unhealthy" -> Item("service", "crit", "service-unhealthy")
    [] OTHER -> Item("service", "warn", "service-unknown")

\* pipelineItems, for a cell: the cell's own assessments.
CellItems(cell) ==
  (IF cell.health.kind \in {"no-consumer", "stalled"}
   THEN Item("queue", "crit", cell.health.kind) ELSE Nothing)
  \cup
  (IF cell.dlq.kind \in {"dlq-growing", "dlq-static"}
   THEN Item("dlq", cell.dlq.state, cell.dlq.kind) ELSE Nothing)

\* pipelineItems: a pipeline that is down is said once; without queue metrics no cell speaks.
PipelineItems(down, unavailable, service, cell) ==
  IF down THEN Item("pipeline", "crit", "pipeline-down")
  ELSE ServiceItems(service)
         \cup IF unavailable THEN Item("queues", "warn", "queues-unavailable")
              ELSE CellItems(cell)

\* platformItems: observability being down is a warning, like a target nobody configured.
PlatformItems(status, group) ==
  IF status \in {"healthy", "disabled"} THEN Nothing
  ELSE Item("platform",
            IF status = "unconfigured" \/ group = "observability" THEN "warn" ELSE "crit",
            CASE status = "unconfigured" -> "platform-unconfigured"
              [] status = "unhealthy" -> "platform-unhealthy"
              [] OTHER -> "platform-unreachable")

\* datastoreItems
DatastoreItems(status) ==
  IF status = "healthy" THEN Nothing ELSE Item("datastore", "crit", "datastore-unavailable")

\* alertItems: an alert's id is its name and its place in the list.
AlertItems(firing) ==
  {[id |-> <<firing[i].name, i>>, severity |-> firing[i].severity, kind |-> "grafana-alert"] :
     i \in DOMAIN firing}

\* overall: the header's operational status.
Overall(items, service) ==
  IF service = "unhealthy" THEN "offline"
  ELSE IF \E item \in items : item.severity = "crit" THEN "critical"
  ELSE IF items # {} THEN "warning" ELSE "operational"
=============================================================================
