-------------------------- MODULE LiveConnections --------------------------
(***************************************************************************)
(* The set of open dashboard sockets (WebSocketConnections in              *)
(* dashboard/dashboard.py), the gauge that counts it, the broadcast of the *)
(* collection loop and the socket handlers that join and leave the set.    *)
(* No section under the set's lock awaits, so each is one step; every      *)
(* send and close is an await between two steps.                           *)
(***************************************************************************)
EXTENDS Integers, FiniteSets

CONSTANT Socket  \* sockets: one handshake and one handler each

ASSUME SocketAssumption == IsFiniteSet(Socket)

VARIABLES
  up,          \* the console process is running
  connections, \* WebSocketConnections.connections
  gauge,       \* the up-down counter of active WebSocket connections
  handler,     \* how far websocket_endpoint has come for each socket
  cast         \* the broadcast under way: whom it waits for, whose send failed

connVars == <<up, connections, gauge, handler, cast>>

Quiet      == [at |-> "quiet", waiting |-> {}, failed |-> {}]
Serving    == {"snapshot", "backlog", "open", "recheck"}

\* broadcast(): nothing to do for an empty set, else one send to each member.
Cast(targets) ==
  IF targets = {} THEN Quiet ELSE [at |-> "sending", waiting |-> targets, failed |-> {}]

ConnInit ==
  /\ up = TRUE
  /\ connections = {}
  /\ gauge = 0
  /\ handler = [s \in Socket |-> "free"]
  /\ cast = Quiet
-----------------------------------------------------------------------------
(* websocket_endpoint *)

\* The ticket is redeemed, the socket accepted, and catalog-api asked.
Handshake(s) ==
  /\ up
  /\ handler[s] = "free"
  /\ handler' = [handler EXCEPT ![s] = "handshake"]
  /\ UNCHANGED <<up, connections, gauge, cast>>

Refuse(s) ==
  /\ handler[s] = "handshake"
  /\ handler' = [handler EXCEPT ![s] = "done"]
  /\ UNCHANGED <<up, connections, gauge, cast>>

Join(s) ==
  /\ handler[s] = "handshake"
  /\ connections' = connections \cup {s}
  /\ gauge' = gauge + 1
  /\ handler' = [handler EXCEPT ![s] = "snapshot"]
  /\ UNCHANGED <<up, cast>>

\* The handler's own awaits: snapshot sent, backlog sent, re-check begun and passed.
Advance(s) ==
  /\ \/ handler[s] = "snapshot" /\ handler' = [handler EXCEPT ![s] = "backlog"]
     \/ handler[s] = "backlog" /\ handler' = [handler EXCEPT ![s] = "open"]
     \/ handler[s] = "open" /\ handler' = [handler EXCEPT ![s] = "recheck"]
     \/ handler[s] = "recheck" /\ handler' = [handler EXCEPT ![s] = "open"]
  /\ UNCHANGED <<up, connections, gauge, cast>>

\* Mutant of Leave: the handler ends without taking its socket out of the set.
LeaveBehind(s) ==
  /\ handler[s] \in Serving
  /\ handler' = [handler EXCEPT ![s] = "done"]
  /\ UNCHANGED <<up, connections, gauge, cast>>

\* _discard_websocket: the browser left, a send failed, or a re-check was refused.
Leave(s) ==
  /\ handler[s] \in Serving
  /\ handler' = [handler EXCEPT ![s] = "done"]
  /\ connections' = connections \ {s}
  /\ gauge' = IF s \in connections THEN gauge - 1 ELSE gauge
  /\ UNCHANGED <<up, cast>>
-----------------------------------------------------------------------------
(* broadcast *)

StartCast ==
  /\ up
  /\ cast = Quiet
  /\ connections # {}
  /\ cast' = Cast(connections)
  /\ UNCHANGED <<up, connections, gauge, handler>>

Sent(s) ==
  /\ s \in cast.waiting
  /\ cast' = [cast EXCEPT !.waiting = @ \ {s}]
  /\ UNCHANGED <<up, connections, gauge, handler>>

\* send_text raised, or took longer than _WS_SEND_TIMEOUT_SECONDS.
SendFailed(s) ==
  /\ s \in cast.waiting
  /\ cast' = [cast EXCEPT !.waiting = @ \ {s}, !.failed = @ \cup {s}]
  /\ UNCHANGED <<up, connections, gauge, handler>>

\* Mutant of EndCast: the sockets whose send failed leave the set but not the gauge.
EndCastUncounted(more) ==
  /\ cast.at = "sending"
  /\ cast.waiting = {}
  /\ connections' = connections \ cast.failed
  /\ cast' = IF cast.failed # {} THEN [cast EXCEPT !.at = "closing"]
             ELSE IF more THEN Cast(connections) ELSE Quiet
  /\ UNCHANGED <<up, gauge, handler>>

\* Every send is accounted for.  The loop goes straight on to its next message, if it
\* has one; with failures it drops them from the set first and closes them one by one.
EndCast(more) ==
  /\ cast.at = "sending"
  /\ cast.waiting = {}
  /\ connections' = connections \ cast.failed
  /\ gauge' = gauge - Cardinality(cast.failed)
  /\ cast' = IF cast.failed # {} THEN [cast EXCEPT !.at = "closing"]
             ELSE IF more THEN Cast(connections) ELSE Quiet
  /\ UNCHANGED <<up, handler>>

CloseFailed(s, more) ==
  /\ cast.at = "closing"
  /\ s \in cast.failed
  /\ cast' = IF cast.failed # {s} THEN [cast EXCEPT !.failed = @ \ {s}]
             ELSE IF more THEN Cast(connections) ELSE Quiet
  /\ UNCHANGED <<up, connections, gauge, handler>>
-----------------------------------------------------------------------------
(* The process *)

\* The server has ended every handler; the loop is cancelled wherever it awaits, and
\* close_all empties the set.
Shutdown ==
  /\ up
  /\ up' = FALSE
  /\ handler' = [s \in Socket |-> IF handler[s] = "free" THEN "free" ELSE "done"]
  /\ cast' = Quiet
  /\ connections' = {}
  /\ gauge' = gauge - Cardinality(connections)

\* A new process starts its counter at zero.
Boot ==
  /\ ~up
  /\ up' = TRUE
  /\ gauge' = 0
  /\ UNCHANGED <<connections, handler, cast>>

ConnNext ==
  \/ \E s \in Socket :
       \/ Handshake(s) \/ Refuse(s) \/ Join(s) \/ Advance(s) \/ Leave(s)
       \/ Sent(s) \/ SendFailed(s)
       \/ \E more \in BOOLEAN : CloseFailed(s, more)
  \/ StartCast
  \/ \E more \in BOOLEAN : EndCast(more)
  \/ Shutdown \/ Boot

ConnSpec == ConnInit /\ [][ConnNext]_connVars
-----------------------------------------------------------------------------
(* Properties *)

\* Type invariant of the connection set, its gauge, the handlers and the broadcast.
ConnTypeOK ==
  /\ up \in BOOLEAN
  /\ connections \subseteq Socket
  /\ gauge \in Int
  /\ handler \in [Socket -> {"free", "handshake", "done"} \cup Serving]
  /\ cast \in [at : {"quiet", "sending", "closing"},
               waiting : SUBSET Socket, failed : SUBSET Socket]

\* A socket in the set has a live handler that will take it out again: no interleaving
\* of a failed broadcast, a re-check and a departure leaves a ghost that every later
\* broadcast would wait for (websocket_endpoint, _discard_websocket).
NoGhosts == \A s \in connections : handler[s] \in Serving

\* The gauge never counts a socket the set does not hold, whoever removed it
\* (record_websocket_connection_delta is called once for every add, and at least once
\* for every removal).
GaugeNeverOvercounts == gauge <= Cardinality(connections)

\* What the metric's documentation promises: the gauge counts the active sockets
\* (docs/telemetry.md, telemetry.py).
GaugeCountsConnections == gauge = Cardinality(connections)
=============================================================================
