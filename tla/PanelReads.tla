----------------------------- MODULE PanelReads -----------------------------
(***************************************************************************)
(* The reads behind the panels of the admin tabs (static/admin.js).  None  *)
(* of them is numbered or tied to its session in the code: whichever       *)
(* answer comes last is drawn.  A panel's error is hidden when it is read, *)
(* not when it is drawn; a read that is refused ends the session first     *)
(* (BrowserSession) and then fails like any other.                         *)
(***************************************************************************)
EXTENDS PageSession, FiniteSetsExt

VARIABLES
  calls,    \* by panel: its reads under way, what was asked for and a number
  asked,    \* by panel: what its newest read asked for
  drawn,    \* by panel: what is drawn
  loading,  \* panels whose spinner turns
  errors,   \* panels whose error is shown
  missed,   \* panels whose newest read failed, said or not
  crossed   \* panels whose newest read was sent with another of theirs under way

readVars == <<calls, asked, drawn, loading, errors, missed, crossed>>
-----------------------------------------------------------------------------
Panels  == {"runs", "users", "sync", "storage", "queues", "health", "audit",
            "versions", "report", "violations", "prompt", "skipped", "record", "compare"}
\* Panels that say when they cannot be read; the others keep silent and stay as they are.
Telling == {"users", "storage", "queues", "health", "audit", "violations", "prompt"}
\* Panels that show a history, and say so when there is none.
Histories == {"queues", "health"}

ReadsInit ==
  /\ calls = [p \in Panels |-> {}] /\ loading = {} /\ errors = {} /\ missed = {} /\ crossed = {}
  /\ asked = [p \in Panels |-> None] /\ drawn = [p \in Panels |-> None]

NextNumber(p) == 1 + Max({0} \cup {c.number : c \in calls[p]})
Call(p, key) == [panel |-> p, key |-> key, number |-> NextNumber(p)]

\* What is asked for, by panel: nothing, something of one panel, and of others beside.
Nought == [p \in {} |-> None]
Only(p, key) == [q \in {p} |-> key]
With(what, more) ==
  [p \in DOMAIN what \cup DOMAIN more |-> IF p \in DOMAIN what THEN what[p] ELSE more[p]]

\* Reads of several panels are sent at once: what gives, by panel, what is asked for.
Send(what) ==
  LET panels == DOMAIN what
  IN /\ calls' = [p \in Panels |-> calls[p] \cup IF p \in panels THEN {Call(p, what[p])} ELSE {}]
     /\ asked' = [p \in Panels |-> IF p \in panels THEN what[p] ELSE asked[p]]
     /\ loading' = loading \cup (panels \cap Telling)
     /\ errors' = errors \ panels /\ missed' = missed \ panels
     /\ crossed' = (crossed \ panels) \cup {p \in panels : calls[p] # {}}
     /\ UNCHANGED drawn

\* The end of a read: the spinner stops, whoever else is under way.
Finish(c) ==
  /\ calls' = [calls EXCEPT ![c.panel] = @ \ {c}] /\ loading' = loading \ {c.panel}
  /\ UNCHANGED <<asked, crossed>>

\* A read is answered and drawn.
Drawn(c) ==
  /\ Finish(c)
  /\ drawn' = [drawn EXCEPT ![c.panel] = c.key]
  /\ UNCHANGED <<errors, missed>>

\* A read fails.
Failed(c) ==
  /\ Finish(c)
  /\ missed' = missed \cup {c.panel}
  /\ errors' = errors \cup ({c.panel} \cap Telling)
  /\ UNCHANGED drawn

\* _showHistoryUnavailable: the metrics store is down, which is said, and the panel emptied.
Unavailable(c) ==
  /\ Finish(c)
  /\ missed' = missed \cup {c.panel} /\ errors' = errors \cup {c.panel}
  /\ drawn' = [drawn EXCEPT ![c.panel] = "nothing"]
=============================================================================
