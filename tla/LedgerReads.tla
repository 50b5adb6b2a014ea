----------------------------- MODULE LedgerReads -----------------------------
(***************************************************************************)
(* The Identity Ledger tab (AdminLedger in static/admin.js): the density   *)
(* strip, the list of works and the work that is open, each read on its    *)
(* own.  A read is superseded by a newer one of its kind; while the ledger *)
(* is being built the strip and the list are asked for again by a timer.   *)
(* Reads outlive the session they were sent in.  A read the console        *)
(* refuses ends the session first (BrowserSession) and then fails.         *)
(***************************************************************************)
EXTENDS PageSession

CONSTANTS
  Selections,     \* what can be chosen: a kind, filters and a page, a work and its time
  FirstSelection, \* what is chosen at first
  MaxLedger    \* bound: choices, refreshes and retries, all told

ASSUME LedgerAssumption ==
  /\ FirstSelection \in Selections /\ "none" \notin Selections /\ "building" \notin Selections
  /\ MaxLedger \in Nat

VARIABLES
  chosen,      \* by name: the kind, the filters and page, the open work
  loaded,      \* ledgerLoaded
  generation,  \* by name: the number of the newest read
  reads,       \* reads under way
  armed,       \* names in ledgerRetryTimers
  building,    \* names ledgerBuilding holds for true
  spinning,    \* names whose spinner is shown
  failed,      \* names whose error is shown
  ledger       \* by name: the choice drawn, or that the ledger is being built

ledgerVars == <<chosen, loaded, generation, reads, armed, building, spinning, failed, ledger>>
-----------------------------------------------------------------------------
Names   == {"density", "works", "work"}
Retried == {"density", "works"}

\* The constructor.
LedgerInit ==
  /\ chosen = [name \in Names |-> IF name = "work" THEN None ELSE FirstSelection]
  /\ loaded = FALSE
  /\ generation = [name \in Names |-> 0] /\ reads = {}
  /\ armed = {} /\ building = {} /\ spinning = {} /\ failed = {}
  /\ ledger = [name \in Names |-> None]

\* _ledgerRead as it starts, for each of the names, and _ledgerStopRetry.
\* Mutant: the retry that was due stays due.
LedgerReadKeepingRetry(names) ==
  /\ generation' = [n \in Names |-> IF n \in names THEN generation[n] + 1 ELSE generation[n]]
  /\ reads' = reads \cup
       {[name |-> n, generation |-> generation'[n], asked |-> chosen'[n]] : n \in names}
  /\ spinning' = spinning \cup names /\ failed' = failed \ names
  /\ UNCHANGED <<armed, building, ledger>>
LedgerRead(names) ==
  /\ generation' = [n \in Names |-> IF n \in names THEN generation[n] + 1 ELSE generation[n]]
  /\ reads' = reads \cup
       {[name |-> n, generation |-> generation'[n], asked |-> chosen'[n]] : n \in names}
  /\ armed' = armed \ names
  /\ spinning' = spinning \cup names /\ failed' = failed \ names
  /\ UNCHANGED <<building, ledger>>
-----------------------------------------------------------------------------
(* The session *)

\* showPanel
StartLedger ==
  /\ loaded' = FALSE
  /\ UNCHANGED <<chosen, generation, reads, armed, building, spinning, failed, ledger>>

\* showLogin, stopLedgerRetries: reads under way stay under way.
StopLedger ==
  /\ armed' = {} /\ building' = {}
  /\ UNCHANGED <<chosen, loaded, generation, reads, spinning, failed, ledger>>
-----------------------------------------------------------------------------
(* The operator *)

\* loadLedger
LoadLedger ==
  /\ loaded' = TRUE /\ UNCHANGED chosen
  /\ LedgerRead(IF chosen["work"] = None THEN Retried ELSE Names)

\* showLedger: the tab is read the first time it is shown.
ShowLedger ==
  /\ session # 0 /\ ~loaded /\ UNCHANGED extras
  /\ LoadLedger

\* ledger-refresh-btn
RefreshLedger ==
  /\ Extra(MaxLedger)
  /\ session # 0 /\ loaded
  /\ LoadLedger

\* fetchLedgerDensity, fetchLedgerWorks after a change of the kind, a filter or the page.
ChooseLedger ==
  /\ Extra(MaxLedger)
  /\ session # 0 /\ loaded /\ UNCHANGED loaded
  /\ \E name \in Retried, c \in Selections :
       chosen' = [chosen EXCEPT ![name] = c] /\ LedgerRead({name})

\* openLedgerWork from a row of the list or from the open work, and fetchLedgerWork at another
\* time for that one, whatever has become of the list.
OpenLedgerWork ==
  /\ Extra(MaxLedger)
  /\ session # 0 /\ (ledger["works"] \in Selections \/ chosen["work"] # None)
  /\ UNCHANGED loaded
  /\ \E c \in Selections : chosen' = [chosen EXCEPT !["work"] = c]
  /\ LedgerRead({"work"})

\* ledger-work-close: a read of the work stays under way.
CloseLedgerWork ==
  /\ session # 0 /\ chosen["work"] # None
  /\ chosen' = [chosen EXCEPT !["work"] = None]
  /\ UNCHANGED <<extras, loaded, generation, reads, armed, building, spinning, failed, ledger>>
-----------------------------------------------------------------------------
(* The answers *)

Newest(read) == read.generation = generation[read.name]

\* The timer fires, with a session or without.
RetryLedger ==
  /\ Extra(MaxLedger)
  /\ UNCHANGED <<chosen, loaded>>
  /\ \E name \in armed : LedgerRead({name})

\* _ledgerRead is answered: an answer that was superseded is dropped.
\* Mutant: it is drawn.
LedgerAnsweredAlways(read) ==
  /\ reads' = reads \ {read}
  /\ ledger' = [ledger EXCEPT ![read.name] = read.asked]
  /\ building' = building \ {read.name} /\ spinning' = spinning \ {read.name}
  /\ UNCHANGED <<extras, chosen, loaded, generation, armed, failed>>
LedgerAnswered(read) ==
  /\ reads' = reads \ {read}
  /\ IF Newest(read)
     THEN /\ ledger' = [ledger EXCEPT ![read.name] = read.asked]
          /\ building' = building \ {read.name} /\ spinning' = spinning \ {read.name}
     ELSE UNCHANGED <<ledger, building, spinning>>
  /\ UNCHANGED <<extras, chosen, loaded, generation, armed, failed>>

\* It answers "not yet refreshed" (_ledgerBuilding): asked again after Retry-After, also when
\* the session is over.
LedgerBuilding(read) ==
  /\ read.name \in Retried
  /\ reads' = reads \ {read}
  /\ IF Newest(read)
     THEN /\ ledger' = [ledger EXCEPT ![read.name] = "building"]
          /\ building' = building \cup {read.name} /\ armed' = armed \cup {read.name}
          /\ spinning' = spinning \ {read.name}
     ELSE UNCHANGED <<ledger, building, armed, spinning>>
  /\ UNCHANGED <<extras, chosen, loaded, generation, failed>>

\* It fails or is refused: the error is shown beside what was drawn.
LedgerFails(read) ==
  /\ reads' = reads \ {read}
  /\ IF Newest(read)
     THEN /\ building' = building \ {read.name} /\ failed' = failed \cup {read.name}
          /\ spinning' = spinning \ {read.name}
     ELSE UNCHANGED <<building, failed, spinning>>
  /\ UNCHANGED <<extras, chosen, loaded, generation, armed, ledger>>

LedgerNext ==
  \/ ShowLedger \/ RefreshLedger \/ ChooseLedger \/ OpenLedgerWork \/ CloseLedgerWork
  \/ RetryLedger
  \/ \E read \in reads : LedgerAnswered(read) \/ LedgerBuilding(read) \/ LedgerFails(read)
-----------------------------------------------------------------------------
(* Properties *)

UnderWay(name) == \E read \in reads : read.name = name /\ Newest(read)

LedgerTypeOK ==
  /\ chosen \in [Names -> Selections \cup {None}] /\ loaded \in BOOLEAN
  /\ generation \in [Names -> Nat]
  /\ reads \subseteq [name : Names, generation : Nat, asked : Selections \cup {None}]
  /\ armed \subseteq Retried /\ building \subseteq Retried
  /\ spinning \subseteq Names /\ failed \subseteq Names
  /\ ledger \in [Names -> Selections \cup {None, "building"}]

\* However answers overtake each other and whatever fails: a panel that has been read, with no
\* newer read under way and no error, shows what is chosen now, or that the ledger is being
\* built; and its spinner turns exactly while the newest read is under way (_ledgerRead).
LedgerShowsChoice ==
  \A name \in Names :
    /\ name \in spinning <=> UnderWay(name)
    /\ (generation[name] > 0 /\ ~UnderWay(name) /\ name \notin failed /\ chosen[name] # None)
         => ledger[name] \in {chosen[name], "building"}

\* A panel said to be being built is asked for again, by a timer or by a read under way, never
\* by both, and no timer is due for another: across sign-outs that stop the timers while a read
\* is under way (_ledgerBuilding, _ledgerStopRetry, stopLedgerRetries).
RetryIsOwed ==
  /\ armed \subseteq building
  /\ \A name \in building : name \in armed <=> ~UnderWay(name)
-----------------------------------------------------------------------------
(* What every step keeps, and the two properties follow from: the reads under way are *)
(* numbered apart, and the newest of a name asked for what is chosen now.              *)

ReadsNumbered ==
  /\ \A read \in reads : read.generation \in 1..generation[read.name]
  /\ \A r, q \in reads : r.name = q.name /\ r.generation = q.generation => r = q

NewestAsksChoice ==
  \A read \in reads :
    Newest(read) /\ chosen[read.name] # None => read.asked = chosen[read.name]

RetriedAreChosen == \A name \in Retried : chosen[name] # None

LedgerInv ==
  /\ LedgerTypeOK /\ ReadsNumbered /\ NewestAsksChoice /\ RetriedAreChosen
  /\ LedgerShowsChoice /\ RetryIsOwed
=============================================================================
