------------------------------ MODULE Console ------------------------------
(***************************************************************************)
(* The signed-in view of the page: admin.js shows it and announces the     *)
(* session (showPanel), and takes it down and ends the session             *)
(* (showLogin). The Overview, the runs, the activity log, the Identity     *)
(* Ledger, the admin tabs and the analysis start and stop with it and      *)
(* share nothing else that a step of theirs changes, so each is looked at  *)
(* on its own, against every way that sessions begin and end: focus says   *)
(* which, and the others stand still.                                      *)
(***************************************************************************)
EXTENDS Overview, RunProgress, ActivityLog, LedgerReads, ExtractionAnalysis

VARIABLE focus  \* the part that is looked at

panelVars == <<readVars, tabVars, analysisVars>>
vars == <<pageSession, extras, focus, overviewVars, runVars, logVars, ledgerVars, panelVars>>

Parts == {"overview", "runs", "log", "ledger", "tabs", "analysis"}
PanelParts == {"tabs", "analysis"}

ConsoleInit ==
  /\ NoSession /\ focus \in Parts
  /\ OverviewInit /\ RunInit /\ LogInit /\ LedgerInit
  /\ ReadsInit /\ TabsInit /\ AnalysisInit

\* A step of one part, taken when it is the one that is looked at.
On(parts, Step, partVars) == IF focus \in parts THEN Step ELSE UNCHANGED partVars
-----------------------------------------------------------------------------
\* showPanel, and the session event it announces: startWhileSignedIn.
SignIn ==
  /\ Begin /\ UNCHANGED focus
  /\ On({"overview"}, StartOverview, overviewVars)
  /\ On({"runs"}, StartRuns, runVars)
  /\ On({"log"}, StartLog, logVars)
  /\ On({"ledger"}, StartLedger, ledgerVars)
  /\ On(PanelParts, StartPanels /\ UNCHANGED analysisVars, panelVars)

\* showLogin: a sign-out, a session the console no longer knows.
SignOut ==
  /\ End /\ UNCHANGED focus
  /\ On({"overview"}, StopOverview, overviewVars)
  /\ On({"runs"}, StopRuns, runVars)
  /\ On({"log"}, StopLog, logVars)
  /\ On({"ledger"}, StopLedger, ledgerVars)
  /\ On(PanelParts, StopPanels /\ UNCHANGED analysisVars, panelVars)

\* The analysis and the other tabs share the reads' records and the tab in front.
PanelsNext ==
  \/ focus = "tabs" /\ TabsNext /\ UNCHANGED analysisVars
  \/ focus = "analysis" /\ AnalysisNext

\* Everything between.
Proceeds ==
  /\ UNCHANGED <<pageSession, focus>>
  /\ \/ focus = "overview" /\ OverviewNext /\ UNCHANGED <<runVars, logVars, ledgerVars, panelVars>>
     \/ focus = "runs" /\ RunNext /\ UNCHANGED <<overviewVars, logVars, ledgerVars, panelVars>>
     \/ focus = "log" /\ LogNext /\ UNCHANGED <<overviewVars, runVars, ledgerVars, panelVars>>
     \/ focus = "ledger" /\ LedgerNext /\ UNCHANGED <<overviewVars, runVars, logVars, panelVars>>
     \/ PanelsNext /\ UNCHANGED <<overviewVars, runVars, logVars, ledgerVars>>

ConsoleNext == SignIn \/ SignOut \/ Proceeds
ConsoleSpec == ConsoleInit /\ [][ConsoleNext]_vars
-----------------------------------------------------------------------------
\* The type invariants of the parts.
ConsoleTypeOK ==
  /\ session \in 0..MaxSessions /\ begun \in 0..MaxSessions /\ extras \in Nat
  /\ focus \in Parts
  /\ OverviewTypeOK /\ RunTypeOK /\ LogTypeOK /\ LedgerTypeOK /\ TabsTypeOK /\ AnalysisTypeOK
=============================================================================
