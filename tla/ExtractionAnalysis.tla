------------------------- MODULE ExtractionAnalysis -------------------------
(***************************************************************************)
(* The Extraction Analysis tab (AdminContracts in static/admin.js): the    *)
(* version selected, its report with the table of rules, the violations of *)
(* a rule, the records skipped, the dialog of a record, the comparison of  *)
(* two versions, the rules picked for a prompt and the prompt.  Its reads  *)
(* are PanelReads'.                                                        *)
(***************************************************************************)
EXTENDS AdminPanels

CONSTANTS
  Versions,  \* versions of the analysis
  Rules,     \* rules a version breaks; every version may break each of them
  MaxAnalysed \* bound: clicks in this tab, all told

ASSUME AnalysisAssumption == MaxAnalysed \in Nat

VARIABLES
  version,   \* ea-version-select
  known,     \* _eaVersions
  table,     \* the rules in the table, or none
  ticked,    \* the boxes ticked in the table
  picked,    \* _eaSelectedRecords
  rule,      \* _eaVdRule, _eaVdEntityType and _eaVdPage
  redrawn    \* the table was drawn afresh with rules picked

analysisVars == <<version, known, table, ticked, picked, rule, redrawn>>
-----------------------------------------------------------------------------
\* The constructor.
AnalysisInit ==
  /\ version = None /\ known = {} /\ table = {} /\ ticked = {} /\ picked = {}
  /\ rule = None /\ redrawn = FALSE

\* _eaLoadReport: the summary with the parsing errors, and the coverage of the media mapping.
LoadReport(v) == IF v = None THEN Nought ELSE Only("report", v)

InTab == session # 0 /\ tab = "extraction-analysis"

\* switchTab, fetchExtractionAnalysisVersions
ShowAnalysis ==
  /\ Extra(MaxAnalysed)
  /\ session # 0 /\ tab' = "extraction-analysis"
  /\ Send(Only("versions", "all"))
  /\ UNCHANGED <<range, auditPage, refreshing, requests, spinner, toast, analysisVars>>

\* _eaPopulateVersionSelects: a version no longer known is deselected, and the first one
\* loaded when none is selected.
\* Mutants: a version no longer known stays selected; the first one is not loaded.
VersionsAnsweredKeeping(c) ==
  /\ c.panel = "versions"
  /\ known' \in SUBSET Versions
  /\ version' = IF version # None THEN version
                ELSE IF known' = {} THEN None ELSE CHOOSE v \in known' : TRUE
  /\ Drawn(c)
  /\ UNCHANGED <<extras, tabVars, table, ticked, picked, rule, redrawn>>
VersionsAnsweredOnly(c) ==
  /\ c.panel = "versions"
  /\ known' \in SUBSET Versions
  /\ version' = IF version \in known' THEN version
                ELSE IF known' = {} THEN None ELSE CHOOSE v \in known' : TRUE
  /\ Drawn(c)
  /\ UNCHANGED <<extras, tabVars, table, ticked, picked, rule, redrawn>>
VersionsAnswered(c) ==
  /\ c.panel = "versions"
  /\ known' \in SUBSET Versions
  /\ version' = IF version \in known' THEN version
                ELSE IF known' = {} THEN None ELSE CHOOSE v \in known' : TRUE
  /\ IF version' \in {None, version} THEN Drawn(c)
     ELSE /\ calls' = [calls EXCEPT ![c.panel] = @ \ {c}, !["report"] = @ \cup {Call("report", version')}]
          /\ asked' = [asked EXCEPT !["report"] = version']
          /\ drawn' = [drawn EXCEPT ![c.panel] = c.key]
          /\ missed' = missed \ {"report"}
          /\ crossed' = IF calls["report"] = {} THEN crossed \ {"report"}
                        ELSE crossed \cup {"report"}
          /\ UNCHANGED <<loading, errors>>
  /\ UNCHANGED <<extras, tabVars, table, ticked, picked, rule, redrawn>>

\* ea-version-select, ea-refresh-btn
SelectVersion ==
  /\ Extra(MaxAnalysed)
  /\ InTab
  /\ version' \in known \cup {None}
  /\ Send(LoadReport(version'))
  /\ UNCHANGED <<tabVars, known, table, ticked, picked, rule, redrawn>>

\* The report is drawn (_eaRenderRuleBreakdown, _eaRenderSkippedCards): its table has no box
\* ticked, whatever is picked, and if records were skipped the list of them is closed.
ReportAnswered(c) ==
  /\ c.panel = "report"
  /\ Finish(c)
  /\ \E skipped \in {drawn["skipped"], None} :
       drawn' = [drawn EXCEPT !["report"] = c.key, !["skipped"] = skipped]
  /\ table' \in SUBSET Rules /\ ticked' = {}
  /\ redrawn' = (redrawn \/ picked # {})
  /\ UNCHANGED <<extras, errors, missed, tabVars, version, known, picked, rule>>

\* A prompt written by the model is announced when it ends, a comparison when it fails.
Announced(c) == c.panel = "prompt" /\ c.key.ai

\* The reads that fail: in silence, in the panel, or in a toast.
AnalysisFails(c) ==
  /\ c.panel \in {"versions", "report", "violations", "prompt", "skipped", "record", "compare"}
  /\ Failed(c)
  /\ IF Announced(c) \/ c.panel = "compare" THEN ShowToast("failed") ELSE UNCHANGED toast
  /\ UNCHANGED <<extras, tab, range, auditPage, refreshing, requests, spinner, analysisVars>>

\* A box of the table.
TickRule ==
  /\ Extra(MaxAnalysed)
  /\ InTab
  /\ \E r \in table :
       IF r \in ticked THEN ticked' = ticked \ {r} /\ picked' = picked \ {r}
       ELSE ticked' = ticked \cup {r} /\ picked' = picked \cup {r}
  /\ UNCHANGED <<readVars, tabVars, version, known, table, rule, redrawn>>

\* _eaToggleSelectAll, over the boxes there are.
\* Mutant: the boxes are ticked, the rules not picked.
ToggleSelectAllBoxes ==
  /\ Extra(MaxAnalysed)
  /\ InTab
  /\ ticked' \in {table, {}} /\ UNCHANGED picked
  /\ UNCHANGED <<readVars, tabVars, version, known, table, rule, redrawn>>
ToggleSelectAll ==
  /\ Extra(MaxAnalysed)
  /\ InTab
  /\ \/ ticked' = table /\ picked' = picked \cup table
     \/ ticked' = {} /\ picked' = picked \ table
  /\ UNCHANGED <<readVars, tabVars, version, known, table, rule, redrawn>>

\* _eaShowViolationsForRule, _eaLoadViolationsPage: of the version selected.
ShowViolations ==
  /\ Extra(MaxAnalysed)
  /\ InTab /\ version # None
  /\ rule' \in table
  /\ Send(Only("violations", [of |-> version, rule |-> rule']))
  /\ UNCHANGED <<tabVars, version, known, table, ticked, picked, redrawn>>

\* _eaLoadSkippedDetail: from a card of the report.
ShowSkipped ==
  /\ Extra(MaxAnalysed)
  /\ InTab /\ version # None /\ drawn["report"] # None
  /\ Send(Only("skipped", version))
  /\ UNCHANGED <<tabVars, analysisVars>>

\* _eaShowRecordDetail: of the version whose skipped records or violations are listed.
ShowRecord ==
  /\ Extra(MaxAnalysed)
  /\ InTab
  /\ \/ drawn["skipped"] # None /\ Send(Only("record", drawn["skipped"]))
     \/ /\ rule # None /\ calls["violations"] = {} /\ "violations" \notin missed
        /\ Send(Only("record", drawn["violations"].of))
  /\ UNCHANGED <<tabVars, analysisVars>>

\* A click that is answered by a toast alone.
JustToast(text) ==
  /\ ShowToast(text)
  /\ UNCHANGED <<readVars, tab, range, auditPage, refreshing, requests, spinner, analysisVars>>

\* _eaCompare: both versions must be selected.
Compare ==
  /\ Extra(MaxAnalysed)
  /\ InTab
  /\ \/ JustToast("failed")
     \/ /\ \E a, b \in known : Send(Only("compare", [of |-> a, with |-> b]))
        /\ UNCHANGED <<tabVars, analysisVars>>

\* _eaGeneratePrompt, _eaGenerateAiPrompt: for the version and the rules picked, into one
\* text; the button of the second is off while it is under way.
GeneratePrompt ==
  /\ Extra(MaxAnalysed)
  /\ InTab
  /\ IF version = None \/ picked = {} THEN JustToast("failed")
     ELSE /\ \E ai \in BOOLEAN :
               /\ ai => \A c \in calls["prompt"] : ~c.key.ai
               /\ Send(Only("prompt", [of |-> version, rules |-> picked, ai |-> ai]))
          /\ UNCHANGED <<tabVars, analysisVars>>

\* _eaCopyPrompt
CopyPrompt ==
  /\ Extra(MaxAnalysed)
  /\ InTab
  /\ \E text \in {"done", "failed"} : JustToast(text)

\* _eaLoadViolationsPage, _eaGeneratePrompt, _eaGenerateAiPrompt, _eaLoadSkippedDetail,
\* _eaShowRecordDetail, _eaCompare.
AnalysisAnswered(c) ==
  /\ c.panel \in {"violations", "prompt", "skipped", "record", "compare"}
  /\ Drawn(c)
  /\ IF Announced(c) THEN ShowToast("done") ELSE UNCHANGED toast
  /\ UNCHANGED <<extras, tab, range, auditPage, refreshing, requests, spinner, analysisVars>>

AnalysisNext ==
  \/ ShowAnalysis \/ SelectVersion \/ TickRule \/ ToggleSelectAll \/ ShowViolations
  \/ ShowSkipped \/ ShowRecord \/ Compare \/ GeneratePrompt \/ CopyPrompt
  \/ \E p \in Panels : \E c \in calls[p] :
       VersionsAnswered(c) \/ ReportAnswered(c) \/ AnalysisAnswered(c) \/ AnalysisFails(c)
-----------------------------------------------------------------------------
(* Properties *)

AnalysisTypeOK ==
  /\ version \in known \cup {None} /\ known \subseteq Versions
  /\ ticked \subseteq table /\ table \cup picked \subseteq Rules

\* The report on screen is that of the version selected, and the violations, the dialog, the
\* comparison and the prompt are what was asked for last, except while they are read, when the
\* newest read failed and when two reads overlapped; and the rules a prompt is made of are the ones ticked, until the
\* table is drawn afresh with rules picked: they stay picked although no box says so
\* (_eaLoadReport, _eaPopulateVersionSelects, _eaRenderRuleBreakdown, _eaToggleSelectAll).
AnalysisIsOfVersion ==
  /\ \A p \in {"report", "violations", "prompt", "record", "compare"} :
       (calls[p] = {} /\ p \notin crossed \cup missed) =>
         /\ drawn[p] = asked[p]
         /\ (p = "report" /\ version # None) => drawn[p] = version
  /\ ~redrawn => ticked = picked
=============================================================================
