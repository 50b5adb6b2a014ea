--------------------------- MODULE ConsoleProofs ---------------------------
(***************************************************************************)
(* Machine-checked facts about Console, for any number of sessions, reads, *)
(* polls and losses: the inductive invariant of each part of the signed-in *)
(* page, and the properties that follow from it.                           *)
(***************************************************************************)
EXTENDS Console, OverviewProofs

(* The panels: which answer they show, and what their errors and spinners follow *)

\* The reads under way, by panel, with their numbers.
CallTypes ==
  /\ DOMAIN calls = Panels /\ DOMAIN asked = Panels /\ DOMAIN drawn = Panels
  /\ loading \cup missed \cup crossed \subseteq Panels
  /\ \A p \in Panels : /\ IsFiniteSet(calls[p])
                       /\ \A c \in calls[p] : c.panel = p /\ c.number \in Nat

\* A panel none of whose reads overlapped has at most the newest one under way, and at rest
\* shows what it asked for, unless the read failed.
CallsInOrder ==
  /\ \A p \in Panels \ crossed : \A c \in calls[p] : calls[p] = {c} /\ c.key = asked[p]
  /\ \A p \in Panels \ (crossed \cup missed \cup {"skipped"}) :
       calls[p] = {} => drawn[p] = asked[p]

\* A panel that tells shows its error exactly while its newest read has failed, and its spinner
\* only turns while it is read.
ErrorsTold ==
  /\ errors = missed \cap Telling /\ loading \subseteq Telling
  /\ \A p \in loading \ crossed : calls[p] # {}

\* What every read of a panel keeps.
ReadsInv == CallTypes /\ CallsInOrder /\ ErrorsTold

\* What is in front has been asked for as it is chosen.
FrontAsked == refreshing => \A p \in InFront : asked[p] = Chosen(p)

\* The report asked for last is that of the version selected, and what is picked is ticked.
VersionAsked ==
  /\ version # None => asked["report"] = version
  /\ ~redrawn => ticked = picked

\* The inductive invariant of the panels.
PanelInv ==
  /\ ReadsInv /\ TabsTypeOK /\ AnalysisTypeOK
  /\ FrontAsked /\ VersionAsked

\* A new read has a number.
LEMMA NumbersAreNat ==
  ASSUME CallTypes, NEW p \in Panels PROVE NextNumber(p) \in Nat
<1> DEFINE numbers == {0} \cup {c.number : c \in calls[p]}
<1>1. IsFiniteSet({c.number : c \in calls[p]})
  <2> DEFINE f == [c \in calls[p] |-> c.number]
             T == {c.number : c \in calls[p]}
  <2>1. f \in [calls[p] -> T] /\ \A t \in T : \E c \in calls[p] : f[c] = t
    OBVIOUS
  <2>2. f \in Surjection(calls[p], T)
    <3> HIDE DEF f, T
    <3>1. QED BY <2>1, Fun_IsSurj
  <2>3. IsFiniteSet(calls[p])
    BY DEF CallTypes
  <2> HIDE DEF f
  <2>4. QED BY <2>2, <2>3, FS_Surjection
<1>2. IsFiniteSet(numbers)
  BY <1>1, FS_Singleton, FS_Union
<1>3. numbers \in SUBSET Nat /\ numbers # {}
  BY DEF CallTypes
<1> HIDE DEF numbers
<1>4. Max(numbers) \in numbers
  BY <1>2, <1>3, MaxIsGreatest
<1>5. Max(numbers) \in Nat
  BY <1>3, <1>4
<1>6. NextNumber(p) = 1 + Max(numbers)
  BY DEF NextNumber, numbers
<1>7. QED BY <1>5, <1>6

\* Reads are sent: the panels asked have one read under way, their newest, unless one of an
\* earlier one was.
LEMMA SendKeeps ==
  ASSUME ReadsInv, NEW what, DOMAIN what \subseteq Panels, Send(what)
  PROVE  /\ ReadsInv'
         /\ \A p \in Panels : asked'[p] = IF p \in DOMAIN what THEN what[p] ELSE asked[p]
<1> DEFINE panels == DOMAIN what
           New(p) == Call(p, what[p])
<1>1. /\ DOMAIN calls = Panels /\ DOMAIN drawn = Panels
      /\ loading \cup missed \cup crossed \subseteq Panels
      /\ \A p \in Panels : IsFiniteSet(calls[p])
      /\ \A p \in Panels : \A c \in calls[p] : c.panel = p /\ c.number \in Nat
  BY DEF ReadsInv, CallTypes
<1>2. /\ DOMAIN calls' = Panels /\ DOMAIN asked' = Panels /\ drawn' = drawn
      /\ \A p \in panels : calls'[p] = calls[p] \cup {New(p)} /\ asked'[p] = what[p]
      /\ \A p \in Panels \ panels : calls'[p] = calls[p] /\ asked'[p] = asked[p]
      /\ loading' = loading \cup (panels \cap Telling)
      /\ errors' = errors \ panels /\ missed' = missed \ panels
      /\ crossed' = (crossed \ panels) \cup {p \in panels : calls[p] # {}}
  BY DEF Send
<1>3. \A p \in panels : New(p).panel = p /\ New(p).key = what[p] /\ New(p).number \in Nat
  BY NumbersAreNat DEF Call, ReadsInv
<1> HIDE DEF panels, New
<1>4. panels \subseteq Panels
  BY DEF panels
<1>5. CallTypes'
  <2>1. \A p \in Panels : IsFiniteSet(calls'[p])
    BY <1>1, <1>2, FS_AddElement
  <2>2. \A p \in Panels : \A c \in calls'[p] : c.panel = p /\ c.number \in Nat
    BY <1>1, <1>2, <1>3
  <2>3. loading' \cup missed' \cup crossed' \subseteq Panels
    BY <1>1, <1>2, <1>4
  <2>4. QED BY <1>1, <1>2, <2>1, <2>2, <2>3 DEF CallTypes
<1>6. CallsInOrder'
  <2>1. \A p \in Panels \ crossed : \A c \in calls[p] : calls[p] = {c} /\ c.key = asked[p]
    BY DEF ReadsInv, CallsInOrder
  <2>2. \A p \in Panels \ (crossed \cup missed \cup {"skipped"}) :
          calls[p] = {} => drawn[p] = asked[p]
    BY DEF ReadsInv, CallsInOrder
  <2>3. ASSUME NEW p \in Panels \ crossed', NEW c \in calls'[p]
        PROVE  calls'[p] = {c} /\ c.key = asked'[p]
    <3>1. CASE p \in panels
      BY <1>2, <1>3, <3>1
    <3>2. CASE p \notin panels
      BY <1>2, <2>1, <3>2
    <3>3. QED BY <3>1, <3>2
  <2>4. ASSUME NEW p \in Panels \ (crossed' \cup missed' \cup {"skipped"}), calls'[p] = {}
        PROVE  drawn'[p] = asked'[p]
    BY <1>2, <2>2, <2>4
  <2>5. QED BY <2>3, <2>4 DEF CallsInOrder
<1>7. ErrorsTold'
  <2>1. errors = missed \cap Telling /\ loading \subseteq Telling
    BY DEF ReadsInv, ErrorsTold
  <2>2. \A p \in loading \ crossed : calls[p] # {}
    BY DEF ReadsInv, ErrorsTold
  <2>3. errors' = missed' \cap Telling /\ loading' \subseteq Telling
    BY <1>2, <2>1
  <2>4. ASSUME NEW p \in loading' \ crossed' PROVE calls'[p] # {}
    <3>1. CASE p \in panels
      BY <1>2, <3>1
    <3>2. CASE p \notin panels
      BY <1>1, <1>2, <2>2, <3>2
    <3>3. QED BY <3>1, <3>2
  <2>5. QED BY <2>3, <2>4 DEF ErrorsTold
<1>8. QED BY <1>2, <1>5, <1>6, <1>7 DEF ReadsInv, panels

\* A read ends: what it brings is what was asked for last, unless reads overlapped; a failure
\* is kept, and told where the panel tells.
LEMMA EndKeeps ==
  ASSUME ReadsInv, NEW p \in Panels, NEW c \in calls[p], Finish(c),
         DOMAIN drawn' = Panels, \A q \in Panels \ {p, "skipped"} : drawn'[q] = drawn[q],
         errors' = missed' \cap Telling,
         \/ missed' = missed \cup {p}
         \/ missed' = missed /\ (p # "skipped" => drawn'[p] = c.key)
  PROVE  ReadsInv' /\ asked' = asked
<1>1. /\ DOMAIN calls = Panels /\ DOMAIN asked = Panels
      /\ loading \cup missed \cup crossed \subseteq Panels
      /\ \A q \in Panels : IsFiniteSet(calls[q])
      /\ \A q \in Panels : \A d \in calls[q] : d.panel = q /\ d.number \in Nat
  BY DEF ReadsInv, CallTypes
<1>2. /\ DOMAIN calls' = Panels /\ asked' = asked /\ crossed' = crossed
      /\ calls'[p] = calls[p] \ {c} /\ \A q \in Panels \ {p} : calls'[q] = calls[q]
      /\ loading' = loading \ {p}
  BY <1>1 DEF Finish
<1>3. CallTypes'
  <2>1. \A q \in Panels : IsFiniteSet(calls'[q])
    BY <1>1, <1>2, FS_RemoveElement
  <2>2. \A q \in Panels : \A d \in calls'[q] : d.panel = q /\ d.number \in Nat
    BY <1>1, <1>2
  <2>3. QED BY <1>1, <1>2, <2>1, <2>2 DEF CallTypes
<1>4. CallsInOrder'
  <2>1. \A q \in Panels \ crossed : \A d \in calls[q] : calls[q] = {d} /\ d.key = asked[q]
    BY DEF ReadsInv, CallsInOrder
  <2>2. \A q \in Panels \ (crossed \cup missed \cup {"skipped"}) :
          calls[q] = {} => drawn[q] = asked[q]
    BY DEF ReadsInv, CallsInOrder
  <2>3. \A q \in Panels \ crossed' : \A d \in calls'[q] : calls'[q] = {d} /\ d.key = asked'[q]
    BY <1>2, <2>1
  <2>4. ASSUME NEW q \in Panels \ (crossed' \cup missed' \cup {"skipped"}), calls'[q] = {}
        PROVE  drawn'[q] = asked'[q]
    <3>1. CASE q = p
      BY <1>2, <2>1, <2>4, <3>1
    <3>2. CASE q # p
      BY <1>2, <2>2, <2>4, <3>2
    <3>3. QED BY <3>1, <3>2
  <2>5. QED BY <2>3, <2>4 DEF CallsInOrder
<1>5. ErrorsTold'
  BY <1>1, <1>2 DEF ReadsInv, ErrorsTold
<1>6. QED BY <1>2, <1>3, <1>4, <1>5 DEF ReadsInv

\* Drawn, failed and unavailable are such ends.
LEMMA AnswersKeep ==
  ASSUME ReadsInv, NEW p \in Panels, NEW c \in calls[p],
         Drawn(c) \/ Failed(c) \/ (p \in Histories /\ Unavailable(c))
  PROVE  ReadsInv' /\ asked' = asked
<1>1. c.panel = p /\ DOMAIN drawn = Panels /\ errors = missed \cap Telling
  BY DEF ReadsInv, CallTypes, ErrorsTold
<1>2. Finish(c)
  BY DEF Drawn, Failed, Unavailable
<1>3. DOMAIN drawn' = Panels /\ \A q \in Panels \ {p, "skipped"} : drawn'[q] = drawn[q]
  BY <1>1 DEF Drawn, Failed, Unavailable
<1>4. errors' = missed' \cap Telling
  BY <1>1 DEF Drawn, Failed, Unavailable, Histories, Telling
<1>5. \/ missed' = missed \cup {p}
      \/ missed' = missed /\ (p # "skipped" => drawn'[p] = c.key)
  BY <1>1 DEF Drawn, Failed, Unavailable
<1>6. QED BY <1>2, <1>3, <1>4, <1>5, EndKeeps

\* What a tab reads when the range is r and the page of the audit log a, and its panels.
ReadsOf(t, r, a) ==
  CASE t = "users" -> FetchUsers
    [] t = "storage" -> FetchStorage
    [] t \in {"queue-trends", "system-health"} -> RefreshHistory(t, r)
    [] t = "audit-log" -> FetchAuditLog(a)
    [] OTHER -> Nought

PanelsOf(t) ==
  CASE t = "users" -> {"users", "sync"}
    [] t = "storage" -> {"storage"}
    [] t = "queue-trends" -> {"queues"}
    [] t = "system-health" -> {"health"}
    [] t = "audit-log" -> {"audit"}
    [] OTHER -> {}

Wanted(p, r, a) == CASE p \in Histories -> r [] p = "audit" -> a [] OTHER -> "all"

LEMMA FrontIs ==
  ASSUME NEW t, NEW r, NEW a
  PROVE  /\ DOMAIN ReadsOf(t, r, a) = PanelsOf(t) /\ PanelsOf(t) \subseteq OfTabs \ {"runs"}
         /\ \A p \in PanelsOf(t) : ReadsOf(t, r, a)[p] = Wanted(p, r, a)
<1>1. \A p, k : DOMAIN Only(p, k) = {p} /\ Only(p, k)[p] = k
  BY DEF Only
<1>2. DOMAIN Nought = {}
  BY DEF Nought
<1>3. /\ DOMAIN FetchUsers = {"users", "sync"}
      /\ FetchUsers["users"] = "all" /\ FetchUsers["sync"] = "all"
  BY DEF FetchUsers
<1>4. PanelsOf(t) \subseteq OfTabs \ {"runs"}
  BY DEF PanelsOf, OfTabs
<1> HIDE DEF Only, Nought, FetchUsers
<1>5. CASE t = "users"
  BY <1>3, <1>4, <1>5 DEF ReadsOf, PanelsOf, Wanted, Histories
<1>6. CASE t = "storage"
  BY <1>1, <1>4, <1>6 DEF ReadsOf, PanelsOf, Wanted, Histories, FetchStorage
<1>7. CASE t = "queue-trends"
  BY <1>1, <1>4, <1>7
  DEF ReadsOf, PanelsOf, Wanted, Histories, RefreshHistory, FetchQueueHistory
<1>8. CASE t = "system-health"
  BY <1>1, <1>4, <1>8
  DEF ReadsOf, PanelsOf, Wanted, Histories, RefreshHistory, FetchHealthHistory
<1>9. CASE t = "audit-log"
  BY <1>1, <1>4, <1>9 DEF ReadsOf, PanelsOf, Wanted, Histories, FetchAuditLog
<1>10. CASE t \notin {"users", "storage", "queue-trends", "system-health", "audit-log"}
  BY <1>2, <1>4, <1>10 DEF ReadsOf, PanelsOf
<1>11. QED BY <1>5, <1>6, <1>7, <1>8, <1>9, <1>10

\* Before and after a step: what is in front, and what it is to show.
LEMMA FrontNow ==
  /\ InFront = {"runs"} \cup PanelsOf(tab) /\ InFront' = {"runs"} \cup PanelsOf(tab')
  /\ \A p : Chosen(p) = Wanted(p, range, auditPage)
  /\ \A p : Chosen(p)' = Wanted(p, range', auditPage')
  /\ \A t : TabReads(t) = ReadsOf(t, range, auditPage)
<1>1. \A t : TabReads(t) = ReadsOf(t, range, auditPage)
  BY DEF TabReads, ReadsOf
<1>2. TabReads(tab)' = ReadsOf(tab', range', auditPage')
  BY DEF TabReads, ReadsOf
<1>3. \A p : Chosen(p) = Wanted(p, range, auditPage)
  BY DEF Chosen, Wanted
<1>4. \A p : Chosen(p)' = Wanted(p, range', auditPage')
  BY DEF Chosen, Wanted
<1>5. InFront = {"runs"} \cup PanelsOf(tab) /\ InFront' = {"runs"} \cup PanelsOf(tab')
  BY <1>1, <1>2, FrontIs DEF InFront
<1>6. QED BY <1>1, <1>3, <1>4, <1>5

\* The tab in front after a step has been asked for as it is chosen: because it was, and none
\* of its panels is asked for otherwise, or because it is asked for now.
LEMMA FrontKept ==
  ASSUME FrontAsked, NEW what,
         \A p \in Panels : asked'[p] = IF p \in DOMAIN what THEN what[p] ELSE asked[p],
         refreshing' => refreshing \/ ("runs" \in DOMAIN what /\ tab' = "overview"),
         "runs" \in DOMAIN what => what["runs"] = "all",
         \/ tab' = "overview"
         \/ /\ tab' = tab /\ \A p \in PanelsOf(tab') \ DOMAIN what : Chosen(p)' = Chosen(p)
            /\ \A p \in PanelsOf(tab') \cap DOMAIN what : what[p] = Chosen(p)'
         \/ /\ PanelsOf(tab') \subseteq DOMAIN what
            /\ \A p \in PanelsOf(tab') : what[p] = Chosen(p)'
  PROVE  FrontAsked'
<1> SUFFICES ASSUME refreshing' PROVE \A p \in InFront' : asked'[p] = Chosen(p)'
  BY DEF FrontAsked
<1>1. /\ InFront' = {"runs"} \cup PanelsOf(tab') /\ InFront = {"runs"} \cup PanelsOf(tab)
      /\ PanelsOf(tab') \subseteq Panels \ {"runs"} /\ "runs" \in Panels
  BY FrontNow, FrontIs DEF Panels, OfTabs
<1>2. Chosen("runs")' = "all" /\ Chosen("runs") = "all"
  BY DEF Chosen, Histories
<1>3. refreshing => \A p \in InFront : asked[p] = Chosen(p)
  BY DEF FrontAsked
<1>4. asked'["runs"] = Chosen("runs")'
  BY <1>1, <1>2, <1>3
<1>5. ASSUME NEW p \in PanelsOf(tab') PROVE asked'[p] = Chosen(p)'
  <2>1. CASE tab' = "overview"
    BY <1>5, <2>1 DEF PanelsOf
  <2>2. CASE tab' # "overview"
    BY <1>1, <1>3, <1>5, <2>2
  <2>3. QED BY <2>1, <2>2
<1>6. QED BY <1>1, <1>4, <1>5

\* One step of the tabs sends the reads of what they show; the analysis stands still.
LEMMA TabsSend ==
  ASSUME PanelInv, NEW what, DOMAIN what \subseteq OfTabs, Send(what), UNCHANGED analysisVars,
         "runs" \in DOMAIN what => what["runs"] = "all",
         (refreshing' = refreshing) \/ ("runs" \in DOMAIN what /\ tab' = "overview"),
         TabsTypeOK',
         \/ tab' = "overview"
         \/ /\ tab' = tab /\ \A p \in PanelsOf(tab') \ DOMAIN what : Chosen(p)' = Chosen(p)
            /\ \A p \in PanelsOf(tab') \cap DOMAIN what : what[p] = Chosen(p)'
         \/ /\ PanelsOf(tab') \subseteq DOMAIN what
            /\ \A p \in PanelsOf(tab') : what[p] = Chosen(p)'
  PROVE  PanelInv'
<1>1. ReadsInv /\ FrontAsked /\ AnalysisTypeOK /\ VersionAsked
  BY DEF PanelInv
<1>2. DOMAIN what \subseteq Panels /\ "report" \notin DOMAIN what /\ "report" \in Panels
  BY DEF OfTabs, Panels
<1>3. /\ ReadsInv'
      /\ \A p \in Panels : asked'[p] = IF p \in DOMAIN what THEN what[p] ELSE asked[p]
  BY <1>1, <1>2, SendKeeps
<1>4. FrontAsked'
  <2>1. refreshing' => refreshing \/ ("runs" \in DOMAIN what /\ tab' = "overview")
    <3>1. CASE refreshing' = refreshing
      BY Zenon, <3>1
    <3>2. CASE "runs" \in DOMAIN what /\ tab' = "overview"
      BY <3>2
    <3>3. QED BY Zenon, <3>1, <3>2
  <2>2. QED BY <1>1, <1>3, <2>1, FrontKept
<1>5. AnalysisTypeOK' /\ VersionAsked'
  <2>1. asked'["report"] = asked["report"]
    BY <1>2, <1>3
  <2>2. QED BY <1>1, <2>1 DEF AnalysisTypeOK, VersionAsked, analysisVars
<1>6. QED BY <1>3, <1>4, <1>5 DEF PanelInv

\* What is in front is not disturbed where nothing is asked for or chosen.
LEMMA FrontStands ==
  ASSUME FrontAsked, \A p \in OfTabs : asked'[p] = asked[p],
         refreshing' => refreshing,
         tab' \in {tab, "overview", "extraction-analysis"}, range' = range,
         auditPage' = auditPage
  PROVE  FrontAsked'
<1>1. /\ InFront' = {"runs"} \cup PanelsOf(tab') /\ InFront = {"runs"} \cup PanelsOf(tab)
      /\ PanelsOf(tab') \subseteq OfTabs /\ "runs" \in OfTabs
      /\ \A p : Chosen(p) = Wanted(p, range, auditPage)
      /\ \A p : Chosen(p)' = Wanted(p, range', auditPage')
  BY FrontNow, FrontIs DEF OfTabs
<1>2. \A p : Chosen(p)' = Chosen(p)
  BY <1>1
<1>3. InFront' \subseteq InFront \cap OfTabs
  <2>1. PanelsOf("overview") = {} /\ PanelsOf("extraction-analysis") = {}
    BY DEF PanelsOf
  <2>2. QED BY <1>1, <2>1
<1>4. QED BY <1>2, <1>3 DEF FrontAsked

\* The sets of panels that TabsTypeOK bounds are bounded by what a read keeps.
LEMMA PanelSets ==
  ReadsInv' => (loading \cup errors \cup missed \cup crossed \subseteq Panels)'
BY DEF ReadsInv, CallTypes, ErrorsTold, Telling, Panels

LEMMA TabsStep ==
  ASSUME PanelInv, TabsNext, UNCHANGED analysisVars
  PROVE  PanelInv'
<1>1. /\ ReadsInv /\ FrontAsked /\ AnalysisTypeOK /\ VersionAsked /\ CallTypes
      /\ tab \in Tabs /\ range \in Ranges /\ auditPage \in 1..MaxPage
      /\ {refreshing, spinner} \subseteq BOOLEAN
      /\ \A r \in requests : r.what \in Sources \cup {"purge"} /\ r.awaits \in Nat
  BY DEF PanelInv, TabsTypeOK, ReadsInv
<1>2. /\ \A t : DOMAIN TabReads(t) = PanelsOf(t) /\ PanelsOf(t) \subseteq OfTabs \ {"runs"}
      /\ \A t : \A p \in PanelsOf(t) : TabReads(t)[p] = Wanted(p, range, auditPage)
      /\ \A p : Chosen(p) = Wanted(p, range, auditPage)
      /\ \A p : Chosen(p)' = Wanted(p, range', auditPage')
  BY FrontNow, FrontIs
<1>3. \A p, k : DOMAIN Only(p, k) = {p} /\ Only(p, k)[p] = k
  BY DEF Only
<1>4. ASSUME NEW what, DOMAIN what \subseteq Panels, Send(what)
      PROVE  (loading \cup errors \cup missed \cup crossed \subseteq Panels)'
  BY <1>1, <1>4, SendKeeps, PanelSets
<1>5. OfTabs \subseteq Panels
  BY DEF OfTabs, Panels
<1>10. CASE SwitchTab
  <2>1. /\ tab' \in Tabs /\ Send(TabReads(tab'))
        /\ UNCHANGED <<range, auditPage, refreshing, requests, spinner>>
    BY <1>10 DEF SwitchTab
  <2>2. TabsTypeOK'
    BY <1>1, <1>2, <1>4, <1>5, <2>1 DEF TabsTypeOK
  <2>3. \A p \in PanelsOf(tab') : TabReads(tab')[p] = Chosen(p)'
    BY <1>2, <2>1
  <2>4. QED BY <1>2, <2>1, <2>2, <2>3, TabsSend
<1>11. CASE RefreshPanel
  <2>1. Send(TabReads(tab)) /\ UNCHANGED tabVars
    BY <1>11 DEF RefreshPanel
  <2>2. TabsTypeOK'
    BY <1>1, <1>2, <1>4, <1>5, <2>1 DEF TabsTypeOK, tabVars
  <2>3. tab' = tab /\ refreshing' = refreshing /\ \A p \in PanelsOf(tab') : TabReads(tab)[p] = Chosen(p)'
    BY <1>2, <2>1 DEF tabVars
  <2>4. QED BY <1>2, <2>1, <2>2, <2>3, TabsSend
<1>12. CASE ChooseRange
  <2>1. /\ tab \in {"queue-trends", "system-health"} /\ range' \in Ranges
        /\ Send(RefreshHistory(tab, range'))
        /\ UNCHANGED <<tab, auditPage, refreshing, requests, spinner>>
    BY <1>12 DEF ChooseRange
  <2>2. /\ DOMAIN RefreshHistory(tab, range') = PanelsOf(tab)
        /\ \A p \in PanelsOf(tab) : RefreshHistory(tab, range')[p] = Chosen(p)'
    <3>1. RefreshHistory(tab, range') = ReadsOf(tab, range', auditPage')
      BY <2>1 DEF ReadsOf
    <3>2. QED BY <1>2, <3>1, FrontIs
  <2>3. TabsTypeOK'
    BY <1>1, <1>2, <1>4, <1>5, <2>1, <2>2 DEF TabsTypeOK
  <2>4. QED BY <1>2, <2>1, <2>2, <2>3, TabsSend
<1>13. CASE TurnAuditPage
  <2>1. /\ tab = "audit-log" /\ auditPage' \in 1..MaxPage
        /\ Send(FetchAuditLog(auditPage'))
        /\ UNCHANGED <<tab, range, refreshing, requests, spinner>>
    BY <1>13 DEF TurnAuditPage
  <2>2. /\ DOMAIN FetchAuditLog(auditPage') = PanelsOf(tab)
        /\ \A p \in PanelsOf(tab) : FetchAuditLog(auditPage')[p] = Chosen(p)'
    <3>1. FetchAuditLog(auditPage') = ReadsOf(tab, range', auditPage')
      BY <2>1 DEF ReadsOf
    <3>2. QED BY <1>2, <3>1, FrontIs
  <2>3. TabsTypeOK'
    BY <1>1, <1>2, <1>4, <1>5, <2>1, <2>2 DEF TabsTypeOK
  <2>4. QED BY <1>2, <2>1, <2>2, <2>3, TabsSend
<1>14. CASE AutoRefresh
  <2> DEFINE what == With(LoadExtractions, TabReads(tab))
  <2>1. Send(what) /\ UNCHANGED tabVars
    BY <1>14 DEF AutoRefresh
  <2>2. /\ DOMAIN what = {"runs"} \cup PanelsOf(tab) /\ what["runs"] = "all"
        /\ \A p \in PanelsOf(tab) : what[p] = Wanted(p, range, auditPage)
    BY <1>2, <1>3 DEF With, LoadExtractions
  <2> HIDE DEF what
  <2>3. "runs" \in OfTabs /\ DOMAIN what \subseteq OfTabs
    BY <1>2, <2>2 DEF OfTabs
  <2>4. TabsTypeOK'
    BY <1>1, <1>4, <1>5, <2>1, <2>3 DEF TabsTypeOK, tabVars
  <2>5. tab' = tab /\ refreshing' = refreshing /\ range' = range /\ auditPage' = auditPage
    BY <2>1 DEF tabVars
  <2>6. \A p \in PanelsOf(tab') : what[p] = Chosen(p)'
    BY <1>2, <2>2, <2>5
  <2>7. QED BY <2>1, <2>2, <2>3, <2>4, <2>5, <2>6, TabsSend
<1>15. CASE \E p \in Panels : \E c \in calls[p] :
             PanelAnswered(c) \/ PanelFails(c) \/ HistoryUnavailable(c)
  <2>1. PICK p \in Panels : \E c \in calls[p] :
          PanelAnswered(c) \/ PanelFails(c) \/ HistoryUnavailable(c)
    BY <1>15
  <2>2. PICK c \in calls[p] : PanelAnswered(c) \/ PanelFails(c) \/ HistoryUnavailable(c)
    BY <2>1
  <2>3. /\ Drawn(c) \/ Failed(c) \/ (p \in Histories /\ Unavailable(c))
        /\ Freed(c)
    <3>1. c.panel = p
      BY <1>1 DEF CallTypes
    <3>2. QED BY <2>2, <3>1 DEF PanelAnswered, PanelFails, HistoryUnavailable
  <2>4. ReadsInv' /\ asked' = asked
    BY <1>1, <2>3, AnswersKeep
  <2>5. /\ requests' \subseteq requests /\ spinner' \in BOOLEAN
        /\ UNCHANGED <<tab, range, auditPage, refreshing>>
    BY <2>3 DEF Freed
  <2>6. TabsTypeOK'
    BY <1>1, <2>4, <2>5, PanelSets DEF TabsTypeOK
  <2>7. FrontAsked'
    BY <1>1, <2>4, <2>5, FrontStands
  <2>8. AnalysisTypeOK' /\ VersionAsked'
    BY <1>1, <2>4 DEF AnalysisTypeOK, VersionAsked, analysisVars
  <2>9. QED BY <2>4, <2>6, <2>7, <2>8 DEF PanelInv
<1>16. CASE \E source \in Sources : TriggerAnswered(source)
  <2>1. PICK source \in Sources : TriggerAnswered(source)
    BY <1>16
  <2>2. /\ requests' = (requests \ {Request(source)})
                         \cup {[what |-> source, awaits |-> NextNumber("runs")]}
        /\ Send(LoadExtractions)
        /\ UNCHANGED <<tab, range, auditPage, refreshing, spinner>>
    BY <2>1 DEF TriggerAnswered
  <2>3. /\ DOMAIN LoadExtractions = {"runs"} /\ LoadExtractions["runs"] = "all"
        /\ "runs" \in OfTabs
    BY <1>3 DEF LoadExtractions, OfTabs
  <2>4. NextNumber("runs") \in Nat
    BY <1>1, <1>5, <2>3, NumbersAreNat
  <2>5. \A r \in requests' : r.what \in Sources \cup {"purge"} /\ r.awaits \in Nat
    BY <1>1, <2>2, <2>4
  <2>6. TabsTypeOK'
    BY <1>1, <1>4, <1>5, <2>2, <2>3, <2>5 DEF TabsTypeOK
  <2>7. \A p \in PanelsOf(tab') \ {"runs"} : Chosen(p)' = Chosen(p)
    BY <1>2, <2>2
  <2>8. QED BY <1>2, <2>2, <2>3, <2>6, <2>7, TabsSend
<1>17. CASE \/ TriggerExtraction \/ PurgeDlq \/ PurgeAnswered \/ ToastTimer
           \/ \E source \in Sources : TriggerFails(source)
  <2>1. UNCHANGED <<readVars, tab, range, auditPage, refreshing>>
    BY <1>17 DEF TriggerExtraction, PurgeDlq, PurgeAnswered, ToastTimer, TriggerFails
  <2>2. /\ spinner' \in BOOLEAN
        /\ \A r \in requests' : r.what \in Sources \cup {"purge"} /\ r.awaits \in Nat
    <3>1. CASE TriggerExtraction
      BY <1>1, <3>1 DEF TriggerExtraction, Request
    <3>2. CASE PurgeDlq
      BY <1>1, <3>2 DEF PurgeDlq, Request
    <3>3. CASE PurgeAnswered
      BY <1>1, <3>3 DEF PurgeAnswered
    <3>4. CASE ToastTimer
      BY <1>1, <3>4 DEF ToastTimer
    <3>5. CASE \E source \in Sources : TriggerFails(source)
      BY <1>1, <3>5 DEF TriggerFails
    <3>6. QED BY <1>17, <3>1, <3>2, <3>3, <3>4, <3>5
  <2>3. ReadsInv' /\ asked' = asked
    BY <1>1, <2>1
    DEF ReadsInv, CallTypes, CallsInOrder, ErrorsTold, readVars
  <2>4. TabsTypeOK'
    BY <1>1, <2>1, <2>2, <2>3, PanelSets DEF TabsTypeOK
  <2>5. FrontAsked'
    BY <1>1, <2>1, <2>3, FrontStands
  <2>6. AnalysisTypeOK' /\ VersionAsked'
    BY <1>1, <2>3 DEF AnalysisTypeOK, VersionAsked, analysisVars
  <2>7. QED BY <2>3, <2>4, <2>5, <2>6 DEF PanelInv
<1>18. QED BY <1>10, <1>11, <1>12, <1>13, <1>14, <1>15, <1>16, <1>17 DEF TabsNext

\* The panels with the session: they start with the runs and the overview in front, and stop
\* with what they show and what is under way.
LEMMA PanelSessions ==
  ASSUME PanelInv, StartPanels \/ StopPanels, UNCHANGED analysisVars
  PROVE  PanelInv'
<1>1. /\ ReadsInv /\ FrontAsked /\ AnalysisTypeOK /\ VersionAsked
      /\ tab \in Tabs /\ range \in Ranges /\ auditPage \in 1..MaxPage
      /\ {refreshing, spinner} \subseteq BOOLEAN
      /\ \A r \in requests : r.what \in Sources \cup {"purge"} /\ r.awaits \in Nat
  BY DEF PanelInv, TabsTypeOK
<1>2. CASE StartPanels
  <2>1. /\ tab' = "overview" /\ Send(LoadExtractions) /\ refreshing' = TRUE
        /\ UNCHANGED <<range, auditPage, requests, spinner>>
    BY <1>2 DEF StartPanels
  <2>2. /\ DOMAIN LoadExtractions = {"runs"} /\ LoadExtractions["runs"] = "all"
        /\ "runs" \in OfTabs /\ OfTabs \subseteq Panels
    BY DEF LoadExtractions, Only, OfTabs, Panels
  <2>3. ReadsInv'
    BY <1>1, <2>1, <2>2, SendKeeps
  <2>4. "overview" \in Tabs
    BY DEF Tabs
  <2>5. TabsTypeOK'
    BY <1>1, <2>1, <2>3, <2>4, PanelSets DEF TabsTypeOK
  <2>6. QED BY <2>1, <2>2, <2>5, TabsSend
<1>3. CASE StopPanels
  <2>1. refreshing' = FALSE /\ UNCHANGED <<readVars, tab, range, auditPage, requests, spinner>>
    BY <1>3 DEF StopPanels
  <2>2. ReadsInv' /\ asked' = asked
    BY <1>1, <2>1 DEF ReadsInv, CallTypes, CallsInOrder, ErrorsTold, readVars
  <2>3. TabsTypeOK'
    BY <1>1, <2>1, <2>2, PanelSets DEF TabsTypeOK
  <2>4. FrontAsked'
    BY <2>1 DEF FrontAsked
  <2>5. AnalysisTypeOK' /\ VersionAsked'
    BY <1>1, <2>2 DEF AnalysisTypeOK, VersionAsked, analysisVars
  <2>6. QED BY <2>2, <2>3, <2>4, <2>5 DEF PanelInv
<1>4. QED BY <1>2, <1>3

\* What the analysis leaves of the tabs: theirs are the panels it never asks for, and the tab in
\* front only ever becomes its own.
LEMMA AnalysisStep ==
  ASSUME PanelInv, ReadsInv', AnalysisTypeOK', VersionAsked',
         \A p \in OfTabs : asked'[p] = asked[p],
         tab' \in {tab, "extraction-analysis"},
         UNCHANGED <<range, auditPage, refreshing, requests, spinner>>
  PROVE  PanelInv'
<1>1. FrontAsked /\ TabsTypeOK
  BY DEF PanelInv
<1>2. FrontAsked'
  BY <1>1, FrontStands
<1>3. TabsTypeOK'
  <2>1. tab' \in Tabs
    BY <1>1 DEF TabsTypeOK, Tabs
  <2>2. QED BY <1>1, <2>1, PanelSets DEF TabsTypeOK
<1>4. QED BY <1>2, <1>3 DEF PanelInv

\* One panel of the analysis is asked for.
LEMMA AnalysisSends ==
  ASSUME PanelInv, NEW p \in Panels \ OfTabs, NEW key, Send(Only(p, key)),
         AnalysisTypeOK', ticked' = ticked, picked' = picked, redrawn' = redrawn,
         p = "report" => key = version',
         p # "report" => version' = version,
         tab' \in {tab, "extraction-analysis"},
         UNCHANGED <<range, auditPage, refreshing, requests, spinner>>
  PROVE  PanelInv'
<1>1. ReadsInv /\ VersionAsked
  BY DEF PanelInv
<1>2. DOMAIN Only(p, key) = {p} /\ Only(p, key)[p] = key
  BY DEF Only
<1>3. /\ ReadsInv' /\ asked'[p] = key
      /\ \A q \in Panels \ {p} : asked'[q] = asked[q]
  BY <1>1, <1>2, SendKeeps
<1>4. "report" \in Panels /\ OfTabs \subseteq Panels \ {p}
  BY DEF Panels, OfTabs
<1>5. VersionAsked'
  BY <1>1, <1>3, <1>4 DEF VersionAsked
<1>6. QED BY <1>3, <1>4, <1>5, AnalysisStep

\* The versions are answered: another one may be selected, and its report is asked for.
LEMMA VersionsStep ==
  ASSUME PanelInv, NEW p \in Panels, NEW c \in calls[p], VersionsAnswered(c)
  PROVE  PanelInv'
<1>1. /\ ReadsInv /\ AnalysisTypeOK /\ VersionAsked
      /\ DOMAIN calls = Panels /\ DOMAIN asked = Panels /\ DOMAIN drawn = Panels
      /\ loading \cup missed \cup crossed \subseteq Panels
      /\ \A q \in Panels : IsFiniteSet(calls[q])
      /\ \A q \in Panels : \A d \in calls[q] : d.panel = q /\ d.number \in Nat
  BY DEF PanelInv, ReadsInv, CallTypes
<1>2. /\ c.panel = "versions" /\ known' \in SUBSET Versions
      /\ version' = IF version \in known' THEN version
                    ELSE IF known' = {} THEN None ELSE CHOOSE v \in known' : TRUE
      /\ UNCHANGED <<tabVars, table, ticked, picked, rule, redrawn>>
  BY DEF VersionsAnswered
<1>3. p = "versions" /\ "report" \in Panels /\ OfTabs \subseteq Panels \ {"report"}
  BY <1>1, <1>2 DEF OfTabs, Panels
<1>4. AnalysisTypeOK'
  BY <1>1, <1>2 DEF AnalysisTypeOK
<1>5. CASE version' \in {None, version}
  <2>1. Drawn(c)
    BY <1>5 DEF VersionsAnswered
  <2>2. ReadsInv' /\ asked' = asked
    BY <1>1, <2>1, AnswersKeep
  <2>3. VersionAsked'
    BY <1>1, <1>2, <1>5, <2>2 DEF VersionAsked
  <2>4. QED BY <1>2, <1>4, <2>2, <2>3, AnalysisStep DEF tabVars
<1>6. CASE version' \notin {None, version}
  <2> DEFINE new == Call("report", version')
  <2>1. /\ calls' = [calls EXCEPT ![c.panel] = @ \ {c}, !["report"] = @ \cup {new}]
        /\ asked' = [asked EXCEPT !["report"] = version']
        /\ drawn' = [drawn EXCEPT ![c.panel] = c.key]
        /\ missed' = missed \ {"report"}
        /\ crossed' = IF calls["report"] = {} THEN crossed \ {"report"}
                      ELSE crossed \cup {"report"}
        /\ UNCHANGED <<loading, errors>>
    BY <1>6 DEF VersionsAnswered
  <2>2. new.panel = "report" /\ new.key = version' /\ new.number \in Nat
    BY <1>1, <1>3, NumbersAreNat DEF Call, ReadsInv
  <2> HIDE DEF new
  <2>3. /\ DOMAIN calls' = Panels /\ DOMAIN asked' = Panels /\ DOMAIN drawn' = Panels
        /\ calls'["versions"] = calls["versions"] \ {c}
        /\ calls'["report"] = calls["report"] \cup {new}
        /\ \A q \in Panels \ {"versions", "report"} : calls'[q] = calls[q]
        /\ asked'["report"] = version' /\ \A q \in Panels \ {"report"} : asked'[q] = asked[q]
        /\ drawn'["versions"] = c.key /\ \A q \in Panels \ {"versions"} : drawn'[q] = drawn[q]
    BY <1>1, <1>2, <1>3, <2>1
  <2>4. CallTypes'
    <3>1. \A q \in Panels : IsFiniteSet(calls'[q])
      BY <1>1, <1>3, <2>3, FS_AddElement, FS_RemoveElement
    <3>2. \A q \in Panels : \A d \in calls'[q] : d.panel = q /\ d.number \in Nat
      BY <1>1, <1>3, <2>2, <2>3
    <3>3. (loading \cup missed \cup crossed)' \subseteq Panels
      BY <1>1, <1>3, <2>1
    <3>4. QED BY <2>3, <3>1, <3>2, <3>3 DEF CallTypes
  <2>5. CallsInOrder'
    <3>1. \A q \in Panels \ crossed : \A d \in calls[q] : calls[q] = {d} /\ d.key = asked[q]
      BY <1>1 DEF ReadsInv, CallsInOrder
    <3>2. \A q \in Panels \ (crossed \cup missed \cup {"skipped"}) :
            calls[q] = {} => drawn[q] = asked[q]
      BY <1>1 DEF ReadsInv, CallsInOrder
    <3>3. ASSUME NEW q \in Panels \ crossed', NEW d \in calls'[q]
          PROVE  calls'[q] = {d} /\ d.key = asked'[q]
      <4>1. CASE q = "report"
        BY <2>1, <2>2, <2>3, <3>3, <4>1
      <4>2. CASE q # "report"
        <5>1. q \notin crossed /\ asked'[q] = asked[q] /\ calls'[q] \subseteq calls[q]
          BY <1>3, <2>1, <2>3, <3>3, <4>2
        <5>2. QED BY <3>1, <3>3, <5>1
      <4>3. QED BY <4>1, <4>2
    <3>4. ASSUME NEW q \in Panels \ (crossed' \cup missed' \cup {"skipped"}), calls'[q] = {}
          PROVE  drawn'[q] = asked'[q]
      <4>1. q # "report"
        BY <2>3, <3>4
      <4>2. q \notin crossed \cup missed /\ asked'[q] = asked[q]
        BY <2>1, <2>3, <3>4, <4>1
      <4>3. CASE q = "versions"
        BY <1>3, <2>3, <3>1, <4>2, <4>3
      <4>4. CASE q # "versions"
        BY <2>3, <3>2, <3>4, <4>1, <4>2, <4>4
      <4>5. QED BY <4>3, <4>4
    <3>5. QED BY <3>3, <3>4 DEF CallsInOrder
  <2>6. ErrorsTold'
    <3>1. "report" \notin Telling /\ "versions" \notin Telling
      BY DEF Telling
    <3>2. /\ errors = missed \cap Telling /\ loading \subseteq Telling
          /\ \A q \in loading \ crossed : calls[q] # {}
      BY <1>1 DEF ReadsInv, ErrorsTold
    <3>3. \A q \in loading' \ crossed' : calls'[q] # {}
      BY <1>1, <2>1, <2>3, <3>1, <3>2
    <3>4. QED BY <2>1, <3>1, <3>2, <3>3 DEF ErrorsTold
  <2>7. VersionAsked'
    BY <1>1, <1>2, <2>3 DEF VersionAsked
  <2>8. ReadsInv'
    BY <2>4, <2>5, <2>6 DEF ReadsInv
  <2>9. QED BY <1>2, <1>3, <1>4, <2>3, <2>7, <2>8, AnalysisStep DEF tabVars
<1>7. QED BY <1>5, <1>6

\* The clicks in the analysis that read something.
LEMMA AnalysisReads ==
  ASSUME PanelInv, ShowAnalysis \/ SelectVersion \/ ShowViolations \/ ShowSkipped \/ ShowRecord
  PROVE  PanelInv'
<1>1. AnalysisTypeOK /\ ReadsInv /\ VersionAsked
  BY DEF PanelInv
<1>2. {"versions", "report", "violations", "skipped", "record"} \subseteq Panels \ OfTabs
  BY DEF Panels, OfTabs
<1>3. CASE ShowAnalysis
  <2>1. /\ tab' = "extraction-analysis" /\ Send(Only("versions", "all"))
        /\ UNCHANGED <<range, auditPage, refreshing, requests, spinner, analysisVars>>
    BY <1>3 DEF ShowAnalysis
  <2>2. AnalysisTypeOK' /\ version' = version /\ UNCHANGED <<ticked, picked, redrawn>>
    BY <1>1, <2>1 DEF AnalysisTypeOK, analysisVars
  <2>3. QED BY <1>2, <2>1, <2>2, AnalysisSends
<1>4. CASE SelectVersion
  <2>1. /\ version' \in known \cup {None} /\ Send(LoadReport(version'))
        /\ UNCHANGED <<tabVars, known, table, ticked, picked, redrawn>>
    BY <1>4 DEF SelectVersion
  <2>2. AnalysisTypeOK'
    BY <1>1, <2>1 DEF AnalysisTypeOK
  <2>3. CASE version' # None
    <3>1. Send(Only("report", version'))
      BY <2>1, <2>3 DEF LoadReport
    <3>2. QED BY <1>2, <2>1, <2>2, <3>1, AnalysisSends DEF tabVars
  <2>4. CASE version' = None
    <3>1. Send(Nought) /\ DOMAIN Nought = {}
      BY <2>1, <2>4 DEF LoadReport, Nought
    <3>2. ReadsInv' /\ \A p \in Panels : asked'[p] = asked[p]
      BY <1>1, <3>1, SendKeeps
    <3>3. VersionAsked'
      BY <1>1, <2>1, <2>4 DEF VersionAsked
    <3>4. OfTabs \subseteq Panels
      BY DEF OfTabs, Panels
    <3>5. QED BY <2>1, <2>2, <3>2, <3>3, <3>4, AnalysisStep DEF tabVars
  <2>5. QED BY <2>3, <2>4
<1>5. CASE ShowViolations
  <2>1. /\ Send(Only("violations", [of |-> version, rule |-> rule']))
        /\ UNCHANGED <<tabVars, version, known, table, ticked, picked, redrawn>>
    BY <1>5 DEF ShowViolations
  <2>2. AnalysisTypeOK'
    BY <1>1, <2>1 DEF AnalysisTypeOK
  <2>3. QED BY <1>2, <2>1, <2>2, AnalysisSends DEF tabVars
<1>6. CASE ShowSkipped
  <2>1. Send(Only("skipped", version)) /\ UNCHANGED <<tabVars, analysisVars>>
    BY <1>6 DEF ShowSkipped
  <2>2. AnalysisTypeOK' /\ version' = version /\ UNCHANGED <<ticked, picked, redrawn>>
    BY <1>1, <2>1 DEF AnalysisTypeOK, analysisVars
  <2>3. QED BY <1>2, <2>1, <2>2, AnalysisSends DEF tabVars
<1>7. CASE ShowRecord
  <2>1. /\ \E key : Send(Only("record", key))
        /\ UNCHANGED <<tabVars, analysisVars>>
    BY <1>7 DEF ShowRecord
  <2>2. AnalysisTypeOK' /\ version' = version /\ UNCHANGED <<ticked, picked, redrawn>>
    BY <1>1, <2>1 DEF AnalysisTypeOK, analysisVars
  <2>3. PICK key : Send(Only("record", key))
    BY <2>1
  <2>4. QED BY <1>2, <2>1, <2>2, <2>3, AnalysisSends DEF tabVars
<1>8. QED BY <1>3, <1>4, <1>5, <1>6, <1>7

\* The clicks that are answered by a toast alone, or read a comparison or a prompt.
LEMMA AnalysisToasts ==
  ASSUME PanelInv, Compare \/ GeneratePrompt \/ CopyPrompt
  PROVE  PanelInv'
<1>1. AnalysisTypeOK /\ ReadsInv /\ VersionAsked
  BY DEF PanelInv
<1>2. {"compare", "prompt"} \subseteq Panels \ OfTabs /\ OfTabs \subseteq Panels
  BY DEF Panels, OfTabs
<1>3. \/ \E text : JustToast(text)
      \/ /\ \E p \in {"compare", "prompt"} : \E key : Send(Only(p, key))
         /\ UNCHANGED <<tabVars, analysisVars>>
  <2>1. CASE Compare
    BY <2>1 DEF Compare
  <2>2. CASE GeneratePrompt
    BY <2>2 DEF GeneratePrompt
  <2>3. CASE CopyPrompt
    BY <2>3 DEF CopyPrompt
  <2>4. QED BY <2>1, <2>2, <2>3
<1>4. CASE \E text : JustToast(text)
  <2>1. UNCHANGED <<readVars, tab, range, auditPage, refreshing, requests, spinner, analysisVars>>
    BY <1>4 DEF JustToast
  <2>2. ReadsInv' /\ asked' = asked
    BY <1>1, <2>1 DEF ReadsInv, CallTypes, CallsInOrder, ErrorsTold, readVars
  <2>3. AnalysisTypeOK' /\ VersionAsked'
    BY <1>1, <2>1, <2>2 DEF AnalysisTypeOK, VersionAsked, analysisVars
  <2>4. QED BY <2>1, <2>2, <2>3, AnalysisStep
<1>5. CASE /\ \E p \in {"compare", "prompt"} : \E key : Send(Only(p, key))
           /\ UNCHANGED <<tabVars, analysisVars>>
  <2>1. PICK p \in {"compare", "prompt"} : \E key : Send(Only(p, key))
    BY <1>5
  <2>2. PICK key : Send(Only(p, key))
    BY <2>1
  <2>3. AnalysisTypeOK' /\ version' = version /\ UNCHANGED <<ticked, picked, redrawn>>
    BY <1>1, <1>5 DEF AnalysisTypeOK, analysisVars
  <2>4. p \in Panels \ OfTabs /\ p # "report"
    BY <1>2
  <2>5. QED BY <1>5, <2>2, <2>3, <2>4, AnalysisSends DEF tabVars
<1>6. QED BY <1>3, <1>4, <1>5

\* The boxes of the table: what is ticked is picked.
LEMMA BoxesStep ==
  ASSUME PanelInv, TickRule \/ ToggleSelectAll
  PROVE  PanelInv'
<1>1. AnalysisTypeOK /\ ReadsInv /\ VersionAsked
  BY DEF PanelInv
<1>2. UNCHANGED <<readVars, tabVars, version, known, table, redrawn>>
  BY DEF TickRule, ToggleSelectAll
<1>3. ReadsInv' /\ asked' = asked
  BY <1>1, <1>2 DEF ReadsInv, CallTypes, CallsInOrder, ErrorsTold, readVars
<1>4. /\ ticked' \subseteq table /\ picked' \subseteq Rules
      /\ ~redrawn => ticked' = picked'
  <2>1. /\ ticked \subseteq table /\ picked \subseteq Rules /\ table \subseteq Rules
        /\ ~redrawn => ticked = picked
    BY <1>1 DEF AnalysisTypeOK, VersionAsked
  <2>2. CASE TickRule
    BY <2>1, <2>2 DEF TickRule
  <2>3. CASE ToggleSelectAll
    BY <2>1, <2>3 DEF ToggleSelectAll
  <2>4. QED BY <2>2, <2>3
<1>5. AnalysisTypeOK' /\ VersionAsked'
  BY <1>1, <1>2, <1>3, <1>4 DEF AnalysisTypeOK, VersionAsked
<1>6. QED BY <1>2, <1>3, <1>5, AnalysisStep DEF tabVars

\* The report, and the other reads of the analysis, are answered or fail.
LEMMA AnalysisAnswers ==
  ASSUME PanelInv, NEW p \in Panels, NEW c \in calls[p],
         ReportAnswered(c) \/ AnalysisAnswered(c) \/ AnalysisFails(c)
  PROVE  PanelInv'
<1>1. /\ AnalysisTypeOK /\ ReadsInv /\ VersionAsked
      /\ c.panel = p /\ DOMAIN drawn = Panels /\ errors = missed \cap Telling
  BY DEF PanelInv, ReadsInv, CallTypes, ErrorsTold
<1>2. CASE ReportAnswered(c)
  <2>1. /\ p = "report" /\ Finish(c)
        /\ \E skipped \in {drawn["skipped"], None} :
             drawn' = [drawn EXCEPT !["report"] = c.key, !["skipped"] = skipped]
        /\ table' \in SUBSET Rules /\ ticked' = {}
        /\ redrawn' = (redrawn \/ picked # {})
        /\ UNCHANGED <<errors, missed, tabVars, version, known, picked>>
    BY <1>1, <1>2 DEF ReportAnswered
  <2>2. /\ DOMAIN drawn' = Panels /\ drawn'["report"] = c.key
        /\ \A q \in Panels \ {p, "skipped"} : drawn'[q] = drawn[q]
    BY <1>1, <2>1
  <2>3. ReadsInv' /\ asked' = asked
    BY <1>1, <2>1, <2>2, EndKeeps
  <2>4. AnalysisTypeOK' /\ VersionAsked'
    BY <1>1, <2>1, <2>3 DEF AnalysisTypeOK, VersionAsked
  <2>5. QED BY <2>1, <2>3, <2>4, AnalysisStep DEF tabVars
<1>3. CASE AnalysisAnswered(c) \/ AnalysisFails(c)
  <2>1. /\ Drawn(c) \/ Failed(c)
        /\ UNCHANGED <<tab, range, auditPage, refreshing, requests, spinner, analysisVars>>
    BY <1>3 DEF AnalysisAnswered, AnalysisFails
  <2>2. ReadsInv' /\ asked' = asked
    BY <1>1, <2>1, AnswersKeep
  <2>3. AnalysisTypeOK' /\ VersionAsked'
    BY <1>1, <2>1, <2>2 DEF AnalysisTypeOK, VersionAsked, analysisVars
  <2>4. QED BY <2>1, <2>2, <2>3, AnalysisStep
<1>4. QED BY <1>2, <1>3

\* Every step of the panels and of the page's sessions keeps their invariant.
LEMMA PanelStepInv ==
  ASSUME PanelInv,
         \/ UNCHANGED panelVars
         \/ (StartPanels \/ StopPanels \/ TabsNext) /\ UNCHANGED analysisVars
         \/ AnalysisNext
  PROVE  PanelInv'
<1>1. CASE UNCHANGED panelVars
  <2>1. UNCHANGED <<readVars, tabVars, analysisVars>>
    BY <1>1 DEF panelVars
  <2>2. ReadsInv' /\ asked' = asked
    BY <2>1 DEF PanelInv, ReadsInv, CallTypes, CallsInOrder, ErrorsTold, readVars
  <2>3. AnalysisTypeOK' /\ VersionAsked'
    BY <2>1, <2>2 DEF PanelInv, AnalysisTypeOK, VersionAsked, analysisVars
  <2>4. QED BY <2>1, <2>2, <2>3, AnalysisStep DEF tabVars
<1>2. CASE AnalysisNext
  <2>1. CASE \E p \in Panels : \E c \in calls[p] :
               VersionsAnswered(c) \/ ReportAnswered(c) \/ AnalysisAnswered(c) \/ AnalysisFails(c)
    BY <2>1, VersionsStep, AnalysisAnswers
  <2>2. CASE \/ ShowAnalysis \/ SelectVersion \/ TickRule \/ ToggleSelectAll \/ ShowViolations
             \/ ShowSkipped \/ ShowRecord \/ Compare \/ GeneratePrompt \/ CopyPrompt
    BY <2>2, AnalysisReads, AnalysisToasts, BoxesStep
  <2>3. QED BY <1>2, <2>1, <2>2 DEF AnalysisNext
<1>3. QED BY <1>1, <1>2, PanelSessions, TabsStep

\* Before anything is read no panel shows anything.
LEMMA PanelInitInv == ReadsInit /\ TabsInit /\ AnalysisInit => PanelInv
<1> SUFFICES ASSUME ReadsInit, TabsInit, AnalysisInit PROVE PanelInv
  OBVIOUS
<1>1. ReadsInv
  <2>1. CallTypes
    BY FS_EmptySet DEF ReadsInit, CallTypes
  <2>2. CallsInOrder /\ ErrorsTold
    BY DEF ReadsInit, CallsInOrder, ErrorsTold
  <2>3. QED BY <2>1, <2>2 DEF ReadsInv
<1>2. TabsTypeOK
  <2>1. auditPage \in 1..MaxPage /\ range \in Ranges
    BY PanelAssumption DEF TabsInit
  <2>2. tab \in Tabs /\ {refreshing, spinner} \subseteq BOOLEAN /\ requests = {}
    BY DEF TabsInit, Tabs
  <2>3. loading \cup errors \cup missed \cup crossed \subseteq Panels
    BY DEF ReadsInit
  <2>4. QED BY <2>1, <2>2, <2>3 DEF TabsTypeOK
<1>3. AnalysisTypeOK /\ VersionAsked
  BY DEF AnalysisInit, AnalysisTypeOK, VersionAsked
<1>4. FrontAsked
  BY DEF TabsInit, FrontAsked
<1>5. QED BY <1>1, <1>2, <1>3, <1>4 DEF PanelInv

\* What the invariant says of the panels in front, and of the analysis.
LEMMA PanelsProved == PanelInv => PanelsShowChosen /\ AnalysisIsOfVersion
<1> SUFFICES ASSUME PanelInv PROVE PanelsShowChosen /\ AnalysisIsOfVersion
  OBVIOUS
<1>1. /\ ReadsInv /\ FrontAsked /\ VersionAsked
      /\ errors = missed \cap Telling
      /\ \A p \in loading \ crossed : calls[p] # {}
      /\ \A p \in Panels \ (crossed \cup missed \cup {"skipped"}) :
           calls[p] = {} => drawn[p] = asked[p]
  BY DEF PanelInv, ReadsInv, ErrorsTold, CallsInOrder
<1>2. InFront \subseteq Panels \ {"skipped"}
  BY FrontNow, FrontIs DEF OfTabs, Panels
<1>3. PanelsShowChosen
  BY <1>1, <1>2 DEF PanelsShowChosen, FrontAsked
<1>4. AnalysisIsOfVersion
  <2>1. {"report", "violations", "prompt", "record", "compare"} \subseteq Panels \ {"skipped"}
    BY DEF Panels
  <2>2. QED BY <1>1, <2>1 DEF AnalysisIsOfVersion, VersionAsked
<1>5. QED BY <1>3, <1>4
-----------------------------------------------------------------------------
(* The Identity Ledger *)

\* A read sent is the newest of its name; the others are as they were.
LEMMA ReadSent ==
  ASSUME LedgerInv, NEW names \in SUBSET Names, LedgerRead(names),
         chosen' \in [Names -> Selections \cup {None}],
         \A name \in Names \ names : chosen'[name] = chosen[name] \/ chosen'[name] = None,
         \A name \in names : chosen'[name] # None,
         RetriedAreChosen', loaded' \in BOOLEAN
  PROVE  LedgerInv'
<1> DEFINE Gen(n) == IF n \in names THEN generation[n] + 1 ELSE generation[n]
           New(n) == [name |-> n, generation |-> generation'[n], asked |-> chosen'[n]]
<1>1. /\ generation \in [Names -> Nat] /\ armed \subseteq Retried /\ building \subseteq Retried
      /\ spinning \subseteq Names /\ failed \subseteq Names
      /\ reads \subseteq [name : Names, generation : Nat, asked : Selections \cup {None}]
      /\ ledger \in [Names -> Selections \cup {None, "building"}]
  BY DEF LedgerInv, LedgerTypeOK
<1>2. /\ generation' = [n \in Names |-> Gen(n)]
      /\ reads' = reads \cup {New(n) : n \in names}
      /\ armed' = armed \ names /\ building' = building /\ ledger' = ledger
      /\ spinning' = spinning \cup names /\ failed' = failed \ names
  BY DEF LedgerRead
<1>3. \A n \in Names : generation'[n] = Gen(n) /\ Gen(n) \in Nat
  BY <1>1, <1>2
<1>4. \A n \in names : /\ New(n) \in [name : Names, generation : Nat,
                                      asked : Selections \cup {None}]
                       /\ New(n).name = n /\ New(n).generation = generation[n] + 1
                       /\ New(n).asked = chosen'[n]
  BY <1>1, <1>3
<1>5. LedgerTypeOK'
  <2>1. generation' \in [Names -> Nat]
    BY <1>1, <1>2
  <2>2. reads' \subseteq [name : Names, generation : Nat, asked : Selections \cup {None}]
    BY <1>1, <1>2, <1>4
  <2>3. QED BY <1>1, <1>2, <2>1, <2>2 DEF LedgerTypeOK
<1>6. ReadsNumbered'
  <2>1. \A read \in reads : read.name \in Names /\ read.generation \in 1..generation[read.name]
    BY <1>1 DEF LedgerInv, ReadsNumbered
  <2>2. ASSUME NEW read \in reads' PROVE read.generation \in 1..generation'[read.name]
    <3>1. CASE read \in reads
      BY <1>1, <1>3, <2>1, <3>1
    <3>2. CASE \E n \in names : read = New(n)
      BY <1>1, <1>3, <1>4, <3>2
    <3>3. QED BY <1>2, <3>1, <3>2
  <2>3. ASSUME NEW r \in reads', NEW q \in reads', r.name = q.name, r.generation = q.generation
        PROVE  r = q
    <3>1. CASE r \in reads /\ q \in reads
      BY <2>3, <3>1 DEF LedgerInv, ReadsNumbered
    <3>2. CASE r \in reads /\ \E n \in names : q = New(n)
      BY <1>1, <1>4, <2>1, <2>3, <3>2
    <3>3. CASE q \in reads /\ \E n \in names : r = New(n)
      BY <1>1, <1>4, <2>1, <2>3, <3>3
    <3>4. CASE (\E n \in names : r = New(n)) /\ (\E n \in names : q = New(n))
      BY <1>4, <2>3, <3>4
    <3>5. QED BY <1>2, <3>1, <3>2, <3>3, <3>4
  <2>4. QED BY <2>2, <2>3 DEF ReadsNumbered
<1>7. \A read \in reads' : Newest(read)' <=> \/ read.name \notin names /\ read \in reads /\ Newest(read)
                                             \/ \E n \in names : read = New(n)
  <2>1. \A read \in reads : /\ read.name \in Names /\ read.generation <= generation[read.name]
                            /\ read.generation \in Nat
    BY <1>1 DEF LedgerInv, ReadsNumbered
  <2>2. ASSUME NEW read \in reads, read.name \in names PROVE ~Newest(read)'
    BY <1>1, <1>3, <2>1, <2>2 DEF Newest
  <2>3. ASSUME NEW read \in reads, read.name \notin names PROVE Newest(read)' <=> Newest(read)
    BY <1>3, <2>1, <2>3 DEF Newest
  <2>4. ASSUME NEW n \in names, NEW read, read = New(n) PROVE Newest(read)'
    <3>1. read.name = n /\ read.generation = generation'[n]
      BY <1>3, <1>4, <2>4
    <3>2. QED BY <3>1 DEF Newest
  <2>5. ASSUME NEW n \in names PROVE New(n) \notin reads
    BY <1>1, <1>4, <2>1, <2>5
  <2>6. QED BY <1>2, <1>4, <2>2, <2>3, <2>4, <2>5
<1>8. \A name \in Names : UnderWay(name)' <=> name \in names \/ UnderWay(name)
  <2>1. ASSUME NEW name \in names PROVE UnderWay(name)'
    <3>1. PICK read : read = New(name)
      OBVIOUS
    <3>2. read \in reads' /\ read.name = name /\ read.generation = generation'[name]
      BY <1>2, <1>4, <3>1, <1>3
    <3>3. Newest(read)'
      BY <3>2 DEF Newest
    <3>4. QED BY <3>2, <3>3 DEF UnderWay
  <2>2. ASSUME NEW name \in Names \ names PROVE UnderWay(name)' <=> UnderWay(name)
    BY <1>2, <1>4, <1>7, <2>2 DEF UnderWay
  <2>3. QED BY <2>1, <2>2
<1>9. NewestAsksChoice'
  <2>1. ASSUME NEW read \in reads', Newest(read)', chosen'[read.name] # None
        PROVE  read.asked = chosen'[read.name]
    <3>1. CASE read.name \notin names /\ read \in reads /\ Newest(read)
      BY <1>1, <2>1, <3>1 DEF LedgerInv, NewestAsksChoice
    <3>2. CASE \E n \in names : read = New(n)
      BY <1>4, <3>2
    <3>3. QED BY <1>7, <2>1, <3>1, <3>2
  <2>2. QED BY <2>1 DEF NewestAsksChoice
<1>10. LedgerShowsChoice'
  <2>1. ASSUME NEW name \in Names
        PROVE  /\ name \in spinning' <=> UnderWay(name)'
               /\ (generation'[name] > 0 /\ ~UnderWay(name)' /\ name \notin failed'
                     /\ chosen'[name] # None)
                    => ledger'[name] \in {chosen'[name], "building"}
    <3>1. /\ name \in spinning <=> UnderWay(name)
          /\ (generation[name] > 0 /\ ~UnderWay(name) /\ name \notin failed
                /\ chosen[name] # None)
               => ledger[name] \in {chosen[name], "building"}
      BY DEF LedgerInv, LedgerShowsChoice
    <3>2. CASE name \in names
      BY <1>2, <1>8, <3>2
    <3>3. CASE name \notin names
      BY <1>2, <1>3, <1>8, <3>1, <3>3
    <3>4. QED BY <3>2, <3>3
  <2>2. QED BY <2>1 DEF LedgerShowsChoice
<1>11. RetryIsOwed'
  <2>1. armed \subseteq building /\ \A name \in building : name \in armed <=> ~UnderWay(name)
    BY DEF LedgerInv, RetryIsOwed
  <2>2. building \subseteq Names
    BY <1>1 DEF Retried, Names
  <2>3. armed' \subseteq building' /\ \A name \in building' : name \in armed' <=> ~UnderWay(name)'
    <3>1. ASSUME NEW name \in armed PROVE name \notin names => name \in building
      BY <2>1, <3>1
    <3>2. armed' \subseteq building'
      BY <1>2, <2>1
    <3>3. ASSUME NEW name \in building PROVE name \in armed' <=> ~UnderWay(name)'
      BY <1>2, <1>8, <2>1, <2>2, <3>3
    <3>4. QED BY <1>2, <3>2, <3>3
  <2>4. QED BY <2>3 DEF RetryIsOwed
<1>12. QED BY <1>5, <1>6, <1>9, <1>10, <1>11 DEF LedgerInv

\* A read that ends: its name has none under way if it was the newest, and nothing else
\* changes for the reads that go on.
LEMMA ReadEnds ==
  ASSUME LedgerInv, NEW read \in reads, reads' = reads \ {read}, generation' = generation,
         chosen' = chosen
  PROVE  /\ ReadsNumbered' /\ NewestAsksChoice' /\ RetriedAreChosen'
         /\ read.name \in Names /\ read.asked \in Selections \cup {None}
         /\ Newest(read) => UnderWay(read.name) /\ ~UnderWay(read.name)'
         /\ ~Newest(read) => (UnderWay(read.name)' <=> UnderWay(read.name))
         /\ \A name \in Names \ {read.name} : UnderWay(name)' <=> UnderWay(name)
<1>1. reads \subseteq [name : Names, generation : Nat, asked : Selections \cup {None}]
  BY DEF LedgerInv, LedgerTypeOK
<1>2. ReadsNumbered'
  BY DEF LedgerInv, ReadsNumbered
<1>3. NewestAsksChoice' /\ RetriedAreChosen'
  BY DEF LedgerInv, NewestAsksChoice, RetriedAreChosen, Newest
<1>4. \A q \in reads : Newest(q)' <=> Newest(q)
  BY DEF Newest
<1>5. \A q \in reads : Newest(q) /\ Newest(read) /\ q.name = read.name => q = read
  BY DEF LedgerInv, ReadsNumbered, Newest
<1>6. QED BY <1>1, <1>2, <1>3, <1>4, <1>5 DEF UnderWay

\* Answered, being built or failed: what the end of the newest read leaves.
LEMMA AnswerKept ==
  ASSUME LedgerInv, NEW read \in reads,
         \/ LedgerAnswered(read) \/ LedgerBuilding(read) \/ LedgerFails(read)
  PROVE  LedgerInv'
<1>1. /\ chosen \in [Names -> Selections \cup {None}] /\ loaded \in BOOLEAN
      /\ generation \in [Names -> Nat]
      /\ reads \subseteq [name : Names, generation : Nat, asked : Selections \cup {None}]
      /\ armed \subseteq Retried /\ building \subseteq Retried
      /\ spinning \subseteq Names /\ failed \subseteq Names
      /\ ledger \in [Names -> Selections \cup {None, "building"}]
      /\ armed \subseteq building /\ \A name \in building : name \in armed <=> ~UnderWay(name)
  BY DEF LedgerInv, LedgerTypeOK, RetryIsOwed
<1>2. /\ reads' = reads \ {read} /\ generation' = generation /\ chosen' = chosen
      /\ loaded' = loaded
  BY DEF LedgerAnswered, LedgerBuilding, LedgerFails
<1>3. /\ ReadsNumbered' /\ NewestAsksChoice' /\ RetriedAreChosen'
      /\ read.name \in Names /\ read.asked \in Selections \cup {None}
      /\ Newest(read) => UnderWay(read.name) /\ ~UnderWay(read.name)'
      /\ ~Newest(read) => (UnderWay(read.name)' <=> UnderWay(read.name))
      /\ \A name \in Names \ {read.name} : UnderWay(name)' <=> UnderWay(name)
  BY <1>2, ReadEnds
<1>4. \A name \in Names :
        /\ name \in spinning <=> UnderWay(name)
        /\ (generation[name] > 0 /\ ~UnderWay(name) /\ name \notin failed /\ chosen[name] # None)
             => ledger[name] \in {chosen[name], "building"}
  BY DEF LedgerInv, LedgerShowsChoice
<1>5. CASE ~Newest(read)
  <2>1. UNCHANGED <<ledger, building, armed, spinning, failed>>
    BY <1>5 DEF LedgerAnswered, LedgerBuilding, LedgerFails
  <2>2. \A name \in Names : UnderWay(name)' <=> UnderWay(name)
    BY <1>3, <1>5
  <2>3. LedgerTypeOK'
    BY <1>1, <1>2, <2>1 DEF LedgerTypeOK
  <2>4. LedgerShowsChoice'
    BY <1>2, <1>4, <2>1, <2>2 DEF LedgerShowsChoice
  <2>5. RetryIsOwed'
    BY <1>1, <2>1, <2>2 DEF RetryIsOwed, Retried, Names
  <2>6. QED BY <1>3, <2>3, <2>4, <2>5 DEF LedgerInv
<1>6. CASE Newest(read)
  <2>0. chosen[read.name] # None => read.asked = chosen[read.name]
    BY <1>6 DEF LedgerInv, NewestAsksChoice
  <2>1. /\ spinning' = spinning \ {read.name}
        /\ \/ /\ ledger' = [ledger EXCEPT ![read.name] = read.asked]
              /\ building' = building \ {read.name} /\ armed' = armed /\ failed' = failed
           \/ /\ ledger' = [ledger EXCEPT ![read.name] = "building"]
              /\ read.name \in Retried
              /\ building' = building \cup {read.name} /\ armed' = armed \cup {read.name}
              /\ failed' = failed
           \/ /\ ledger' = ledger
              /\ building' = building \ {read.name} /\ armed' = armed
              /\ failed' = failed \cup {read.name}
    BY <1>6 DEF LedgerAnswered, LedgerBuilding, LedgerFails
  <2>2. LedgerTypeOK'
    <3>1. /\ ledger' \in [Names -> Selections \cup {None, "building"}]
          /\ armed' \subseteq Retried /\ building' \subseteq Retried
          /\ spinning' \subseteq Names /\ failed' \subseteq Names
      BY <1>1, <1>3, <2>1
    <3>2. reads' \subseteq [name : Names, generation : Nat, asked : Selections \cup {None}]
      BY <1>1, <1>2
    <3>3. QED BY <1>1, <1>2, <3>1, <3>2 DEF LedgerTypeOK
  <2>3. LedgerShowsChoice'
    <3>1. ASSUME NEW name \in Names
          PROVE  /\ name \in spinning' <=> UnderWay(name)'
                 /\ (generation'[name] > 0 /\ ~UnderWay(name)' /\ name \notin failed'
                       /\ chosen'[name] # None)
                      => ledger'[name] \in {chosen'[name], "building"}
      <4>1. CASE name = read.name
        BY <1>1, <1>2, <1>3, <1>6, <2>0, <2>1, <4>1
      <4>2. CASE name # read.name
        BY <1>1, <1>2, <1>3, <1>4, <2>1, <4>2
      <4>3. QED BY <4>1, <4>2
    <3>2. QED BY <3>1 DEF LedgerShowsChoice
  <2>4. RetryIsOwed'
    <3>1. read.name \notin armed
      BY <1>1, <1>3, <1>6
    <3>2. building \subseteq Names
      BY <1>1 DEF Retried, Names
    <3>3. armed' \subseteq building'
      BY <1>1, <2>1, <3>1
    <3>4. ASSUME NEW name \in building' PROVE name \in armed' <=> ~UnderWay(name)'
      <4>1. CASE name = read.name
        BY <1>1, <1>3, <1>6, <2>1, <3>4, <4>1
      <4>2. CASE name # read.name
        BY <1>1, <1>3, <2>1, <3>2, <3>4, <4>2
      <4>3. QED BY <4>1, <4>2
    <3>5. QED BY <3>3, <3>4 DEF RetryIsOwed
  <2>5. QED BY <1>3, <2>2, <2>3, <2>4 DEF LedgerInv
<1>7. QED BY <1>5, <1>6
-----------------------------------------------------------------------------
\* Every step of the tab and of the page's sessions keeps the invariant.
LEMMA LedgerStepInv ==
  ASSUME LedgerInv, StartLedger \/ StopLedger \/ LedgerNext \/ UNCHANGED ledgerVars
  PROVE  LedgerInv'
<1>0. /\ chosen \in [Names -> Selections \cup {None}] /\ loaded \in BOOLEAN
      /\ armed \subseteq Retried /\ RetriedAreChosen
      /\ Retried = {"density", "works"} /\ Names = {"density", "works", "work"}
      /\ \A name \in Retried : chosen[name] # None
      /\ \A c \in Selections : c # None
  BY LedgerAssumption DEF LedgerInv, LedgerTypeOK, RetriedAreChosen, Retried, Names, None
<1>1. CASE UNCHANGED ledgerVars
  BY <1>1 DEF LedgerInv, LedgerTypeOK, ReadsNumbered, NewestAsksChoice, RetriedAreChosen,
     LedgerShowsChoice, RetryIsOwed, UnderWay, Newest, ledgerVars
<1>2. CASE StartLedger
  BY <1>2 DEF StartLedger, LedgerInv, LedgerTypeOK, ReadsNumbered, NewestAsksChoice,
     RetriedAreChosen, LedgerShowsChoice, RetryIsOwed, UnderWay, Newest
<1>3. CASE StopLedger
  BY <1>3 DEF StopLedger, LedgerInv, LedgerTypeOK, ReadsNumbered, NewestAsksChoice,
     RetriedAreChosen, LedgerShowsChoice, RetryIsOwed, UnderWay, Newest
<1>4. CASE LoadLedger
  <2>1. PICK names \in {Retried, Names} : /\ LedgerRead(names)
                                          /\ names = Names => chosen["work"] # None
    BY <1>0, <1>4 DEF LoadLedger
  <2>2. chosen' = chosen /\ loaded' \in BOOLEAN /\ RetriedAreChosen'
    BY <1>0, <1>4 DEF LoadLedger, RetriedAreChosen
  <2>3. names \subseteq Names /\ \A name \in names : chosen'[name] # None
    BY <1>0, <2>1, <2>2
  <2>4. QED BY <1>0, <2>1, <2>2, <2>3, ReadSent
<1>5. CASE ChooseLedger
  <2>1. PICK name \in Retried, c \in Selections :
          chosen' = [chosen EXCEPT ![name] = c] /\ LedgerRead({name}) /\ loaded' = loaded
    BY <1>5 DEF ChooseLedger
  <2>2. /\ chosen' \in [Names -> Selections \cup {None}] /\ chosen'[name] # None
        /\ \A n \in Names \ {name} : chosen'[n] = chosen[n]
        /\ {name} \subseteq Names
    BY <1>0, <2>1
  <2>3. RetriedAreChosen'
    BY <1>0, <2>2 DEF RetriedAreChosen
  <2>4. QED BY <1>0, <2>1, <2>2, <2>3, ReadSent
<1>6. CASE OpenLedgerWork
  <2>1. PICK c \in Selections : chosen' = [chosen EXCEPT !["work"] = c]
    BY <1>6 DEF OpenLedgerWork
  <2>2. LedgerRead({"work"}) /\ loaded' = loaded
    BY <1>6 DEF OpenLedgerWork
  <2>3. /\ chosen' \in [Names -> Selections \cup {None}] /\ chosen'["work"] # None
        /\ \A n \in Names \ {"work"} : chosen'[n] = chosen[n]
        /\ {"work"} \subseteq Names
    BY <1>0, <2>1
  <2>4. RetriedAreChosen'
    BY <1>0, <2>3 DEF RetriedAreChosen
  <2>5. QED BY <1>0, <2>2, <2>3, <2>4, ReadSent
<1>7. CASE CloseLedgerWork
  <2>1. /\ chosen' = [chosen EXCEPT !["work"] = None]
        /\ UNCHANGED <<loaded, generation, reads, armed, building, spinning, failed, ledger>>
    BY <1>7 DEF CloseLedgerWork
  <2>2. /\ chosen' \in [Names -> Selections \cup {None}] /\ chosen'["work"] = None
        /\ \A n \in Names \ {"work"} : chosen'[n] = chosen[n]
    BY <1>0, <2>1
  <2>3. \A read \in reads : read.name \in Names /\ (Newest(read)' <=> Newest(read))
    BY <2>1 DEF LedgerInv, LedgerTypeOK, Newest
  <2>4. \A name \in Names : UnderWay(name)' <=> UnderWay(name)
    BY <2>1, <2>3 DEF UnderWay
  <2>5. LedgerTypeOK' /\ ReadsNumbered'
    BY <2>1, <2>2 DEF LedgerInv, LedgerTypeOK, ReadsNumbered
  <2>6. NewestAsksChoice' /\ RetriedAreChosen'
    BY <1>0, <2>1, <2>2, <2>3 DEF LedgerInv, NewestAsksChoice, RetriedAreChosen
  <2>7. LedgerShowsChoice'
    BY <2>1, <2>2, <2>4 DEF LedgerInv, LedgerShowsChoice
  <2>8. RetryIsOwed'
    <3>1. building \subseteq Names
      BY <1>0 DEF LedgerInv, LedgerTypeOK
    <3>2. QED BY <2>1, <2>4, <3>1 DEF LedgerInv, RetryIsOwed
  <2>9. QED BY <2>5, <2>6, <2>7, <2>8 DEF LedgerInv
<1>8. CASE RetryLedger
  <2>1. PICK name \in armed : LedgerRead({name})
    BY <1>8 DEF RetryLedger
  <2>2. chosen' = chosen /\ loaded' = loaded
    BY <1>8 DEF RetryLedger
  <2>3. {name} \subseteq Names /\ chosen'[name] # None /\ RetriedAreChosen'
    BY <1>0, <2>1, <2>2 DEF RetriedAreChosen
  <2>4. QED BY <1>0, <2>1, <2>2, <2>3, ReadSent
<1>9. CASE \E read \in reads : LedgerAnswered(read) \/ LedgerBuilding(read) \/ LedgerFails(read)
  BY <1>9, AnswerKept
<1>10. QED
  BY <1>1, <1>2, <1>3, <1>4, <1>5, <1>6, <1>7, <1>8, <1>9
  DEF LedgerNext, ShowLedger, RefreshLedger

\* Before the tab is shown nothing has been read.
LEMMA LedgerInitInv == LedgerInit => LedgerInv
<1> SUFFICES ASSUME LedgerInit PROVE LedgerInv
  OBVIOUS
<1>1. /\ chosen = [name \in Names |-> IF name = "work" THEN None ELSE FirstSelection]
      /\ generation = [name \in Names |-> 0] /\ ledger = [name \in Names |-> None]
      /\ loaded = FALSE /\ reads = {}
      /\ armed = {} /\ building = {} /\ spinning = {} /\ failed = {}
  BY DEF LedgerInit
<1>2. FirstSelection \in Selections /\ FirstSelection # None
  BY LedgerAssumption DEF None
<1>3. /\ chosen \in [Names -> Selections \cup {None}]
      /\ generation \in [Names -> Nat]
      /\ ledger \in [Names -> Selections \cup {None, "building"}]
  BY <1>1, <1>2
<1>4. LedgerTypeOK
  BY <1>1, <1>3 DEF LedgerTypeOK
<1>5. ReadsNumbered /\ NewestAsksChoice /\ RetryIsOwed
  BY <1>1 DEF ReadsNumbered, NewestAsksChoice, RetryIsOwed
<1>6. RetriedAreChosen
  BY <1>1, <1>2 DEF RetriedAreChosen, Retried, Names
<1>7. LedgerShowsChoice
  BY <1>1 DEF LedgerShowsChoice, UnderWay
<1>8. QED BY <1>4, <1>5, <1>6, <1>7 DEF LedgerInv
-----------------------------------------------------------------------------
(* The activity log: what each entry tells of, and what a connection has told *)

Events == [time : Nat, what : Nat]
Actions == [time : Nat, what : Nat, kind : Kinds]
LogEntries == [time : Nat, what : Nat, source : {"server", "audit", "local"}]

\* The entries of a log tell of different things.
Apart(log) == \A i, j \in DOMAIN log : i # j => log[i].what # log[j].what
NewestFirst(log) == \A i, j \in DOMAIN log : i < j => log[i].time >= log[j].time

\* Whatever happens is one thing, an event of the server or an action of an operator.
EachIsOne ==
  /\ happened \in Nat
  /\ events \in Seq(Events) /\ actions \in Seq(Actions)
  /\ \A i \in DOMAIN events : events[i].time \in Stamps /\ events[i].what \in 1..happened
  /\ \A i \in DOMAIN actions : actions[i].time \in Stamps /\ actions[i].what \in 1..happened
  /\ Apart(events) /\ Apart(actions)
  /\ \A i \in DOMAIN events, j \in DOMAIN actions : events[i].what # actions[j].what

\* The log is newest first, within its limit and tells nothing twice, and an entry of what is an
\* event or an action says so.
LogOrdered ==
  /\ activityLog \in Seq(LogEntries) /\ Len(activityLog) <= MaxLog
  /\ NewestFirst(activityLog) /\ Apart(activityLog)
  /\ \A e \in ToSet(activityLog) :
       /\ e.time \in Stamps /\ e.what \in 1..happened
       /\ \A i \in DOMAIN events : e.what = events[i].what => e.source = "server"
       /\ \A i \in DOMAIN actions : e.what = actions[i].what => e.source = "audit"
       /\ session = 0 => e.source = "local"

\* While a connection is open the numbers the log has seen are the server's own, the entries of
\* the server are those up to the last one seen, and what comes a second time was told before.
FeedTold ==
  /\ linked \in BOOLEAN /\ lastEventId \in Nat /\ nextEvent \in Nat \ {0}
  /\ trimmed \in {0} \cup Stamps
  /\ \A x \in delivered : x.time \in Stamps /\ x.what \in 1..happened
  /\ linked =>
       /\ session # 0 /\ lastEventId <= Len(events)
       /\ \A e \in ToSet(activityLog) : e.source = "server" =>
            \E i \in 1..lastEventId : e.what = events[i].what
       /\ \A i \in nextEvent..lastEventId : events[i] \in delivered
       /\ \A x \in delivered : x.time > trimmed => Entry(x, "server") \in ToSet(activityLog)

\* Polls of the audit log are those of sessions that have begun.
AuditPollsBegun == \A poll \in auditPolls : poll.session \in 1..begun /\ poll.from \in 0..happened

\* The inductive invariant of the log.
LogInv == EachIsOne /\ LogOrdered /\ FeedTold /\ AuditPollsBegun

\* The places of D in a total order: what goes before each.
Orders(before, D) ==
  /\ before \in [D -> SUBSET D]
  /\ \A i \in D : i \notin before[i]
  /\ \A i \in D : \A j \in before[i] : before[j] \subseteq before[i]
  /\ \A i, j \in D : i # j => i \in before[j] \/ j \in before[i]

\* Among finitely many places in a total order, each has its rank: the number of those before it
\* and one.
LEMMA Ranked ==
  ASSUME NEW D, IsFiniteSet(D), NEW before, Orders(before, D)
  PROVE  /\ Cardinality(D) \in Nat
         /\ \A i \in D : 1 + Cardinality(before[i]) \in 1..Cardinality(D)
         /\ \A i, j \in D : j \in before[i] => Cardinality(before[j]) < Cardinality(before[i])
         /\ \A i, j \in D : Cardinality(before[j]) = Cardinality(before[i]) => i = j
         /\ \A k \in 1..Cardinality(D) : \E i \in D : 1 + Cardinality(before[i]) = k
<1> DEFINE n == Cardinality(D)
           rank(i) == 1 + Cardinality(before[i])
<1>0. /\ before \in [D -> SUBSET D]
      /\ \A i \in D : i \notin before[i]
      /\ \A i \in D : \A j \in before[i] : before[j] \subseteq before[i]
      /\ \A i, j \in D : i # j => i \in before[j] \/ j \in before[i]
  BY DEF Orders
<1>1. n \in Nat
  BY FS_CardinalityType
<1>2. \A i \in D : IsFiniteSet(before[i]) /\ Cardinality(before[i]) \in Nat
  <2> TAKE i \in D
  <2>1. before[i] \in SUBSET D
    BY <1>0
  <2>2. IsFiniteSet(before[i])
    BY <2>1, FS_Subset
  <2>3. QED BY <2>2, FS_CardinalityType
<1>3. \A i \in D : rank(i) \in 1..n
  <2> TAKE i \in D
  <2>1. before[i] \subseteq D /\ before[i] # D
    BY <1>0
  <2>2. Cardinality(before[i]) <= n /\ Cardinality(before[i]) # n
    BY <2>1, FS_Subset
  <2> HIDE DEF n
  <2>3. QED BY <1>1, <1>2, <2>2
<1>4. \A i, j \in D : j \in before[i] => Cardinality(before[j]) < Cardinality(before[i])
  <2> SUFFICES ASSUME NEW i \in D, NEW j \in before[i]
               PROVE  Cardinality(before[j]) < Cardinality(before[i])
    OBVIOUS
  <2>1. j \in D
    BY <1>0
  <2>2. before[j] \subseteq before[i] /\ j \notin before[j]
    BY <1>0, <2>1
  <2>3. before[j] # before[i]
    BY <2>2
  <2>4. IsFiniteSet(before[i]) /\ Cardinality(before[i]) \in Nat /\ Cardinality(before[j]) \in Nat
    BY <1>2, <2>1
  <2>5. before[j] \in SUBSET before[i]
    BY <2>2
  <2>6. /\ Cardinality(before[j]) <= Cardinality(before[i])
        /\ Cardinality(before[j]) # Cardinality(before[i])
    BY <2>3, <2>4, <2>5, FS_Subset
  <2>7. QED BY <2>4, <2>6
<1>5. \A i, j \in D : Cardinality(before[j]) = Cardinality(before[i]) => i = j
  BY <1>0, <1>2, <1>4
<1>6. \A k \in 1..n : \E i \in D : rank(i) = k
  <2> DEFINE f == [i \in D |-> rank(i)]
  <2>1. f \in Injection(D, 1..n)
    <3>1. f \in [D -> 1..n]
      BY <1>3
    <3>2. \A i, j \in D : f[i] = f[j] => i = j
      BY <1>2, <1>5
    <3>3. QED BY <3>1, <3>2, Fun_IsInj
  <2>2. IsFiniteSet(1..n) /\ Cardinality(1..n) = n
    BY <1>1, FS_Interval
  <2>3. f \in Surjection(D, 1..n)
    BY <2>1, <2>2, FS_Injection
  <2>4. QED BY <2>3 DEF Surjection
<1>7. QED BY <1>1, <1>3, <1>4, <1>5, <1>6

\* A listing has every entry at the rank of its place, and nothing else.
LEMMA ListedIs ==
  ASSUME NEW D, IsFiniteSet(D), NEW before, Orders(before, D), NEW log, NEW L,
         L = Listed(log, before)
  PROVE  /\ Cardinality(D) \in Nat
         /\ L = [k \in 1..Cardinality(D) |-> L[k]]
         /\ \A i \in D : /\ 1 + Cardinality(before[i]) \in 1..Cardinality(D)
                         /\ L[1 + Cardinality(before[i])] = log[i]
         /\ \A k \in 1..Cardinality(D) :
              \E i \in D : L[k] = log[i] /\ 1 + Cardinality(before[i]) = k
<1>1. DOMAIN before = D
  BY DEF Orders
<1>2. /\ Cardinality(D) \in Nat
      /\ \A i \in D : 1 + Cardinality(before[i]) \in 1..Cardinality(D)
      /\ \A i, j \in D : Cardinality(before[j]) = Cardinality(before[i]) => i = j
      /\ \A k \in 1..Cardinality(D) : \E i \in D : 1 + Cardinality(before[i]) = k
  BY Ranked
<1>3. \A i \in D : Cardinality(before[i]) \in Nat
  <2> TAKE i \in D
  <2>1. before[i] \in SUBSET D
    BY DEF Orders
  <2>2. QED BY <2>1, FS_Subset, FS_CardinalityType
<1>4. L = [k \in 1..Cardinality(D) |->
             log[CHOOSE i \in D : 1 + Cardinality(before[i]) = k]]
  BY <1>1 DEF Listed
<1>5. ASSUME NEW i \in D, NEW k \in 1..Cardinality(D), 1 + Cardinality(before[i]) = k
      PROVE  L[k] = log[i]
  <2> DEFINE j == CHOOSE m \in D : 1 + Cardinality(before[m]) = k
  <2>1. j \in D /\ 1 + Cardinality(before[j]) = k
    BY <1>5
  <2> HIDE DEF j
  <2>2. i = j
    BY <1>2, <1>3, <1>5, <2>1
  <2>3. L[k] = log[j]
    BY <1>4 DEF j
  <2>4. QED BY <2>2, <2>3
<1>6. QED BY <1>2, <1>4, <1>5

\* What a filter leaves is the entries at the places kept, each of them once.
LEMMA FilteredIs ==
  ASSUME NEW S, NEW log \in Seq(S), NEW kept \in SUBSET DOMAIN log
  PROVE  LET F == Filtered(log, kept)
         IN  /\ F \in Seq(S)
             /\ \A k, l \in DOMAIN F : k # l =>
                  \E i, j \in kept : i # j /\ F[k] = log[i] /\ F[l] = log[j]
             /\ \A k \in DOMAIN F : \E i \in kept : F[k] = log[i]
             /\ \A i \in kept : \E k \in DOMAIN F : F[k] = log[i]
<1> DEFINE F == Filtered(log, kept)
           before == [i \in kept |-> {j \in kept : j < i}]
           n == Cardinality(kept)
<1>1. kept \subseteq Int /\ IsFiniteSet(kept) /\ \A i \in kept : log[i] \in S
  <2>1. DOMAIN log = 1..Len(log) /\ Len(log) \in Nat /\ \A i \in 1..Len(log) : log[i] \in S
    OBVIOUS
  <2>2. IsFiniteSet(1..Len(log))
    BY <2>1, FS_Interval
  <2>3. QED BY <2>1, <2>2, FS_Subset
<1>2. Orders(before, kept)
  BY <1>1 DEF Orders
<1>3. F = Listed(log, before)
  BY DEF Filtered
<1> HIDE DEF before, F
<1>4. /\ n \in Nat
      /\ F = [k \in 1..n |-> F[k]]
      /\ \A i \in kept : 1 + Cardinality(before[i]) \in 1..n /\ F[1 + Cardinality(before[i])] = log[i]
      /\ \A k \in 1..n : \E i \in kept : F[k] = log[i] /\ 1 + Cardinality(before[i]) = k
  BY <1>1, <1>2, <1>3, ListedIs
<1> HIDE DEF n
<1>5. DOMAIN F = 1..n
  BY <1>4
<1>6. \A k \in 1..n : F[k] \in S
  BY <1>1, <1>4
<1>7. F \in Seq(S)
  BY <1>4, <1>6
<1>8. /\ F \in Seq(S)
      /\ \A k, l \in DOMAIN F : k # l => \E i, j \in kept : i # j /\ F[k] = log[i] /\ F[l] = log[j]
      /\ \A k \in DOMAIN F : \E i \in kept : F[k] = log[i]
      /\ \A i \in kept : \E k \in DOMAIN F : F[k] = log[i]
  BY <1>4, <1>5, <1>7
<1>9. QED BY <1>8 DEF F

\* L has the entries of log newest first, each once.
Sorts(L, log) ==
  /\ L \in Seq(LogEntries) /\ Len(L) = Len(log)
  /\ \A k, l \in 1..Len(L) : k < l => L[k].time >= L[l].time
  /\ \A k, l \in 1..Len(L) : k # l =>
       \E i, j \in DOMAIN log : i # j /\ L[k] = log[i] /\ L[l] = log[j]
  /\ \A k \in 1..Len(L) : \E i \in DOMAIN log : L[k] = log[i]
  /\ \A i \in DOMAIN log : \E k \in 1..Len(L) : L[k] = log[i]

\* A log that is sorted is newest first, and has each entry once.
LEMMA SortedIs ==
  ASSUME NEW log \in Seq(LogEntries), NEW L, L = Sorted(log)
  PROVE  Sorts(L, log)
<1> DEFINE D == 1..Len(log)
           before == [i \in DOMAIN log |->
             {j \in DOMAIN log : \/ log[j].time > log[i].time
                                 \/ log[j].time = log[i].time /\ j < i}]
<1>1. DOMAIN log = D /\ Len(log) \in Nat /\ \A i \in D : log[i] \in LogEntries /\ log[i].time \in Nat
  <2>1. DOMAIN log = D /\ Len(log) \in Nat /\ \A i \in D : log[i] \in LogEntries
    OBVIOUS
  <2>2. QED BY <2>1 DEF LogEntries
<1>2. IsFiniteSet(D) /\ Cardinality(D) = Len(log) /\ D \subseteq Nat
  <2>1. PICK n \in Nat : n = Len(log)
    BY <1>1
  <2>2. IsFiniteSet(1..n) /\ Cardinality(1..n) = n
    BY FS_Interval
  <2>3. QED BY <2>1, <2>2
<1>3. /\ before \in [D -> SUBSET D]
      /\ \A i, j \in D : j \in before[i] <=> \/ log[j].time > log[i].time
                                             \/ log[j].time = log[i].time /\ j < i
  BY <1>1
<1>4. L = Listed(log, before)
  BY DEF Sorted
<1> HIDE DEF before, D
<1>5. Orders(before, D)
  <2>1. \A i \in D : i \notin before[i]
    BY <1>1, <1>2, <1>3
  <2>2. \A i \in D : \A j \in before[i] : before[j] \subseteq before[i]
    <3>1. ASSUME NEW i \in D, NEW j \in before[i], NEW m \in before[j] PROVE m \in before[i]
      <4>1. j \in D
        BY <1>3
      <4>2. m \in D
        BY <1>3, <4>1
      <4>3. /\ log[j].time > log[i].time \/ (log[j].time = log[i].time /\ j < i)
            /\ log[m].time > log[j].time \/ (log[m].time = log[j].time /\ m < j)
        BY <1>3, <4>1, <4>2
      <4>4. /\ log[i].time \in Nat /\ log[j].time \in Nat /\ log[m].time \in Nat
            /\ i \in Nat /\ j \in Nat /\ m \in Nat
        BY <1>1, <1>2, <4>1, <4>2
      <4>5. log[m].time > log[i].time \/ (log[m].time = log[i].time /\ m < i)
        BY <4>3, <4>4
      <4>6. QED BY <1>3, <4>2, <4>5
    <3>2. QED BY <3>1
  <2>3. \A i, j \in D : i # j => i \in before[j] \/ j \in before[i]
    BY <1>1, <1>2, <1>3
  <2>4. QED BY <1>3, <2>1, <2>2, <2>3 DEF Orders
<1>6. /\ L = [k \in 1..Len(log) |-> L[k]]
      /\ \A i \in D : 1 + Cardinality(before[i]) \in 1..Len(log) /\ L[1 + Cardinality(before[i])] = log[i]
      /\ \A k \in 1..Len(log) : \E i \in D : L[k] = log[i] /\ 1 + Cardinality(before[i]) = k
      /\ \A i, j \in D : j \in before[i] => Cardinality(before[j]) < Cardinality(before[i])
  <2>1. \A i, j \in D : j \in before[i] => Cardinality(before[j]) < Cardinality(before[i])
    BY <1>2, <1>5, Ranked
  <2>2. /\ L = [k \in 1..Cardinality(D) |-> L[k]]
        /\ \A i \in D : /\ 1 + Cardinality(before[i]) \in 1..Cardinality(D)
                        /\ L[1 + Cardinality(before[i])] = log[i]
        /\ \A k \in 1..Cardinality(D) :
             \E i \in D : L[k] = log[i] /\ 1 + Cardinality(before[i]) = k
    BY <1>2, <1>4, <1>5, ListedIs
  <2>3. QED BY <1>2, <2>1, <2>2
<1>7. L \in Seq(LogEntries) /\ Len(L) = Len(log)
  <2>1. \A k \in 1..Len(log) : L[k] \in LogEntries
    BY <1>1, <1>6
  <2>2. QED BY <1>1, <1>6, <2>1
<1>8. \A i \in D : Cardinality(before[i]) \in Nat
  <2> TAKE i \in D
  <2>1. before[i] \in SUBSET D
    BY <1>3
  <2>2. QED BY <1>2, <2>1, FS_Subset, FS_CardinalityType
<1>9. \A k, l \in 1..Len(log) : k < l => L[k].time >= L[l].time
  <2> SUFFICES ASSUME NEW k \in 1..Len(log), NEW l \in 1..Len(log), k < l
               PROVE  L[k].time >= L[l].time
    OBVIOUS
  <2>1. PICK i \in D : L[k] = log[i] /\ 1 + Cardinality(before[i]) = k
    BY <1>6
  <2>2. PICK j \in D : L[l] = log[j] /\ 1 + Cardinality(before[j]) = l
    BY <1>6
  <2>3. Cardinality(before[i]) \in Nat /\ Cardinality(before[j]) \in Nat
    BY <1>8
  <2>4. i # j /\ i \in before[j]
    BY <1>5, <1>6, <2>1, <2>2, <2>3 DEF Orders
  <2>5. log[i].time \in Nat /\ log[j].time \in Nat
    BY <1>1
  <2>6. QED BY <1>3, <2>1, <2>2, <2>4, <2>5
<1>10. \A k, l \in 1..Len(log) : k # l =>
         \E i, j \in D : i # j /\ L[k] = log[i] /\ L[l] = log[j]
  <2> SUFFICES ASSUME NEW k \in 1..Len(log), NEW l \in 1..Len(log), k # l
               PROVE  \E i, j \in D : i # j /\ L[k] = log[i] /\ L[l] = log[j]
    OBVIOUS
  <2>1. PICK i \in D : L[k] = log[i] /\ 1 + Cardinality(before[i]) = k
    BY <1>6
  <2>2. PICK j \in D : L[l] = log[j] /\ 1 + Cardinality(before[j]) = l
    BY <1>6
  <2>3. QED BY <2>1, <2>2
<1>11. \A k \in 1..Len(log) : \E i \in D : L[k] = log[i]
  BY <1>6
<1>12. \A i \in D : \E k \in 1..Len(log) : L[k] = log[i]
  BY <1>6
<1>13. QED BY <1>1, <1>7, <1>9, <1>10, <1>11, <1>12 DEF Sorts

\* A log that is sorted and cut keeps every entry newer than the oldest a cut left.
LEMMA Logged ==
  ASSUME NEW entries \in Seq(LogEntries), Log(entries), trimmed \in Nat,
         Apart(entries)
  PROVE  /\ activityLog' \in Seq(LogEntries) /\ Len(activityLog') <= MaxLog
         /\ NewestFirst(activityLog)' /\ Apart(activityLog)'
         /\ ToSet(activityLog') \subseteq ToSet(entries)
         /\ trimmed' \in Nat /\ trimmed' >= trimmed
         /\ trimmed' = trimmed \/ \E e \in ToSet(activityLog') : trimmed' = e.time
         /\ \A e \in ToSet(entries) : e.time > trimmed' => e \in ToSet(activityLog')
<1>1. PICK L : L = Sorted(entries)
  OBVIOUS
<1>2. \A x \in LogEntries : x.time \in Nat
  BY DEF LogEntries
<1>3. PICK m \in Nat : m = Len(entries)
  OBVIOUS
<1>4. PICK n : n = (IF m > MaxLog THEN MaxLog ELSE m)
  OBVIOUS
<1>5. n \in Nat /\ n <= m /\ n <= MaxLog /\ MaxLog \in Nat /\ MaxLog >= 1
  BY <1>3, <1>4, LogAssumption
<1>6. /\ L \in Seq(LogEntries) /\ Len(L) = m
      /\ \A k, l \in 1..m : k < l => L[k].time >= L[l].time
      /\ \A k \in 1..m : \E i \in DOMAIN entries : L[k] = entries[i]
      /\ \A i \in DOMAIN entries : \E k \in 1..m : L[k] = entries[i]
  <2>1. /\ L \in Seq(LogEntries) /\ Len(L) = Len(entries)
        /\ \A k, l \in 1..Len(L) : k < l => L[k].time >= L[l].time
        /\ \A k \in 1..Len(L) : \E i \in DOMAIN entries : L[k] = entries[i]
        /\ \A i \in DOMAIN entries : \E k \in 1..Len(L) : L[k] = entries[i]
    <3>1. Sorts(L, entries)
      BY <1>1, SortedIs
    <3>2. QED BY <3>1 DEF Sorts
  <2>2. Len(L) = m
    BY <1>3, <2>1
  <2>3. QED BY <2>1, <2>2
<1>7. /\ activityLog' \in Seq(LogEntries) /\ Len(activityLog') = n
      /\ DOMAIN activityLog' = 1..n /\ \A k \in 1..n : activityLog'[k] = L[k]
  <2>1. activityLog' = SubSeq(L, 1, n)
    BY <1>1, <1>4, <1>6 DEF Log, Trim, Cut
  <2>2. L \in Seq(LogEntries) /\ Len(L) = m
    BY <1>6
  <2>3. QED BY <1>5, <2>1, <2>2
<1>8. \A k \in 1..m : L[k] \in LogEntries /\ L[k].time \in Nat
  BY <1>2, <1>6
<1>9. \A k \in 1..n : k \in 1..m
  BY <1>5
<1>10. /\ activityLog' \in Seq(LogEntries) /\ Len(activityLog') <= MaxLog
       /\ NewestFirst(activityLog)' /\ Apart(activityLog)'
       /\ ToSet(activityLog') \subseteq ToSet(entries)
  <2>1. \A k, l \in 1..n : k < l => L[k].time >= L[l].time
    BY <1>6, <1>9
  <2>2. \A k \in 1..n : \E i \in DOMAIN entries : L[k] = entries[i]
    BY <1>6, <1>9
  <2>3. NewestFirst(activityLog)'
    BY <1>7, <2>1 DEF NewestFirst
  <2>4. ToSet(activityLog') \subseteq ToSet(entries)
    BY <1>7, <2>2 DEF ToSet
  <2>5. \A k, l \in 1..n : k # l => L[k].what # L[l].what
    <3> SUFFICES ASSUME NEW k \in 1..n, NEW l \in 1..n, k # l PROVE L[k].what # L[l].what
      OBVIOUS
    <3>1. k \in 1..Len(L) /\ l \in 1..Len(L)
      BY <1>6, <1>9
    <3>2. \A x, y \in 1..Len(L) : x # y =>
            \E i, j \in DOMAIN entries : i # j /\ L[x] = entries[i] /\ L[y] = entries[j]
      <4>1. Sorts(L, entries)
        BY <1>1, SortedIs
      <4>2. QED BY <4>1 DEF Sorts
    <3>3. PICK i \in DOMAIN entries, j \in DOMAIN entries :
            i # j /\ L[k] = entries[i] /\ L[l] = entries[j]
      BY <3>1, <3>2
    <3>4. QED BY <3>3 DEF Apart
  <2>6. Apart(activityLog)'
    BY <1>7, <2>5 DEF Apart
  <2>7. QED BY <1>5, <1>7, <2>3, <2>4, <2>6
<1>11. CASE m <= MaxLog
  <2>1. n = m /\ trimmed' = trimmed
    BY <1>3, <1>4, <1>5, <1>11 DEF Log
  <2>2. ToSet(entries) \subseteq ToSet(activityLog')
    <3>1. \A i \in DOMAIN entries : \E k \in DOMAIN activityLog' : activityLog'[k] = entries[i]
      BY <1>6, <1>7, <2>1
    <3>2. QED BY <3>1 DEF ToSet
  <2>3. QED BY <1>10, <2>1, <2>2
<1>12. CASE ~(m <= MaxLog)
  <2> DEFINE T == {e.time : e \in ToSet(activityLog')}
             low == L[n].time
  <2>1. n = MaxLog /\ n \in 1..n /\ n \in 1..m /\ low \in Nat
    BY <1>4, <1>5, <1>8, <1>12
  <2>2. T = {L[k].time : k \in 1..n}
    BY <1>7 DEF ToSet
  <2>3. \A k \in 1..m : k <= n => low <= L[k].time
    <3>1. ASSUME NEW k \in 1..m, k <= n PROVE low <= L[k].time
      <4>1. CASE k = n
        BY <2>1, <4>1
      <4>2. CASE k < n
        <5>1. L[k].time >= low
          BY <1>6, <2>1, <4>2
        <5>2. L[k].time \in Nat
          BY <1>8
        <5> HIDE DEF low
        <5>3. QED BY <2>1, <5>1, <5>2
      <4>3. QED BY <2>1, <3>1, <4>1, <4>2
    <3>2. QED BY <3>1
  <2>4. \A k \in 1..m : n < k => L[k].time <= low
    BY <1>6, <1>8, <2>1
  <2>5. low \in T /\ \A t \in T : t \in Nat /\ low <= t
    <3>1. \A k \in 1..n : L[k].time \in Nat /\ low <= L[k].time
      BY <1>8, <1>9, <2>3
    <3> HIDE DEF T
    <3>2. QED BY <2>1, <2>2, <3>1
  <2>6. Min(T) = low
    <3> HIDE DEF T, low
    <3>1. Min(T) \in T /\ \A t \in T : Min(T) <= t
      BY <2>5 DEF Min
    <3>2. Min(T) \in Nat /\ Min(T) <= low /\ low <= Min(T)
      BY <2>5, <3>1
    <3>3. QED BY <2>1, <3>2
  <2>7. trimmed' = Max({trimmed, low})
    BY <1>3, <1>12, <2>6 DEF Log
  <2> HIDE DEF T, low
  <2>8. trimmed' \in {trimmed, low} /\ trimmed' >= trimmed /\ trimmed' >= low
    <3>1. \E x \in {trimmed, low} : \A y \in {trimmed, low} : x >= y
      BY <2>1
    <3>2. /\ Max({trimmed, low}) \in {trimmed, low}
          /\ \A y \in {trimmed, low} : Max({trimmed, low}) >= y
      BY <3>1 DEF Max
    <3>3. QED BY <2>7, <3>2
  <2>9. ASSUME NEW i \in DOMAIN entries, entries[i].time > trimmed'
        PROVE  \E k \in DOMAIN activityLog' : activityLog'[k] = entries[i]
    <3>1. PICK k \in 1..m : L[k] = entries[i]
      BY <1>6
    <3>2. L[k].time \in Nat /\ L[k].time > trimmed'
      BY <1>8, <2>9, <3>1
    <3>3. ~(L[k].time <= low)
      BY <2>1, <2>8, <3>2
    <3>4. k <= n
      BY <1>5, <2>4, <3>3
    <3>5. k \in DOMAIN activityLog' /\ activityLog'[k] = L[k]
      BY <1>5, <1>7, <3>4
    <3>6. QED BY <3>1, <3>5
  <2>10. trimmed' \in Nat
    BY <2>1, <2>8
  <2>11. trimmed' = trimmed \/ \E e \in ToSet(activityLog') : trimmed' = e.time
    BY <1>7, <2>1, <2>8 DEF low, ToSet
  <2>12. \A e \in ToSet(entries) : e.time > trimmed' => e \in ToSet(activityLog')
    BY <2>9 DEF ToSet
  <2>13. QED BY <1>10, <2>8, <2>10, <2>11, <2>12
<1>13. QED BY <1>11, <1>12

\* Two parts of a log that tell of different things make a log that does.
LEMMA BothApart ==
  ASSUME NEW S, NEW A \in Seq(S), NEW B \in Seq(S), Apart(A), Apart(B),
         \A a \in ToSet(A), b \in ToSet(B) : a.what # b.what
  PROVE  /\ A \o B \in Seq(S) /\ Apart(A \o B)
         /\ ToSet(A \o B) = ToSet(A) \cup ToSet(B)
<1>1. /\ Len(A) \in Nat /\ Len(B) \in Nat
      /\ DOMAIN A = 1..Len(A) /\ DOMAIN B = 1..Len(B)
  OBVIOUS
<1>2. PICK C : C = A \o B
  OBVIOUS
<1>3. /\ C \in Seq(S) /\ DOMAIN C = 1..(Len(A) + Len(B))
      /\ \A k \in 1..(Len(A) + Len(B)) : C[k] = IF k <= Len(A) THEN A[k] ELSE B[k - Len(A)]
  BY <1>1, <1>2
<1>4. ASSUME NEW i \in DOMAIN C, NEW j \in DOMAIN C, i # j PROVE C[i].what # C[j].what
  <2>1. CASE i <= Len(A) /\ j <= Len(A)
    BY <1>1, <1>3, <1>4, <2>1 DEF Apart
  <2>2. CASE i <= Len(A) /\ ~(j <= Len(A))
    <3>1. i \in DOMAIN A /\ j - Len(A) \in DOMAIN B
      BY <1>1, <1>3, <2>2
    <3>2. A[i].what # B[j - Len(A)].what
      BY <3>1 DEF ToSet
    <3>3. QED BY <1>3, <2>2, <3>2
  <2>3. CASE ~(i <= Len(A)) /\ j <= Len(A)
    <3>1. j \in DOMAIN A /\ i - Len(A) \in DOMAIN B
      BY <1>1, <1>3, <2>3
    <3>2. A[j].what # B[i - Len(A)].what
      BY <3>1 DEF ToSet
    <3>3. QED BY <1>3, <2>3, <3>2
  <2>4. CASE ~(i <= Len(A)) /\ ~(j <= Len(A))
    <3>1. i - Len(A) \in DOMAIN B /\ j - Len(A) \in DOMAIN B /\ i - Len(A) # j - Len(A)
      BY <1>1, <1>3, <1>4, <2>4
    <3>2. QED BY <1>3, <2>4, <3>1 DEF Apart
  <2>5. QED BY <2>1, <2>2, <2>3, <2>4
<1>5. \A k \in DOMAIN C : (\E i \in DOMAIN A : C[k] = A[i]) \/ (\E i \in DOMAIN B : C[k] = B[i])
  <2> SUFFICES ASSUME NEW k \in DOMAIN C
               PROVE  (\E i \in DOMAIN A : C[k] = A[i]) \/ (\E i \in DOMAIN B : C[k] = B[i])
    OBVIOUS
  <2>1. CASE k <= Len(A)
    BY <1>1, <1>3, <2>1
  <2>2. CASE ~(k <= Len(A))
    <3>1. k - Len(A) \in DOMAIN B /\ C[k] = B[k - Len(A)]
      BY <1>1, <1>3, <2>2
    <3>2. QED BY <3>1
  <2>3. QED BY <2>1, <2>2
<1>6. \A i \in DOMAIN A : i \in DOMAIN C /\ C[i] = A[i]
  BY <1>1, <1>3
<1>7. \A i \in DOMAIN B : i + Len(A) \in DOMAIN C /\ C[i + Len(A)] = B[i]
  BY <1>1, <1>3
<1>8. Apart(C)
  BY <1>4 DEF Apart
<1>9. ToSet(C) = ToSet(A) \cup ToSet(B)
  <2>1. ToSet(C) \subseteq ToSet(A) \cup ToSet(B)
    BY <1>5 DEF ToSet
  <2>2. ToSet(A) \subseteq ToSet(C) /\ ToSet(B) \subseteq ToSet(C)
    BY <1>6, <1>7 DEF ToSet
  <2>3. QED BY <2>1, <2>2
<1>10. QED BY <1>2, <1>3, <1>8, <1>9

\* One new entry, of what no entry tells: the log stays sorted, and keeps what a cut would leave.
LEMMA EntryAdded ==
  ASSUME LogOrdered, trimmed \in Nat, NEW x, x.time \in Nat, x.what \in Nat,
         NEW source \in {"server", "audit", "local"},
         \A e \in ToSet(activityLog) : e.what # x.what,
         AddLogEntry(x, source)
  PROVE  /\ activityLog' \in Seq(LogEntries) /\ Len(activityLog') <= MaxLog
         /\ NewestFirst(activityLog)' /\ Apart(activityLog)'
         /\ ToSet(activityLog') \subseteq ToSet(activityLog) \cup {Entry(x, source)}
         /\ trimmed' \in Nat /\ trimmed' >= trimmed
         /\ trimmed' = trimmed \/ \E e \in ToSet(activityLog') : trimmed' = e.time
         /\ \A e \in ToSet(activityLog) \cup {Entry(x, source)} :
              e.time > trimmed' => e \in ToSet(activityLog')
<1> DEFINE B == <<Entry(x, source)>>
<1>1. PICK C : C = B \o activityLog
  OBVIOUS
<1>2. activityLog \in Seq(LogEntries) /\ Apart(activityLog)
  BY DEF LogOrdered
<1>3. B \in Seq(LogEntries) /\ DOMAIN B = {1} /\ B[1] = Entry(x, source)
  BY DEF Entry, LogEntries
<1>4. Log(C)
  BY <1>1 DEF AddLogEntry
<1> HIDE DEF B
<1>5. Apart(B) /\ ToSet(B) = {Entry(x, source)}
  BY <1>3 DEF Apart, ToSet
<1>6. \A b \in ToSet(B), e \in ToSet(activityLog) : b.what # e.what
  BY <1>5 DEF Entry
<1>7. /\ C \in Seq(LogEntries) /\ Apart(C)
      /\ ToSet(C) = ToSet(B) \cup ToSet(activityLog)
  BY <1>1, <1>2, <1>3, <1>5, <1>6, BothApart, Zenon
<1>8. ToSet(C) = ToSet(activityLog) \cup {Entry(x, source)}
  BY <1>5, <1>7
<1>9. /\ activityLog' \in Seq(LogEntries) /\ Len(activityLog') <= MaxLog
      /\ NewestFirst(activityLog)' /\ Apart(activityLog)' /\ ToSet(activityLog') \subseteq ToSet(C)
      /\ trimmed' \in Nat /\ trimmed' >= trimmed
      /\ trimmed' = trimmed \/ \E e \in ToSet(activityLog') : trimmed' = e.time
      /\ \A e \in ToSet(C) : e.time > trimmed' => e \in ToSet(activityLog')
  BY <1>4, <1>7, Logged, Zenon
<1>10. QED BY <1>8, <1>9, Zenon

\* What a filter leaves of a log that tells of different things.
LEMMA SourceFiltered ==
  ASSUME NEW log \in Seq(LogEntries), Apart(log), NEW source
  PROVE  LET A == Filtered(log, {i \in DOMAIN log : log[i].source # source})
         IN  /\ A \in Seq(LogEntries) /\ Apart(A)
             /\ ToSet(A) = {e \in ToSet(log) : e.source # source}
<1> DEFINE A == Filtered(log, {i \in DOMAIN log : log[i].source # source})
           others == {i \in DOMAIN log : log[i].source # source}
<1>1. others \in SUBSET DOMAIN log /\ A = Filtered(log, others)
  OBVIOUS
<1>2. \A i \in DOMAIN log : i \in others <=> log[i].source # source
  OBVIOUS
<1> HIDE DEF others, A
<1>3. /\ A \in Seq(LogEntries)
      /\ \A k, l \in DOMAIN A : k # l =>
           \E i, j \in others : i # j /\ A[k] = log[i] /\ A[l] = log[j]
      /\ \A k \in DOMAIN A : \E i \in others : A[k] = log[i]
      /\ \A i \in others : \E k \in DOMAIN A : A[k] = log[i]
  <2>1. log \in Seq(LogEntries)
    OBVIOUS
  <2>2. QED BY <1>1, <2>1, FilteredIs
<1>4. Apart(A)
  <2>1. ASSUME NEW k \in DOMAIN A, NEW l \in DOMAIN A, k # l PROVE A[k].what # A[l].what
    <3>1. PICK i \in others, j \in others : i # j /\ A[k] = log[i] /\ A[l] = log[j]
      BY <1>3, <2>1, Zenon
    <3>2. i \in DOMAIN log /\ j \in DOMAIN log
      BY <1>1
    <3>3. QED BY <3>1, <3>2 DEF Apart
  <2>2. QED BY <2>1 DEF Apart
<1>5. ToSet(A) \subseteq {e \in ToSet(log) : e.source # source}
  BY <1>1, <1>2, <1>3 DEF ToSet
<1>6. {e \in ToSet(log) : e.source # source} \subseteq ToSet(A)
  <2>1. ASSUME NEW i \in DOMAIN log, log[i].source # source PROVE log[i] \in ToSet(A)
    <3>1. PICK k \in DOMAIN A : A[k] = log[i]
      BY <1>2, <1>3, <2>1, Zenon
    <3>2. QED BY <3>1 DEF ToSet
  <2>2. QED BY <2>1 DEF ToSet
<1>7. QED BY <1>3, <1>4, <1>5, <1>6 DEF A

\* The entries of one source are replaced, by others of what no entry kept tells.
LEMMA SourceReplaced ==
  ASSUME LogOrdered, trimmed \in Nat, NEW source \in {"server", "audit", "local"},
         NEW S, NEW told \in Seq(S), \A x \in S : x.time \in Nat /\ x.what \in Nat, Apart(told),
         \A e \in ToSet(activityLog) :
           e.source # source => \A i \in DOMAIN told : e.what # told[i].what,
         ReplaceLogSource(source, told)
  PROVE  LET merged == {e \in ToSet(activityLog) : e.source # source}
                         \cup {Entry(told[i], source) : i \in DOMAIN told}
         IN  /\ activityLog' \in Seq(LogEntries) /\ Len(activityLog') <= MaxLog
             /\ NewestFirst(activityLog)' /\ Apart(activityLog)' /\ ToSet(activityLog') \subseteq merged
             /\ trimmed' \in Nat /\ trimmed' >= trimmed
             /\ trimmed' = trimmed \/ \E e \in ToSet(activityLog') : trimmed' = e.time
             /\ \A e \in merged : e.time > trimmed' => e \in ToSet(activityLog')
<1> DEFINE others == {i \in DOMAIN activityLog : activityLog[i].source # source}
           B == [i \in DOMAIN told |-> Entry(told[i], source)]
           merged == {e \in ToSet(activityLog) : e.source # source}
                       \cup {Entry(told[i], source) : i \in DOMAIN told}
<1>1. PICK A : A = Filtered(activityLog, others)
  OBVIOUS
<1>2. PICK C : C = A \o B
  OBVIOUS
<1>3. Log(C)
  BY <1>1, <1>2 DEF ReplaceLogSource
<1>4. activityLog \in Seq(LogEntries) /\ Apart(activityLog)
  BY DEF LogOrdered
<1>5. /\ A \in Seq(LogEntries) /\ Apart(A)
      /\ ToSet(A) = {e \in ToSet(activityLog) : e.source # source}
  BY <1>1, <1>4, SourceFiltered
<1>6. /\ B \in Seq(LogEntries) /\ DOMAIN B = DOMAIN told
      /\ \A i \in DOMAIN told : B[i] = Entry(told[i], source) /\ B[i].what = told[i].what
  <2>1. PICK n \in Nat : DOMAIN told = 1..n /\ \A i \in 1..n : told[i] \in S
    OBVIOUS
  <2>2. \A i \in 1..n : Entry(told[i], source) \in LogEntries
    BY <2>1 DEF Entry, LogEntries
  <2>3. QED BY <2>1, <2>2 DEF Entry
<1> HIDE DEF others, B
<1>7. Apart(B) /\ ToSet(B) = {Entry(told[i], source) : i \in DOMAIN told}
  BY <1>6 DEF Apart, ToSet
<1>8. \A a \in ToSet(A), b \in ToSet(B) : a.what # b.what
  <2>1. \A b \in ToSet(B) : \E i \in DOMAIN told : b.what = told[i].what
    BY <1>6 DEF ToSet
  <2>2. QED BY <1>5, <2>1
<1>9. /\ C \in Seq(LogEntries) /\ Apart(C)
      /\ ToSet(C) = ToSet(A) \cup ToSet(B)
  <2>1. A \in Seq(LogEntries) /\ B \in Seq(LogEntries) /\ Apart(A) /\ Apart(B)
    BY <1>5, <1>6, <1>7
  <2>2. /\ A \o B \in Seq(LogEntries) /\ Apart(A \o B)
        /\ ToSet(A \o B) = ToSet(A) \cup ToSet(B)
    BY <1>8, <2>1, BothApart
  <2>3. QED BY <1>2, <2>2
<1>10. ToSet(C) = merged
  BY <1>5, <1>7, <1>9
<1>11. /\ activityLog' \in Seq(LogEntries) /\ Len(activityLog') <= MaxLog
       /\ NewestFirst(activityLog)' /\ Apart(activityLog)' /\ ToSet(activityLog') \subseteq ToSet(C)
       /\ trimmed' \in Nat /\ trimmed' >= trimmed
       /\ trimmed' = trimmed \/ \E e \in ToSet(activityLog') : trimmed' = e.time
       /\ \A e \in ToSet(C) : e.time > trimmed' => e \in ToSet(activityLog')
  BY <1>3, <1>9, Logged, Zenon
<1> HIDE DEF merged
<1>12. /\ activityLog' \in Seq(LogEntries) /\ Len(activityLog') <= MaxLog
       /\ NewestFirst(activityLog)' /\ Apart(activityLog)' /\ ToSet(activityLog') \subseteq merged
       /\ trimmed' \in Nat /\ trimmed' >= trimmed
       /\ trimmed' = trimmed \/ \E e \in ToSet(activityLog') : trimmed' = e.time
       /\ \A e \in merged : e.time > trimmed' => e \in ToSet(activityLog')
  BY <1>10, <1>11, Zenon
<1>13. QED BY <1>12 DEF merged

\* Without a connection nothing has been told on it.
LEMMA Unlinked ==
  ASSUME linked' = FALSE, nextEvent' = 1, delivered' = {}, lastEventId' \in Nat,
         trimmed' \in {0} \cup Stamps
  PROVE  FeedTold'
<1>1. nextEvent' \in Nat \ {0} /\ \A x \in delivered' : FALSE
  OBVIOUS
<1>2. linked' \in BOOLEAN
  BY Zenon
<1>3. QED BY <1>1, <1>2 DEF FeedTold

\* The log with the session: it starts with a poll of the audit log, and stops with nothing.
LEMMA LogSessions ==
  ASSUME OnScreen, LogInv, (Begin /\ StartLog) \/ (End /\ StopLog)
  PROVE  LogInv'
<1>1. EachIsOne /\ LogOrdered /\ FeedTold /\ AuditPollsBegun /\ begun \in Nat /\ happened \in Nat
  BY DEF LogInv, OnScreen, EachIsOne
<1>2. CASE Begin /\ StartLog
  <2>1. /\ UNCHANGED <<happened, events, actions, linked, nextEvent, activityLog, lastEventId,
                       delivered, trimmed>>
        /\ session = 0 /\ begun' = begun + 1 /\ session' = begun + 1
        /\ auditPolls' = auditPolls \cup {[session |-> begun + 1, from |-> happened]}
    BY <1>2 DEF Begin, StartLog
  <2>2. ~linked
    BY <1>1, <2>1 DEF FeedTold
  <2>3. EachIsOne'
    BY <1>1, <2>1 DEF EachIsOne, Apart
  <2>4. session' # 0
    BY <1>1, <2>1
  <2>5. LogOrdered'
    BY <1>1, <2>1, <2>4 DEF LogOrdered, NewestFirst, Apart
  <2>6. FeedTold'
    BY <1>1, <2>1, <2>2 DEF FeedTold
  <2>7. AuditPollsBegun'
    BY <1>1, <2>1 DEF AuditPollsBegun
  <2>8. QED BY <2>3, <2>5, <2>6, <2>7 DEF LogInv
<1>3. CASE End /\ StopLog
  <2>1. /\ linked' = FALSE /\ nextEvent' = 1 /\ delivered' = {}
        /\ activityLog' = <<>> /\ lastEventId' = 0 /\ trimmed' = 0
        /\ UNCHANGED <<happened, events, actions, auditPolls, begun>>
    BY <1>3 DEF End, StopLog
  <2>2. EachIsOne'
    BY <1>1, <2>1 DEF EachIsOne, Apart
  <2>3. LogOrdered'
    <3>1. ToSet(activityLog') = {}
      BY <2>1 DEF ToSet
    <3>2. /\ activityLog' \in Seq(LogEntries) /\ Len(activityLog') = 0
          /\ NewestFirst(activityLog)' /\ Apart(activityLog)'
      BY <2>1 DEF NewestFirst, Apart
    <3>3. 0 <= MaxLog
      BY LogAssumption
    <3>4. QED BY <3>1, <3>2, <3>3 DEF LogOrdered
  <2>4. FeedTold'
    <3>1. lastEventId' \in Nat /\ trimmed' \in {0} \cup Stamps
      BY <1>1, <2>1
    <3>2. QED BY <2>1, <3>1, Unlinked
  <2>5. AuditPollsBegun'
    BY <1>1, <2>1 DEF AuditPollsBegun
  <2>6. QED BY <2>2, <2>3, <2>4, <2>5 DEF LogInv
<1>4. QED BY <1>2, <1>3

\* The server or an operator does something: the log stands still.
LEMMA LogHappens ==
  ASSUME LogInv, UNCHANGED pageSession, ServerEvents \/ OperatorActs
  PROVE  LogInv'
<1>1. PICK n \in Nat :
        /\ happened' = happened + n
        /\ \/ \E time \in Stamps : events' = events \o [i \in 1..n |-> Happening(i, time)]
              /\ actions' = actions
           \/ n = 1 /\ events' = events /\ \E kind \in Kinds, time \in Stamps :
                actions' = <<[time |-> time, what |-> happened + 1, kind |-> kind]>> \o actions
  <2>1. CASE ServerEvents
    <3>1. PICK m \in 1..MaxBatch, time \in Stamps :
            Happens(m) /\ events' = events \o [i \in 1..m |-> Happening(i, time)]
      BY <2>1 DEF ServerEvents
    <3>2. m \in Nat /\ actions' = actions /\ happened' = happened + m
      BY <2>1, <3>1 DEF ServerEvents, Happens
    <3>3. QED BY <3>1, <3>2
  <2>2. CASE OperatorActs
    BY <2>2 DEF OperatorActs, Happens
  <2>3. QED BY <2>1, <2>2
<1>2. /\ EachIsOne /\ LogOrdered /\ FeedTold /\ AuditPollsBegun
      /\ happened \in Nat /\ session' = session /\ begun' = begun
      /\ UNCHANGED <<linked, nextEvent, activityLog, lastEventId, auditPolls, delivered, trimmed>>
  BY DEF LogInv, EachIsOne, ServerEvents, OperatorActs, pageSession
<1>3. /\ happened' \in Nat
      /\ \A t \in 1..happened : t \in 1..happened'
      /\ \A t \in 0..happened : t \in 0..happened'
      /\ \A i \in 1..n : happened + i \in 1..happened' /\ happened + i \notin 1..happened
  BY <1>1, <1>2
<1>4. AuditPollsBegun'
  BY <1>2, <1>3 DEF AuditPollsBegun
<1>5. CASE \E time \in Stamps :
             events' = events \o [i \in 1..n |-> Happening(i, time)] /\ actions' = actions
  <2>1. PICK time \in Stamps : events' = events \o [i \in 1..n |-> Happening(i, time)]
    BY <1>5
  <2>2. actions' = actions
    BY <1>5
  <2>3. PICK l \in Nat : l = Len(events) /\ DOMAIN events = 1..l
    BY <1>2 DEF EachIsOne
  <2>4. PICK batch : batch = [i \in 1..n |-> Happening(i, time)]
    OBVIOUS
  <2>5. time \in Nat
    BY LogAssumption
  <2>6. /\ batch \in Seq(Events) /\ Len(batch) = n
        /\ \A i \in 1..n : batch[i].time = time /\ batch[i].what = happened + i
    <3>1. \A i \in 1..n : Happening(i, time) \in Events
      BY <1>2, <1>3, <2>5 DEF Happening, Events
    <3>2. QED BY <2>4, <3>1 DEF Happening
  <2>7. /\ events' \in Seq(Events) /\ DOMAIN events' = 1..(l + n) /\ Len(events') = l + n
        /\ \A i \in 1..l : events'[i] = events[i]
        /\ \A i \in 1..n : events'[l + i] = batch[i]
    <3>1. events \in Seq(Events) /\ events' = events \o batch
      BY <1>2, <2>1, <2>4 DEF EachIsOne
    <3>2. Len(batch) = n /\ DOMAIN batch = 1..n /\ batch \in Seq(Events)
      BY <2>6
    <3>3. /\ events' \in Seq(Events) /\ Len(events') = l + n
          /\ \A i \in 1..(l + n) : events'[i] = IF i <= l THEN events[i] ELSE batch[i - l]
      BY <2>3, <3>1, <3>2, ConcatProperties
    <3>4. DOMAIN events' = 1..(l + n)
      BY <3>3
    <3>5. \A i \in 1..l : i \in 1..(l + n) /\ i <= l
      BY <2>3
    <3>6. \A i \in 1..n : l + i \in 1..(l + n) /\ ~(l + i <= l) /\ (l + i) - l = i
      BY <2>3
    <3>7. QED BY <3>3, <3>4, <3>5, <3>6
  <2>8. \A i \in 1..(l + n) : i \in 1..l \/ (i \notin 1..l /\ i - l \in 1..n /\ i = l + (i - l))
    BY <2>3
  <2>9. \A i \in 1..l : events'[i].time \in Stamps /\ events'[i].what \in 1..happened
    BY <1>2, <2>3, <2>7 DEF EachIsOne
  <2>10. \A i \in 1..(l + n) : i \notin 1..l =>
           events'[i].time = time /\ events'[i].what = happened + (i - l)
    BY <2>6, <2>7, <2>8
  <2>11. \A i \in 1..(l + n) : i \notin 1..l => events'[i].what \notin 1..happened
    BY <1>3, <2>8, <2>10
  <2>12. EachIsOne'
    <3>1. \A i \in 1..(l + n) : events'[i].time \in Stamps /\ events'[i].what \in 1..happened'
      BY <1>3, <2>8, <2>9, <2>10
    <3>2. \A i, j \in 1..(l + n) : i # j => events'[i].what # events'[j].what
      <4> SUFFICES ASSUME NEW i \in 1..(l + n), NEW j \in 1..(l + n), i # j
                   PROVE  events'[i].what # events'[j].what
        OBVIOUS
      <4>1. CASE i \in 1..l /\ j \in 1..l
        <5>1. events[i].what # events[j].what
          BY <1>2, <2>3, <4>1 DEF EachIsOne, Apart
        <5>2. QED BY <2>7, <4>1, <5>1
      <4>2. CASE i \in 1..l /\ j \notin 1..l
        BY <2>9, <2>11, <4>2
      <4>3. CASE i \notin 1..l /\ j \in 1..l
        BY <2>9, <2>11, <4>3
      <4>4. CASE i \notin 1..l /\ j \notin 1..l
        BY <1>2, <2>3, <2>10, <4>4
      <4>5. QED BY <4>1, <4>2, <4>3, <4>4
    <3>3. \A i \in DOMAIN actions : actions[i].what \in 1..happened
      BY <1>2 DEF EachIsOne
    <3>4. \A i \in 1..(l + n), j \in DOMAIN actions : events'[i].what # actions[j].what
      <4> SUFFICES ASSUME NEW i \in 1..(l + n), NEW j \in DOMAIN actions
                   PROVE  events'[i].what # actions[j].what
        OBVIOUS
      <4>1. CASE i \in 1..l
        <5>1. events[i].what # actions[j].what
          BY <1>2, <2>3, <4>1 DEF EachIsOne
        <5>2. QED BY <2>7, <4>1, <5>1
      <4>2. CASE i \notin 1..l
        BY <2>11, <3>3, <4>2
      <4>3. QED BY <4>1, <4>2
    <3>5. Apart(events)'
      BY <2>7, <3>2 DEF Apart
    <3>6. /\ actions \in Seq(Actions) /\ Apart(actions)
          /\ \A i \in DOMAIN actions : actions[i].time \in Stamps
      BY <1>2 DEF EachIsOne
    <3>7. Apart(actions)'
      BY <2>2, <3>6 DEF Apart
    <3>8. QED BY <1>3, <2>2, <2>7, <3>1, <3>3, <3>4, <3>5, <3>6, <3>7 DEF EachIsOne
  <2>13. \A e \in ToSet(activityLog) : /\ e.time \in Stamps /\ e.what \in 1..happened
                                       /\ session = 0 => e.source = "local"
    BY <1>2 DEF LogOrdered
  <2>14. LogOrdered'
    <3>1. ASSUME NEW e \in ToSet(activityLog), NEW i \in 1..(l + n), e.what = events'[i].what
          PROVE  e.source = "server"
      <4>1. i \in 1..l
        BY <2>11, <2>13, <3>1
      <4>2. QED BY <1>2, <2>3, <2>7, <3>1, <4>1 DEF LogOrdered
    <3>2. \A e \in ToSet(activityLog), i \in DOMAIN actions :
            e.what = actions[i].what => e.source = "audit"
      BY <1>2 DEF LogOrdered
    <3>3. \A e \in ToSet(activityLog) : e.what \in 1..happened'
      BY <1>3, <2>13
    <3>4. /\ activityLog \in Seq(LogEntries) /\ Len(activityLog) <= MaxLog
          /\ NewestFirst(activityLog) /\ Apart(activityLog)
      BY <1>2 DEF LogOrdered
    <3>5. QED BY <1>2, <2>2, <2>7, <2>13, <3>1, <3>2, <3>3, <3>4 DEF LogOrdered, NewestFirst, Apart
  <2>15. FeedTold'
    <3>1. linked => lastEventId \in 0..l
      BY <1>2, <2>3 DEF FeedTold
    <3>2. linked => \A i \in 1..lastEventId : events'[i] = events[i]
      BY <1>2, <2>3, <2>7, <3>1
    <3>3. \A i \in nextEvent..lastEventId : i \in 1..lastEventId
      BY <1>2 DEF FeedTold
    <3>4. linked => lastEventId <= Len(events')
      BY <2>3, <2>7, <3>1
    <3>5. linked => \A i \in nextEvent..lastEventId : events'[i] \in delivered
      BY <1>2, <3>2, <3>3 DEF FeedTold
    <3>6. linked => \A e \in ToSet(activityLog) : e.source = "server" =>
            \E i \in 1..lastEventId : e.what = events'[i].what
      BY <1>2, <3>2 DEF FeedTold
    <3>7. QED BY <1>2, <1>3, <3>4, <3>5, <3>6 DEF FeedTold
  <2>16. QED BY <1>4, <2>12, <2>14, <2>15 DEF LogInv
<1>6. CASE /\ n = 1 /\ events' = events
           /\ \E kind \in Kinds, time \in Stamps :
                actions' = <<[time |-> time, what |-> happened + 1, kind |-> kind]>> \o actions
  <2>1. PICK kind \in Kinds, time \in Stamps :
          actions' = <<[time |-> time, what |-> happened + 1, kind |-> kind]>> \o actions
    BY <1>6
  <2>2. events' = events
    BY <1>6
  <2>3. PICK l \in Nat : l = Len(actions) /\ DOMAIN actions = 1..l
    BY <1>2 DEF EachIsOne
  <2>4. /\ actions' \in Seq(Actions) /\ DOMAIN actions' = 1..(l + 1)
        /\ \A i \in 1..l : actions'[i + 1] = actions[i]
        /\ actions'[1].what = happened + 1 /\ actions'[1].time = time
    <3>1. time \in Nat
      BY LogAssumption
    <3>2. PICK a : a = [time |-> time, what |-> happened + 1, kind |-> kind]
      OBVIOUS
    <3>3. a \in Actions /\ a.what = happened + 1 /\ a.time = time
      BY <1>2, <3>1, <3>2 DEF Actions
    <3>4. actions' = <<a>> \o actions /\ actions \in Seq(Actions)
      BY <1>2, <2>1, <3>2 DEF EachIsOne
    <3>5. QED BY <2>3, <3>3, <3>4
  <2>5. \A i \in 1..(l + 1) : i = 1 \/ i - 1 \in 1..l
    BY <2>3
  <2>6. \A i \in 1..(l + 1) : i # 1 => actions'[i] = actions[i - 1]
    BY <2>4, <2>5
  <2>7. happened + 1 \in 1..happened' /\ happened + 1 \notin 1..happened
    BY <1>1, <1>2, <1>6
  <2>8. EachIsOne'
    <3>1. \A i \in 1..l : actions[i].time \in Stamps /\ actions[i].what \in 1..happened
      BY <1>2, <2>3 DEF EachIsOne
    <3>2. \A i \in DOMAIN events : events[i].time \in Stamps /\ events[i].what \in 1..happened
      BY <1>2 DEF EachIsOne
    <3>3. \A i, j \in 1..l : i # j => actions[i].what # actions[j].what
      BY <1>2, <2>3 DEF EachIsOne, Apart
    <3>4. \A i \in DOMAIN events, j \in 1..l : events[i].what # actions[j].what
      BY <1>2, <2>3 DEF EachIsOne
    <3>5. \A i \in 1..(l + 1) : actions'[i].time \in Stamps /\ actions'[i].what \in 1..happened'
      BY <1>3, <2>4, <2>5, <2>6, <2>7, <3>1
    <3>6. \A i, j \in 1..(l + 1) : i # j => actions'[i].what # actions'[j].what
      <4> SUFFICES ASSUME NEW i \in 1..(l + 1), NEW j \in 1..(l + 1), i # j
                   PROVE  actions'[i].what # actions'[j].what
        OBVIOUS
      <4>1. CASE i = 1
        BY <2>4, <2>5, <2>6, <2>7, <3>1, <4>1
      <4>2. CASE j = 1
        BY <2>4, <2>5, <2>6, <2>7, <3>1, <4>2
      <4>3. CASE i # 1 /\ j # 1
        <5>1. i - 1 \in 1..l /\ j - 1 \in 1..l /\ i - 1 # j - 1
          BY <2>5, <4>3
        <5>2. QED BY <2>6, <3>3, <4>3, <5>1
      <4>4. QED BY <4>1, <4>2, <4>3
    <3>7. \A i \in DOMAIN events, j \in 1..(l + 1) : events[i].what # actions'[j].what
      <4> SUFFICES ASSUME NEW i \in DOMAIN events, NEW j \in 1..(l + 1)
                   PROVE  events[i].what # actions'[j].what
        OBVIOUS
      <4>1. CASE j = 1
        BY <2>4, <2>7, <3>2, <4>1
      <4>2. CASE j # 1
        <5>1. j - 1 \in 1..l /\ actions'[j] = actions[j - 1]
          BY <2>5, <2>6, <4>2
        <5>2. QED BY <3>4, <5>1
      <4>3. QED BY <4>1, <4>2
    <3>8. Apart(actions)'
      BY <2>4, <3>6 DEF Apart
    <3>9. events' \in Seq(Events) /\ Apart(events)'
      BY <1>2, <2>2 DEF EachIsOne, Apart
    <3>10. QED BY <1>3, <2>2, <2>4, <3>2, <3>5, <3>7, <3>8, <3>9 DEF EachIsOne
  <2>9. \A e \in ToSet(activityLog) : /\ e.time \in Stamps /\ e.what \in 1..happened
                                      /\ session = 0 => e.source = "local"
    BY <1>2 DEF LogOrdered
  <2>10. LogOrdered'
    <3>1. ASSUME NEW e \in ToSet(activityLog), NEW i \in 1..(l + 1), e.what = actions'[i].what
          PROVE  e.source = "audit"
      <4>1. i - 1 \in 1..l /\ e.what = actions[i - 1].what
        BY <2>4, <2>5, <2>6, <2>7, <2>9, <3>1
      <4>2. QED BY <1>2, <2>3, <4>1 DEF LogOrdered
    <3>2. \A e \in ToSet(activityLog), i \in DOMAIN events :
            e.what = events[i].what => e.source = "server"
      BY <1>2 DEF LogOrdered
    <3>3. \A e \in ToSet(activityLog) : e.what \in 1..happened'
      BY <1>3, <2>9
    <3>4. /\ activityLog \in Seq(LogEntries) /\ Len(activityLog) <= MaxLog
          /\ NewestFirst(activityLog) /\ Apart(activityLog)
      BY <1>2 DEF LogOrdered
    <3>5. QED BY <1>2, <2>2, <2>4, <2>9, <3>1, <3>2, <3>3, <3>4 DEF LogOrdered, NewestFirst, Apart
  <2>11. FeedTold'
    BY <1>2, <1>3, <2>2 DEF FeedTold
  <2>12. QED BY <1>4, <2>8, <2>10, <2>11 DEF LogInv
<1>7. QED BY <1>1, <1>5, <1>6

\* The connection is lost, and the server's events with it or not: what was told stays.
LEMMA LogLosesFeed ==
  ASSUME LogInv, UNCHANGED pageSession, ServerRestarts \/ FeedCloses
  PROVE  LogInv'
<1>1. /\ EachIsOne /\ LogOrdered /\ FeedTold /\ AuditPollsBegun
      /\ session' = session /\ begun' = begun
      /\ events' = events \/ events' = <<>>
      /\ linked' = FALSE /\ nextEvent' = 1 /\ delivered' = {}
      /\ UNCHANGED <<happened, actions, activityLog, lastEventId, auditPolls, trimmed>>
  BY DEF LogInv, ServerRestarts, FeedCloses, pageSession
<1>2. events' = events \/ (events' \in Seq(Events) /\ DOMAIN events' = {})
  <2>1. <<>> \in Seq(Events) /\ DOMAIN <<>> = {}
    OBVIOUS
  <2>2. QED BY <1>1, <2>1
<1>3. EachIsOne'
  BY <1>1, <1>2 DEF EachIsOne, Apart
<1>4. LogOrdered'
  BY <1>1, <1>2 DEF LogOrdered, NewestFirst, Apart
<1>5. FeedTold'
  <2>1. lastEventId' \in Nat /\ trimmed' \in {0} \cup Stamps
    BY <1>1 DEF FeedTold
  <2>2. QED BY <1>1, <2>1, Unlinked
<1>6. AuditPollsBegun'
  BY <1>1 DEF AuditPollsBegun
<1>7. QED BY <1>3, <1>4, <1>5, <1>6 DEF LogInv

\* A poll of the audit log is sent, or ends without an answer.
LEMMA LogPolls ==
  ASSUME OnScreen, LogInv, UNCHANGED pageSession,
         PollAudit \/ \E poll \in auditPolls : AuditFails(poll)
  PROVE  LogInv'
<1>1. /\ EachIsOne /\ LogOrdered /\ FeedTold /\ AuditPollsBegun /\ happened \in Nat
      /\ begun \in Nat /\ session \in 0..begun /\ session' = session /\ begun' = begun
      /\ UNCHANGED <<happened, events, actions, linked, nextEvent, activityLog, lastEventId,
                     delivered, trimmed>>
      /\ \/ session # 0 /\ auditPolls' = auditPolls \cup {[session |-> session, from |-> happened]}
         \/ auditPolls' \subseteq auditPolls
  BY DEF LogInv, OnScreen, EachIsOne, PollAudit, AuditFails, pageSession
<1>2. EachIsOne' /\ LogOrdered' /\ FeedTold'
  BY <1>1 DEF EachIsOne, LogOrdered, FeedTold, NewestFirst, Apart
<1>3. AuditPollsBegun'
  BY <1>1 DEF AuditPollsBegun
<1>4. QED BY <1>2, <1>3 DEF LogInv

\* The page adds an entry of its own.
LEMMA LogLocal ==
  ASSUME LogInv, UNCHANGED pageSession, LocalEntry
  PROVE  LogInv'
<1>1. PICK time \in Stamps : AddLogEntry(Happening(1, time), "local")
  BY DEF LocalEntry
<1>2. /\ EachIsOne /\ LogOrdered /\ FeedTold /\ AuditPollsBegun
      /\ happened \in Nat /\ happened' = happened + 1 /\ session' = session /\ begun' = begun
      /\ UNCHANGED <<events, actions, linked, nextEvent, lastEventId, auditPolls, delivered>>
  BY DEF LogInv, EachIsOne, LocalEntry, Happens, pageSession
<1>3. /\ happened' \in Nat /\ happened' \in 1..happened' /\ 0..happened \subseteq 0..happened'
      /\ \A t \in 1..happened : t \in 1..happened' /\ t # happened'
  BY <1>2
<1>4. PICK x : x = Happening(1, time)
  OBVIOUS
<1>5. x.time = time /\ time \in Nat /\ x.what = happened' /\ AddLogEntry(x, "local")
  BY <1>1, <1>2, <1>4, LogAssumption DEF Happening
<1>6. PICK new : new = Entry(x, "local")
  OBVIOUS
<1>7. new.time = time /\ new.what = happened' /\ new.source = "local"
  BY <1>5, <1>6 DEF Entry
<1>8. trimmed \in Nat
  BY <1>2, LogAssumption DEF FeedTold
<1>9. \A e \in ToSet(activityLog) : e.time \in Stamps /\ e.what \in 1..happened /\ e.what # happened'
  BY <1>2, <1>3 DEF LogOrdered
<1>10. /\ activityLog' \in Seq(LogEntries) /\ Len(activityLog') <= MaxLog
       /\ NewestFirst(activityLog)' /\ Apart(activityLog)'
       /\ ToSet(activityLog') \subseteq ToSet(activityLog) \cup {new}
       /\ trimmed' \in Nat /\ trimmed' >= trimmed
       /\ trimmed' = trimmed \/ \E e \in ToSet(activityLog') : trimmed' = e.time
       /\ \A e \in ToSet(activityLog) \cup {new} : e.time > trimmed' => e \in ToSet(activityLog')
  <2>1. \A e \in ToSet(activityLog) : e.what # x.what
    BY <1>5, <1>9
  <2>2. "local" \in {"server", "audit", "local"} /\ x.time \in Nat /\ x.what \in Nat
    BY <1>3, <1>5
  <2>3. QED BY <1>2, <1>5, <1>6, <1>8, <2>1, <2>2, EntryAdded
<1>11. EachIsOne'
  BY <1>2, <1>3 DEF EachIsOne, Apart
<1>12. /\ \A i \in DOMAIN events : events[i].what # happened'
       /\ \A i \in DOMAIN actions : actions[i].what # happened'
  BY <1>2, <1>3 DEF EachIsOne
<1>13. \A e \in ToSet(activityLog') : e.time \in Stamps /\ e.what \in 1..happened'
  <2> TAKE e \in ToSet(activityLog')
  <2>1. CASE e = new
    BY <1>3, <1>7, <2>1
  <2>2. CASE e \in ToSet(activityLog)
    BY <1>3, <1>9, <2>2
  <2>3. QED BY <1>10, <2>1, <2>2
<1>14. LogOrdered'
  <2>1. ASSUME NEW e \in ToSet(activityLog')
        PROVE  /\ \A i \in DOMAIN events : e.what = events[i].what => e.source = "server"
               /\ \A i \in DOMAIN actions : e.what = actions[i].what => e.source = "audit"
               /\ session = 0 => e.source = "local"
    <3>1. CASE e = new
      BY <1>7, <1>12, <3>1
    <3>2. CASE e \in ToSet(activityLog)
      BY <1>2, <3>2 DEF LogOrdered
    <3>3. QED BY <1>10, <3>1, <3>2
  <2>2. QED BY <1>2, <1>10, <1>13, <2>1 DEF LogOrdered
<1>15. trimmed' \in {0} \cup Stamps
  BY <1>2, <1>10, <1>13 DEF FeedTold
<1>16. FeedTold'
  <2>1. ASSUME linked, NEW y \in delivered, y.time > trimmed'
        PROVE  Entry(y, "server") \in ToSet(activityLog')
    <3>1. y.time > trimmed
      <4>1. y.time \in Nat
        BY <1>2, LogAssumption DEF FeedTold
      <4>2. QED BY <1>8, <1>10, <2>1, <4>1
    <3>2. Entry(y, "server") \in ToSet(activityLog)
      BY <1>2, <2>1, <3>1 DEF FeedTold
    <3>3. QED BY <1>10, <2>1, <3>2 DEF Entry
  <2>2. ASSUME linked, NEW e \in ToSet(activityLog'), e.source = "server"
        PROVE  \E i \in 1..lastEventId : e.what = events[i].what
    <3>1. e \in ToSet(activityLog)
      BY <1>7, <1>10, <2>2
    <3>2. QED BY <1>2, <2>2, <3>1 DEF FeedTold
  <2>3. \A y \in delivered : y.time \in Stamps /\ y.what \in 1..happened'
    BY <1>2, <1>3 DEF FeedTold
  <2>4. QED BY <1>2, <1>15, <2>1, <2>2, <2>3 DEF FeedTold
<1>17. AuditPollsBegun'
  BY <1>2, <1>3 DEF AuditPollsBegun
<1>18. QED BY <1>11, <1>14, <1>16, <1>17 DEF LogInv

\* The server hands over its next event.
LEMMA LogDelivers ==
  ASSUME LogInv, UNCHANGED pageSession, FeedDelivers
  PROVE  LogInv'
<1>1. /\ EachIsOne /\ LogOrdered /\ FeedTold /\ AuditPollsBegun
      /\ happened \in Nat /\ session' = session /\ begun' = begun /\ linked
      /\ UNCHANGED <<happened, events, actions, linked, auditPolls>>
      /\ nextEvent <= Len(events) /\ nextEvent' = nextEvent + 1
      /\ delivered' = delivered \cup {events[nextEvent]}
  BY DEF LogInv, EachIsOne, FeedDelivers, ApplyServerEvent, pageSession
<1>2. /\ nextEvent \in DOMAIN events /\ Len(events) \in Nat /\ DOMAIN events = 1..Len(events)
      /\ nextEvent \in Nat /\ nextEvent >= 1 /\ nextEvent' \in Nat \ {0} /\ lastEventId \in Nat
      /\ session # 0
  BY <1>1 DEF EachIsOne, FeedTold
<1>3. EachIsOne' /\ AuditPollsBegun'
  BY <1>1 DEF EachIsOne, Apart, AuditPollsBegun
<1>4. PICK x : x = events[nextEvent]
  OBVIOUS
<1>5. x.time \in Stamps /\ x.what \in 1..happened
  BY <1>1, <1>2, <1>4 DEF EachIsOne
<1>6. \A y \in delivered' : y.time \in Stamps /\ y.what \in 1..happened'
  BY <1>1, <1>4, <1>5 DEF FeedTold
<1>7. CASE nextEvent <= lastEventId
  <2>1. UNCHANGED <<activityLog, lastEventId, trimmed>>
    BY <1>1, <1>7 DEF FeedDelivers, ApplyServerEvent
  <2>2. delivered' = delivered
    BY <1>1, <1>2, <1>7 DEF FeedTold
  <2>3. LogOrdered'
    BY <1>1, <2>1 DEF LogOrdered, NewestFirst, Apart
  <2>4. \A i \in nextEvent'..lastEventId : i \in nextEvent..lastEventId
    BY <1>1, <1>2
  <2>5. FeedTold'
    BY <1>1, <1>2, <2>1, <2>2, <2>4 DEF FeedTold
  <2>6. QED BY <1>3, <2>3, <2>5 DEF LogInv
<1>8. CASE ~(nextEvent <= lastEventId)
  <2>1. lastEventId' = nextEvent /\ AddLogEntry(x, "server")
    BY <1>4, <1>8 DEF FeedDelivers, ApplyServerEvent
  <2>2. /\ x.time \in Nat /\ x.what \in Nat /\ trimmed \in Nat
        /\ \A y \in delivered : y.time \in Nat
    <3>1. \A t \in {0} \cup Stamps : t \in Nat
      BY LogAssumption
    <3>2. trimmed \in {0} \cup Stamps /\ \A y \in delivered : y.time \in Stamps
      BY <1>1 DEF FeedTold
    <3>3. \A t \in 1..happened : t \in Nat
      BY <1>1
    <3>4. QED BY <1>5, <3>1, <3>2, <3>3
  <2>3. \A i \in 1..lastEventId : events[i].what # x.what /\ i \in DOMAIN events
    <3>1. \A i \in 1..lastEventId : i \in DOMAIN events /\ i # nextEvent
      BY <1>1, <1>2, <1>8 DEF FeedTold
    <3>2. Apart(events)
      BY <1>1 DEF EachIsOne
    <3>3. QED BY <1>2, <1>4, <3>1, <3>2 DEF Apart
  <2>4. \A e \in ToSet(activityLog) : e.what # x.what
    <3>1. ASSUME NEW e \in ToSet(activityLog), e.what = x.what PROVE FALSE
      <4>1. e.source = "server"
        BY <1>1, <1>2, <1>4, <3>1 DEF LogOrdered
      <4>2. PICK i \in 1..lastEventId : e.what = events[i].what
        BY <1>1, <4>1 DEF FeedTold
      <4>3. QED BY <2>3, <3>1, <4>2
    <3>2. QED BY <3>1
  <2>5. PICK new : new = Entry(x, "server")
    OBVIOUS
  <2>6. new.time = x.time /\ new.what = x.what /\ new.source = "server"
    BY <2>5 DEF Entry
  <2>7. \A i \in DOMAIN actions : actions[i].what # x.what
    BY <1>1, <1>2, <1>4 DEF EachIsOne
  <2>8. /\ activityLog' \in Seq(LogEntries) /\ Len(activityLog') <= MaxLog
        /\ NewestFirst(activityLog)' /\ Apart(activityLog)'
        /\ ToSet(activityLog') \subseteq ToSet(activityLog) \cup {new}
        /\ trimmed' \in Nat /\ trimmed' >= trimmed
        /\ trimmed' = trimmed \/ \E e \in ToSet(activityLog') : trimmed' = e.time
        /\ \A e \in ToSet(activityLog) \cup {new} : e.time > trimmed' => e \in ToSet(activityLog')
    <3>1. "server" \in {"server", "audit", "local"}
      OBVIOUS
    <3>2. QED BY <1>1, <2>1, <2>2, <2>4, <2>5, <3>1, EntryAdded
  <2>9. \A e \in ToSet(activityLog') : e.time \in Stamps /\ e.what \in 1..happened
    BY <1>1, <1>5, <2>6, <2>8 DEF LogOrdered
  <2>10. LogOrdered'
    <3>1. ASSUME NEW e \in ToSet(activityLog')
          PROVE  /\ \A i \in DOMAIN events : e.what = events[i].what => e.source = "server"
                 /\ \A i \in DOMAIN actions : e.what = actions[i].what => e.source = "audit"
      <4>1. CASE e = new
        BY <2>6, <2>7, <4>1
      <4>2. CASE e \in ToSet(activityLog)
        BY <1>1, <4>2 DEF LogOrdered
      <4>3. QED BY <2>8, <4>1, <4>2
    <3>2. QED BY <1>1, <1>2, <2>8, <2>9, <3>1 DEF LogOrdered
  <2>11. trimmed' \in {0} \cup Stamps
    BY <1>1, <2>8, <2>9 DEF FeedTold
  <2>12. ASSUME NEW y \in delivered', y.time > trimmed'
         PROVE  Entry(y, "server") \in ToSet(activityLog')
    <3>1. CASE y = x
      BY <2>5, <2>6, <2>8, <2>12, <3>1
    <3>2. CASE y \in delivered
      <4>1. y.time > trimmed
        BY <2>2, <2>8, <2>12, <3>2
      <4>2. Entry(y, "server") \in ToSet(activityLog)
        BY <1>1, <3>2, <4>1 DEF FeedTold
      <4>3. Entry(y, "server").time > trimmed'
        BY <2>12 DEF Entry
      <4>4. QED BY <2>8, <4>2, <4>3
    <3>3. QED BY <1>1, <1>4, <3>1, <3>2
  <2>13. ASSUME NEW e \in ToSet(activityLog'), e.source = "server"
         PROVE  \E i \in 1..nextEvent : e.what = events[i].what
    <3>1. CASE e = new
      <4>1. nextEvent \in 1..nextEvent /\ e.what = events[nextEvent].what
        BY <1>2, <1>4, <2>6, <3>1
      <4>2. QED BY <4>1
    <3>2. CASE e \in ToSet(activityLog)
      <4>1. PICK i \in 1..lastEventId : e.what = events[i].what
        BY <1>1, <2>13, <3>2 DEF FeedTold
      <4>2. i \in 1..nextEvent
        BY <1>2, <1>8
      <4>3. QED BY <4>1, <4>2
    <3>3. QED BY <2>8, <3>1, <3>2
  <2>14. FeedTold'
    <3>1. \A i \in nextEvent'..lastEventId' : FALSE
      BY <1>1, <1>2, <2>1
    <3>2. linked' \in BOOLEAN /\ lastEventId' \in Nat /\ lastEventId' <= Len(events')
      BY <1>1, <1>2, <2>1 DEF FeedTold
    <3>3. session' # 0
      BY <1>1, <1>2
    <3>4. QED BY <1>1, <1>2, <1>6, <2>1, <2>11, <2>12, <2>13, <3>1, <3>2, <3>3 DEF FeedTold
  <2>15. QED BY <1>3, <2>10, <2>14 DEF LogInv
<1>9. QED BY <1>7, <1>8

\* The socket opens: the entries of the server are those of its backlog.
LEMMA LogOpens ==
  ASSUME LogInv, UNCHANGED pageSession, FeedOpens
  PROVE  LogInv'
<1>1. /\ EachIsOne /\ LogOrdered /\ FeedTold /\ AuditPollsBegun
      /\ happened \in Nat /\ session' = session /\ begun' = begun /\ session # 0 /\ linked' = TRUE
      /\ UNCHANGED <<happened, events, actions, auditPolls>>
  BY DEF LogInv, EachIsOne, FeedOpens, pageSession
<1>2. PICK n \in Nat : n = Len(events) /\ DOMAIN events = 1..n
  BY <1>1 DEF EachIsOne
<1>3. PICK from : /\ from = (IF n > Backlog THEN n - Backlog + 1 ELSE 1)
                  /\ ApplyEventBacklog(from)
  BY <1>2 DEF FeedOpens
<1>4. from \in 1..(n + 1) /\ (n >= 1 => from <= n)
  BY <1>2, <1>3, LogAssumption
<1>5. nextEvent' \in Nat \ {0} /\ nextEvent' >= from
  <2>1. PICK again \in 0..MaxBatch : again <= n /\ nextEvent' = n - again + 1
    BY <1>2 DEF FeedOpens
  <2>2. again \in Nat /\ again <= Backlog /\ Backlog \in Nat
    BY <2>1, LogAssumption
  <2>3. QED BY <1>2, <1>3, <2>1, <2>2
<1>6. PICK told : told = SubSeq(events, from, n)
  OBVIOUS
<1>7. /\ lastEventId' = Max({0} \cup (from..n))
      /\ ReplaceLogSource("server", told)
      /\ delivered' = {events[i] : i \in from..n}
  BY <1>2, <1>3, <1>6 DEF ApplyEventBacklog
<1>8. lastEventId' = n
  <2> DEFINE S == {0} \cup (from..n)
  <2>1. n \in S /\ \A x \in S : x \in Nat /\ x <= n
    BY <1>2, <1>4
  <2> HIDE DEF S
  <2>2. Max(S) \in S /\ \A x \in S : Max(S) >= x
    BY <2>1 DEF Max
  <2>3. Max(S) \in Nat /\ Max(S) <= n /\ Max(S) >= n
    BY <2>1, <2>2
  <2>4. Max(S) = n
    BY <1>2, <2>3
  <2>5. QED BY <1>7, <2>4 DEF S
<1>9. /\ told \in Seq(Events)
      /\ \A i \in DOMAIN told : i + from - 1 \in from..n /\ told[i] = events[i + from - 1]
      /\ \A i \in from..n : i - from + 1 \in DOMAIN told /\ told[i - from + 1] = events[i]
  <2>1. events \in Seq(Events)
    BY <1>1 DEF EachIsOne
  <2>2. /\ told \in Seq(Events) /\ DOMAIN told = 1..(n - from + 1)
        /\ \A i \in 1..(n - from + 1) : told[i] = events[i + from - 1]
    <3>1. from \in Nat /\ from >= 1 /\ from <= n + 1 /\ n \in Nat /\ n <= Len(events)
      BY <1>2, <1>4
    <3>2. \A i \in from..n : events[i] \in Events
      BY <1>2, <2>1, <3>1
    <3>3. /\ SubSeq(events, from, n) \in Seq(Events)
          /\ Len(SubSeq(events, from, n)) = n - from + 1
          /\ \A i \in 1..(n - from + 1) : SubSeq(events, from, n)[i] = events[from + i - 1]
      BY <3>1, <3>2, SubSeqProperties
    <3>4. \A i \in 1..(n - from + 1) : from + i - 1 = i + from - 1
      BY <3>1
    <3>5. QED BY <1>6, <3>3, <3>4
  <2>3. \A i \in from..n : i - from + 1 \in 1..(n - from + 1) /\ (i - from + 1) + from - 1 = i
    BY <1>2, <1>4
  <2>4. \A i \in 1..(n - from + 1) : i + from - 1 \in from..n
    BY <1>2, <1>4
  <2>5. QED BY <2>2, <2>3, <2>4
<1>10. from..n \subseteq DOMAIN events /\ from \in Nat
  BY <1>2, <1>4
<1>11. Apart(told)
  <2> SUFFICES ASSUME NEW i \in DOMAIN told, NEW j \in DOMAIN told, i # j
               PROVE  told[i].what # told[j].what
    BY DEF Apart
  <2>1. /\ i + from - 1 \in DOMAIN events /\ j + from - 1 \in DOMAIN events
        /\ i + from - 1 # j + from - 1
    <3>1. i \in Nat /\ j \in Nat
      <4>1. told \in Seq(Events)
        BY <1>9
      <4>2. QED BY <4>1
    <3>2. QED BY <1>9, <1>10, <3>1
  <2>2. Apart(events)
    BY <1>1 DEF EachIsOne
  <2>3. events[i + from - 1].what # events[j + from - 1].what
    BY <2>1, <2>2 DEF Apart
  <2>4. QED BY <1>9, <2>3
<1>12. {Entry(told[i], "server") : i \in DOMAIN told} = {Entry(x, "server") : x \in delivered'}
  <2>1. \A i \in DOMAIN told : told[i] \in delivered'
    BY <1>7, <1>9
  <2>2. \A x \in delivered' : \E i \in DOMAIN told : x = told[i]
    <3>1. ASSUME NEW k \in from..n PROVE \E i \in DOMAIN told : events[k] = told[i]
      BY <1>9
    <3>2. QED BY <1>7, <3>1
  <2>3. QED BY <2>1, <2>2
<1>13. \A e \in ToSet(activityLog) :
         e.source # "server" => \A i \in DOMAIN told : e.what # told[i].what
  BY <1>1, <1>9, <1>10 DEF LogOrdered
<1> DEFINE merged == {e \in ToSet(activityLog) : e.source # "server"}
                       \cup {Entry(told[i], "server") : i \in DOMAIN told}
<1>14. /\ activityLog' \in Seq(LogEntries) /\ Len(activityLog') <= MaxLog
       /\ NewestFirst(activityLog)' /\ Apart(activityLog)' /\ ToSet(activityLog') \subseteq merged
       /\ trimmed' \in Nat /\ trimmed' >= trimmed
       /\ trimmed' = trimmed \/ \E e \in ToSet(activityLog') : trimmed' = e.time
       /\ \A e \in merged : e.time > trimmed' => e \in ToSet(activityLog')
  <2>1. "server" \in {"server", "audit", "local"} /\ trimmed \in Nat
    BY <1>1, LogAssumption DEF FeedTold
  <2>2. \A x \in Events : x.time \in Nat /\ x.what \in Nat
    BY DEF Events
  <2>3. QED BY <1>1, <1>7, <1>9, <1>11, <1>13, <2>1, <2>2, SourceReplaced
<1>15. merged = {e \in ToSet(activityLog) : e.source # "server"}
                  \cup {Entry(x, "server") : x \in delivered'}
  BY <1>12
<1> HIDE DEF merged
<1>16. EachIsOne' /\ AuditPollsBegun'
  BY <1>1 DEF EachIsOne, Apart, AuditPollsBegun
<1>17. \A x \in delivered' : /\ x.time \in Stamps /\ x.what \in 1..happened
                             /\ \E i \in 1..n : x = events[i]
  BY <1>1, <1>2, <1>7, <1>10 DEF EachIsOne
<1>18. \A x \in delivered' : /\ Entry(x, "server").time = x.time
                             /\ Entry(x, "server").what = x.what
                             /\ Entry(x, "server").source = "server"
  BY DEF Entry
<1>19. \A x \in delivered', i \in DOMAIN actions : actions[i].what # x.what
  <2> SUFFICES ASSUME NEW x \in delivered', NEW i \in DOMAIN actions
               PROVE  actions[i].what # x.what
    OBVIOUS
  <2>1. PICK k \in DOMAIN events : x = events[k]
    BY <1>2, <1>17
  <2>2. events[k].what # actions[i].what
    BY <1>1 DEF EachIsOne
  <2>3. QED BY <2>1, <2>2
<1>20. \A e \in ToSet(activityLog') :
         /\ e.time \in Stamps /\ e.what \in 1..happened
         /\ \A i \in DOMAIN events : e.what = events[i].what => e.source = "server"
         /\ \A i \in DOMAIN actions : e.what = actions[i].what => e.source = "audit"
         /\ e.source = "server" => \E x \in delivered' : e.what = x.what
  <2> TAKE e \in ToSet(activityLog')
  <2>1. CASE e \in ToSet(activityLog) /\ e.source # "server"
    BY <1>1, <2>1 DEF LogOrdered
  <2>2. CASE \E x \in delivered' : e = Entry(x, "server")
    BY <1>17, <1>18, <1>19, <2>2
  <2>3. QED BY <1>14, <1>15, <2>1, <2>2
<1>21. LogOrdered'
  BY <1>1, <1>14, <1>20 DEF LogOrdered
<1>22. trimmed' \in {0} \cup Stamps
  BY <1>1, <1>14, <1>20 DEF FeedTold
<1>23. FeedTold'
  <2>1. nextEvent' \in Nat \ {0} /\ lastEventId' \in Nat /\ session' # 0
    BY <1>1, <1>5, <1>8
  <2>2. \A i \in nextEvent'..lastEventId' : events'[i] \in delivered'
    <3>1. ASSUME NEW i \in nextEvent'..lastEventId' PROVE i \in from..n
      BY <1>4, <1>5, <1>8, <3>1
    <3>2. QED BY <1>1, <1>7, <3>1
  <2>3. \A x \in delivered' : x.time > trimmed' => Entry(x, "server") \in ToSet(activityLog')
    BY <1>14, <1>15, <1>18
  <2>4. \A e \in ToSet(activityLog') : e.source = "server" =>
          \E i \in 1..lastEventId' : e.what = events'[i].what
    BY <1>1, <1>8, <1>17, <1>20
  <2>5. lastEventId' <= Len(events')
    BY <1>1, <1>2, <1>8
  <2>6. linked' \in BOOLEAN
    BY <1>1, Zenon
  <2>7. \A x \in delivered' : x.time \in Stamps /\ x.what \in 1..happened'
    BY <1>1, <1>17
  <2>8. QED BY <1>22, <2>1, <2>2, <2>3, <2>4, <2>5, <2>6, <2>7 DEF FeedTold
<1>24. QED BY <1>16, <1>21, <1>23 DEF LogInv

\* A page of the audit log has actions of its kind, each of them once.
LEMMA PageIs ==
  ASSUME EachIsOne, NEW kind, NEW t
  PROVE  /\ Page(kind, t) \in Seq(Actions)
         /\ \A i \in DOMAIN Page(kind, t) :
              \E a \in DOMAIN actions : /\ actions[a].kind = kind
                                        /\ Page(kind, t)[i] = actions[a]
         /\ Apart(Page(kind, t))
<1> DEFINE kept == {i \in DOMAIN actions : actions[i].kind = kind /\ actions[i].what <= t}
           page == Filtered(actions, kept)
<1>1. actions \in Seq(Actions) /\ kept \in SUBSET DOMAIN actions
  BY DEF EachIsOne
<1>2. \A i \in kept : i \in DOMAIN actions /\ actions[i].kind = kind
  OBVIOUS
<1>3. Page(kind, t) = Cut(page, AuditPage)
  BY DEF Page
<1> HIDE DEF kept
<1>4. /\ page \in Seq(Actions)
      /\ \A k, l \in DOMAIN page : k # l =>
           \E i, j \in kept : i # j /\ page[k] = actions[i] /\ page[l] = actions[j]
      /\ \A k \in DOMAIN page : \E i \in kept : page[k] = actions[i]
  BY <1>1, FilteredIs
<1> HIDE DEF page
<1>5. PICK n \in Nat : n = Len(page) /\ DOMAIN page = 1..n
  BY <1>4
<1>6. PICK m : m = (IF Len(page) > AuditPage THEN AuditPage ELSE Len(page))
  OBVIOUS
<1>7. m \in Nat /\ m <= n
  BY <1>5, <1>6, LogAssumption
<1>8. /\ Page(kind, t) \in Seq(Actions) /\ DOMAIN Page(kind, t) = 1..m
      /\ \A i \in 1..m : i \in DOMAIN page /\ Page(kind, t)[i] = page[i]
  <2>1. PICK p : p = SubSeq(page, 1, m)
    OBVIOUS
  <2>2. p \in Seq(Actions) /\ DOMAIN p = 1..m /\ \A i \in 1..m : i \in 1..n /\ p[i] = page[i]
    BY <1>4, <1>5, <1>7, <2>1
  <2>3. Page(kind, t) = p
    BY <1>3, <1>6, <2>1 DEF Cut
  <2>4. QED BY <1>5, <2>2, <2>3
<1>9. Apart(Page(kind, t))
  <2> SUFFICES ASSUME NEW k \in 1..m, NEW l \in 1..m, k # l
               PROVE  Page(kind, t)[k].what # Page(kind, t)[l].what
    BY <1>8 DEF Apart
  <2>1. PICK i \in kept, j \in kept : i # j /\ page[k] = actions[i] /\ page[l] = actions[j]
    BY <1>4, <1>8
  <2>2. Apart(actions)
    BY DEF EachIsOne
  <2>3. actions[i].what # actions[j].what
    BY <1>2, <2>1, <2>2 DEF Apart
  <2>4. QED BY <1>8, <2>1, <2>3
<1>10. QED BY <1>2, <1>4, <1>8, <1>9

\* A poll of the audit log is answered: the entries of the operators are those of its pages.
LEMMA LogAudited ==
  ASSUME LogInv, UNCHANGED pageSession, NEW poll \in auditPolls, AuditAnswered(poll)
  PROVE  LogInv'
<1>1. /\ EachIsOne /\ LogOrdered /\ FeedTold /\ AuditPollsBegun
      /\ happened \in Nat /\ session' = session /\ begun' = begun
      /\ auditPolls' = auditPolls \ {poll}
      /\ UNCHANGED <<happened, events, actions, linked, nextEvent, lastEventId, delivered>>
  BY DEF LogInv, EachIsOne, AuditAnswered, pageSession
<1>2. EachIsOne' /\ AuditPollsBegun'
  BY <1>1 DEF EachIsOne, Apart, AuditPollsBegun
<1>3. CASE poll.session # session
  <2>1. UNCHANGED <<activityLog, trimmed>>
    BY <1>3 DEF AuditAnswered
  <2>2. LogOrdered' /\ FeedTold'
    BY <1>1, <2>1 DEF LogOrdered, FeedTold, NewestFirst, Apart
  <2>3. QED BY <1>2, <2>2 DEF LogInv
<1>4. CASE poll.session = session
  <2>1. PICK t, u : ReplaceLogSource("audit", Page("extraction.trigger", t) \o Page("dlq.purge", u))
    BY <1>4 DEF AuditAnswered
  <2>2. session # 0
    BY <1>1, <1>4 DEF AuditPollsBegun
  <2>3. PICK a : a = Page("extraction.trigger", t)
    OBVIOUS
  <2>4. PICK b : b = Page("dlq.purge", u)
    OBVIOUS
  <2>5. /\ a \in Seq(Actions) /\ Apart(a)
        /\ \A i \in DOMAIN a : \E k \in DOMAIN actions :
             actions[k].kind = "extraction.trigger" /\ a[i] = actions[k]
    BY <1>1, <2>3, PageIs
  <2>6. /\ b \in Seq(Actions) /\ Apart(b)
        /\ \A i \in DOMAIN b : \E k \in DOMAIN actions :
             actions[k].kind = "dlq.purge" /\ b[i] = actions[k]
    BY <1>1, <2>4, PageIs
  <2>7. \A i \in DOMAIN a, j \in DOMAIN b : a[i].what # b[j].what
    <3> SUFFICES ASSUME NEW i \in DOMAIN a, NEW j \in DOMAIN b PROVE a[i].what # b[j].what
      OBVIOUS
    <3>1. PICK k \in DOMAIN actions : actions[k].kind = "extraction.trigger" /\ a[i] = actions[k]
      BY <2>5
    <3>2. PICK l \in DOMAIN actions : actions[l].kind = "dlq.purge" /\ b[j] = actions[l]
      BY <2>6
    <3>3. k # l
      BY <3>1, <3>2
    <3>4. Apart(actions)
      BY <1>1 DEF EachIsOne
    <3>5. QED BY <3>1, <3>2, <3>3, <3>4 DEF Apart
  <2>8. PICK told : told = a \o b
    OBVIOUS
  <2>9. /\ told \in Seq(Actions) /\ Apart(told)
        /\ ToSet(told) = ToSet(a) \cup ToSet(b)
    <3>1. \A x \in ToSet(a), y \in ToSet(b) : x.what # y.what
      BY <2>7 DEF ToSet
    <3>2. QED BY <2>5, <2>6, <2>8, <3>1, BothApart
  <2>10. \A i \in DOMAIN told : \E k \in DOMAIN actions : told[i] = actions[k]
    <3>1. \A x \in ToSet(a) \cup ToSet(b) : \E k \in DOMAIN actions : x = actions[k]
      BY <2>5, <2>6 DEF ToSet
    <3>2. \A i \in DOMAIN told : told[i] \in ToSet(told)
      BY DEF ToSet
    <3>3. QED BY <2>9, <3>1, <3>2
  <2>11. \A e \in ToSet(activityLog) :
           e.source # "audit" => \A i \in DOMAIN told : e.what # told[i].what
    BY <1>1, <2>10 DEF LogOrdered
  <2> DEFINE merged == {e \in ToSet(activityLog) : e.source # "audit"}
                         \cup {Entry(told[i], "audit") : i \in DOMAIN told}
  <2>12. /\ activityLog' \in Seq(LogEntries) /\ Len(activityLog') <= MaxLog
         /\ NewestFirst(activityLog)' /\ Apart(activityLog)' /\ ToSet(activityLog') \subseteq merged
         /\ trimmed' \in Nat /\ trimmed' >= trimmed
         /\ trimmed' = trimmed \/ \E e \in ToSet(activityLog') : trimmed' = e.time
         /\ \A e \in merged : e.time > trimmed' => e \in ToSet(activityLog')
    <3>1. "audit" \in {"server", "audit", "local"} /\ trimmed \in Nat
      BY <1>1, LogAssumption DEF FeedTold
    <3>2. ReplaceLogSource("audit", told)
      BY <2>1, <2>3, <2>4, <2>8
    <3>3. \A x \in Actions : x.time \in Nat /\ x.what \in Nat
      BY DEF Actions
    <3>4. QED BY <1>1, <2>9, <2>11, <3>1, <3>2, <3>3, SourceReplaced
  <2>13. \A e \in merged :
           \/ e \in ToSet(activityLog) /\ e.source # "audit"
           \/ /\ e.source = "audit"
              /\ \E k \in DOMAIN actions : e.what = actions[k].what /\ e.time = actions[k].time
    BY <2>10 DEF Entry
  <2>14. \A e \in ToSet(activityLog) : e.source # "audit" => e \in merged
    OBVIOUS
  <2> HIDE DEF merged
  <2>15. \A e \in ToSet(activityLog') :
           /\ e.time \in Stamps /\ e.what \in 1..happened
           /\ \A i \in DOMAIN events : e.what = events[i].what => e.source = "server"
           /\ \A i \in DOMAIN actions : e.what = actions[i].what => e.source = "audit"
    <3> TAKE e \in ToSet(activityLog')
    <3>1. CASE e \in ToSet(activityLog) /\ e.source # "audit"
      BY <1>1, <3>1 DEF LogOrdered
    <3>2. CASE /\ e.source = "audit"
               /\ \E k \in DOMAIN actions : e.what = actions[k].what /\ e.time = actions[k].time
      BY <1>1, <3>2 DEF EachIsOne
    <3>3. QED BY <2>12, <2>13, <3>1, <3>2
  <2>16. LogOrdered'
    BY <1>1, <2>2, <2>12, <2>15 DEF LogOrdered
  <2>17. trimmed' \in {0} \cup Stamps
    BY <1>1, <2>12, <2>15 DEF FeedTold
  <2>18. FeedTold'
    <3>1. ASSUME linked, NEW x \in delivered, x.time > trimmed'
          PROVE  Entry(x, "server") \in ToSet(activityLog')
      <4>1. x.time > trimmed
        <5>1. \A stamp \in {0} \cup Stamps : stamp \in Nat
          BY LogAssumption
        <5>2. x.time \in {0} \cup Stamps /\ trimmed \in {0} \cup Stamps
          BY <1>1 DEF FeedTold
        <5>3. x.time \in Nat /\ trimmed \in Nat
          BY <5>1, <5>2
        <5>4. trimmed' \in Nat /\ trimmed' >= trimmed
          BY <2>12
        <5>5. QED BY <3>1, <5>3, <5>4
      <4>2. Entry(x, "server") \in ToSet(activityLog)
        BY <1>1, <3>1, <4>1 DEF FeedTold
      <4>3. Entry(x, "server").source = "server" /\ Entry(x, "server").time = x.time
        BY DEF Entry
      <4>4. QED BY <2>12, <2>14, <3>1, <4>2, <4>3
    <3>2. ASSUME linked, NEW e \in ToSet(activityLog'), e.source = "server"
          PROVE  \E i \in 1..lastEventId : e.what = events[i].what
      <4>1. e \in ToSet(activityLog)
        BY <2>12, <2>13, <3>2
      <4>2. QED BY <1>1, <3>2, <4>1 DEF FeedTold
    <3>3. QED BY <1>1, <2>17, <3>1, <3>2 DEF FeedTold
  <2>19. QED BY <1>2, <2>16, <2>18 DEF LogInv
<1>5. QED BY <1>3, <1>4

\* The log stands still.
LEMMA LogUnchanged ==
  ASSUME LogInv, UNCHANGED pageSession, UNCHANGED logVars
  PROVE  LogInv'
<1>1. /\ EachIsOne /\ LogOrdered /\ FeedTold /\ AuditPollsBegun
      /\ session' = session /\ begun' = begun
      /\ UNCHANGED <<happened, events, actions, linked, nextEvent, activityLog, lastEventId,
                     auditPolls, delivered, trimmed>>
  BY DEF LogInv, pageSession, logVars
<1>2. EachIsOne' /\ AuditPollsBegun'
  BY <1>1 DEF EachIsOne, Apart, AuditPollsBegun
<1>3. LogOrdered' /\ FeedTold'
  BY <1>1 DEF LogOrdered, FeedTold, NewestFirst, Apart
<1>4. QED BY <1>2, <1>3 DEF LogInv

\* Every step of the log keeps its invariant.
LEMMA LogStep ==
  ASSUME OnScreen, LogInv,
         \/ Begin /\ StartLog
         \/ End /\ StopLog
         \/ (LogNext \/ UNCHANGED logVars) /\ UNCHANGED pageSession
  PROVE  LogInv'
<1>1. CASE (Begin /\ StartLog) \/ (End /\ StopLog)
  BY <1>1, LogSessions
<1>2. ASSUME UNCHANGED logVars, UNCHANGED pageSession PROVE LogInv'
  BY <1>2, LogUnchanged
<1>3. ASSUME LogNext, UNCHANGED pageSession PROVE LogInv'
  <2>1. CASE ServerEvents
    BY <1>3, <2>1, LogHappens
  <2>2. CASE OperatorActs
    BY <1>3, <2>2, LogHappens
  <2>3. CASE ServerRestarts
    BY <1>3, <2>3, LogLosesFeed
  <2>4. CASE FeedCloses
    BY <1>3, <2>4, LogLosesFeed
  <2>5. CASE FeedOpens
    BY <1>3, <2>5, LogOpens
  <2>6. CASE FeedDelivers
    BY <1>3, <2>6, LogDelivers
  <2>7. CASE HealthLogged \/ RequestFailed
    BY <1>3, <2>7, LogLocal DEF HealthLogged, RequestFailed
  <2>8. CASE PollAudit
    BY <1>3, <2>8, LogPolls
  <2>9. ASSUME NEW poll \in auditPolls, AuditAnswered(poll) PROVE LogInv'
    BY <1>3, <2>9, LogAudited
  <2>10. ASSUME NEW poll \in auditPolls, AuditFails(poll) PROVE LogInv'
    BY <1>3, <2>10, LogPolls
  <2>11. QED
    BY <1>3, <2>1, <2>2, <2>3, <2>4, <2>5, <2>6, <2>7, <2>8, <2>9, <2>10 DEF LogNext
<1>4. QED BY <1>1, <1>2, <1>3

\* The log as it is made.
LEMMA LogInitInv == LogInit => LogInv
<1> SUFFICES ASSUME LogInit PROVE LogInv
  OBVIOUS
<1>1. /\ happened = 0 /\ events = <<>> /\ actions = <<>> /\ linked = FALSE /\ nextEvent = 1
      /\ activityLog = <<>> /\ lastEventId = 0 /\ auditPolls = {} /\ delivered = {} /\ trimmed = 0
  BY DEF LogInit
<1>2. EachIsOne
  BY <1>1 DEF EachIsOne, Apart
<1>3. LogOrdered
  <2>1. ToSet(activityLog) = {}
    BY <1>1 DEF ToSet
  <2>2. /\ activityLog \in Seq(LogEntries) /\ Len(activityLog) = 0
        /\ NewestFirst(activityLog) /\ Apart(activityLog)
    BY <1>1 DEF NewestFirst, Apart
  <2>3. 0 <= MaxLog
    BY LogAssumption
  <2>4. QED BY <2>1, <2>2, <2>3 DEF LogOrdered
<1>4. FeedTold
  <2>1. linked \in BOOLEAN
    BY <1>1, Zenon
  <2>2. QED BY <1>1, <2>1 DEF FeedTold
<1>5. AuditPollsBegun
  BY <1>1 DEF AuditPollsBegun
<1>6. QED BY <1>2, <1>3, <1>4, <1>5 DEF LogInv

\* What the invariant says of the log on screen.
LEMMA LogProved == LogInv => LogKeepsNewest /\ LogTypeOK
<1> SUFFICES ASSUME LogInv PROVE LogKeepsNewest /\ LogTypeOK
  OBVIOUS
<1>1. LogOrdered /\ FeedTold /\ happened \in Nat
  BY DEF LogInv, EachIsOne
<1>2. /\ activityLog \in Seq(LogEntries)
      /\ \A i \in DOMAIN activityLog :
           activityLog[i] \in LogEntries /\ activityLog[i] \in ToSet(activityLog)
      /\ \A e \in ToSet(activityLog) : \E i \in 1..Len(activityLog) : activityLog[i] = e
  BY <1>1 DEF LogOrdered, ToSet
<1>3. LogTypeOK
  BY <1>1, <1>2 DEF LogOrdered, FeedTold, LogEntries, LogTypeOK
<1>4. \A e \in ToSet(activityLog) : Contains(activityLog, e)
  BY <1>2 DEF Contains
<1>5. LogKeepsNewest
  BY <1>1, <1>4 DEF LogOrdered, FeedTold, NewestFirst, Apart, LogKeepsNewest
<1>6. QED BY <1>3, <1>5
-----------------------------------------------------------------------------
(* The page *)

\* The part that is looked at keeps its invariant, and the others have not begun; the panels'
\* and the ledger's invariants hold of them in any case.
ConsoleInv ==
  /\ OnScreen /\ focus \in Parts /\ extras \in Nat
  /\ IF focus = "overview" THEN OverviewInv ELSE OverviewInit
  /\ IF focus = "runs" THEN RunInv ELSE RunInit
  /\ IF focus = "log" THEN LogInv ELSE LogInit
  /\ LedgerInv /\ PanelInv

\* A session on screen has begun, whatever the step.
LEMMA OnScreenStep ==
  ASSUME OnScreen, SignIn \/ SignOut \/ UNCHANGED pageSession
  PROVE  OnScreen'
BY PageAssumption DEF OnScreen, SignIn, SignOut, Begin, End, pageSession

\* A step counts one of those that are bounded, or none.
Counted == extras' = extras \/ extras' = extras + 1

\* What a step of the Overview counts.
LEMMA OverviewCounts == OverviewNext => Counted
BY DEF OverviewNext, TakeReading, SocketUp, Frame, SocketDown, LayoutArrives, LayoutFails,
       FirstReadArrives, FirstReadFails, PollAlerts, AlertsAnswered, AlertsRefused,
       ToggleAttention, OpenDrawer, CloseDrawer, Extra, Counted

\* What a step of the runs counts.
LEMMA RunsCount == RunNext => Counted
BY DEF RunNext, RunAdvances, PollRuns, HistoryAnswered, HistoryFails, HistoryRefused,
       ProgressAnswered, ProgressRefused, LayoutDrawn, LayoutLost, MatrixReading, FeedLost,
       ShowOverviewView, Extra, Counted

\* What a step of the log counts.
LEMMA LogCounts == LogNext => Counted
BY DEF LogNext, ServerEvents, OperatorActs, ServerRestarts, FeedOpens, FeedDelivers, FeedCloses,
       HealthLogged, RequestFailed, LocalEntry, PollAudit, AuditAnswered, AuditFails, Extra, Counted

\* What a step of the ledger counts.
LEMMA LedgerCounts == LedgerNext => Counted
BY DEF LedgerNext, ShowLedger, RefreshLedger, ChooseLedger, OpenLedgerWork, CloseLedgerWork,
       RetryLedger, LedgerAnswered, LedgerBuilding, LedgerFails, Extra, Counted

\* What a step of the tabs counts.
LEMMA TabsCount == TabsNext => Counted
BY DEF TabsNext, SwitchTab, RefreshPanel, ChooseRange, TurnAuditPage, AutoRefresh,
       PanelAnswered, PanelFails, HistoryUnavailable, Freed, TriggerExtraction,
       TriggerAnswered, TriggerFails, PurgeDlq, PurgeAnswered, ToastTimer, Extra, Counted

\* What a step of the analysis counts.
LEMMA AnalysisCounts == AnalysisNext => Counted
BY DEF AnalysisNext, ShowAnalysis, SelectVersion, TickRule, ToggleSelectAll, ShowViolations,
       ShowSkipped, ShowRecord, Compare, GeneratePrompt, CopyPrompt, VersionsAnswered,
       ReportAnswered, AnalysisAnswered, AnalysisFails, Extra, Counted

\* Whatever the step of the page, what has been counted stays a number.
LEMMA CountsStep ==
  ASSUME extras \in Nat, SignIn \/ SignOut \/ Proceeds
  PROVE  extras' \in Nat
<1>1. CASE SignIn \/ SignOut
  BY <1>1 DEF SignIn, SignOut, Begin, End
<1>2. CASE Proceeds
  <2>1. OverviewNext \/ RunNext \/ LogNext \/ LedgerNext \/ TabsNext \/ AnalysisNext
    BY <1>2 DEF Proceeds, PanelsNext
  <2>2. Counted
    BY <2>1, OverviewCounts, RunsCount, LogCounts, LedgerCounts, TabsCount, AnalysisCounts
  <2>3. QED BY <2>2 DEF Counted
<1>3. QED BY <1>1, <1>2

\* What a step of the page is to the Overview.
LEMMA OverviewsPart ==
  ASSUME OnScreen, focus \in Parts, focus' = focus, SignIn \/ SignOut \/ Proceeds,
         IF focus = "overview" THEN OverviewInv ELSE OverviewInit
  PROVE  IF focus' = "overview" THEN OverviewInv' ELSE OverviewInit'
<1>1. CASE focus = "overview"
  <2>1. \/ Begin /\ StartOverview
        \/ End /\ StopOverview
        \/ (OverviewNext \/ UNCHANGED overviewVars) /\ UNCHANGED pageSession
    BY <1>1 DEF SignIn, SignOut, Proceeds, On, PanelsNext
  <2>2. QED BY <1>1, <2>1, OverviewStep
<1>2. CASE focus # "overview"
  <2>1. UNCHANGED overviewVars
    BY <1>2 DEF SignIn, SignOut, Proceeds, On
  <2>2. OverviewInit'
    BY <1>2, <2>1 DEF OverviewInit, overviewVars,
           layoutVars, socketVars, historyVars, drawnVars, barVars
  <2>3. QED BY <1>2, <2>2
<1>3. QED BY <1>1, <1>2

\* What a step of the page is to the runs.
LEMMA RunsPart ==
  ASSUME OnScreen, focus \in Parts, focus' = focus, SignIn \/ SignOut \/ Proceeds,
         IF focus = "runs" THEN RunInv ELSE RunInit
  PROVE  IF focus' = "runs" THEN RunInv' ELSE RunInit'
<1>1. CASE focus = "runs"
  <2>1. \/ Begin /\ StartRuns
        \/ End /\ StopRuns
        \/ (RunNext \/ UNCHANGED runVars) /\ UNCHANGED pageSession
    BY <1>1 DEF SignIn, SignOut, Proceeds, On, PanelsNext
  <2>2. QED BY <1>1, <2>1, RunsStep
<1>2. CASE focus # "runs"
  <2>1. UNCHANGED runVars
    BY <1>2 DEF SignIn, SignOut, Proceeds, On
  <2>2. RunInit'
    BY <1>2, <2>1 DEF RunInit, runVars
  <2>3. QED BY <1>2, <2>2
<1>3. QED BY <1>1, <1>2

\* What a step of the page is to the log.
LEMMA LogsPart ==
  ASSUME OnScreen, focus \in Parts, focus' = focus, SignIn \/ SignOut \/ Proceeds,
         IF focus = "log" THEN LogInv ELSE LogInit
  PROVE  IF focus' = "log" THEN LogInv' ELSE LogInit'
<1>1. CASE focus = "log"
  <2>1. \/ Begin /\ StartLog
        \/ End /\ StopLog
        \/ (LogNext \/ UNCHANGED logVars) /\ UNCHANGED pageSession
    BY <1>1 DEF SignIn, SignOut, Proceeds, On, PanelsNext
  <2>2. QED BY <1>1, <2>1, LogStep
<1>2. CASE focus # "log"
  <2>1. UNCHANGED logVars
    BY <1>2 DEF SignIn, SignOut, Proceeds, On
  <2>2. LogInit'
    BY <1>2, <2>1 DEF LogInit, logVars
  <2>3. QED BY <1>2, <2>2
<1>3. QED BY <1>1, <1>2

\* What a step of the page is to the ledger.
LEMMA LedgersPart ==
  ASSUME LedgerInv, SignIn \/ SignOut \/ Proceeds
  PROVE  LedgerInv'
<1>1. StartLedger \/ StopLedger \/ LedgerNext \/ UNCHANGED ledgerVars
  BY DEF SignIn, SignOut, Proceeds, On
<1>2. QED BY <1>1, LedgerStepInv

\* What a step of the page is to the panels.
LEMMA PanelsPart ==
  ASSUME PanelInv, SignIn \/ SignOut \/ Proceeds
  PROVE  PanelInv'
<1>1. \/ UNCHANGED panelVars
      \/ (StartPanels \/ StopPanels \/ TabsNext) /\ UNCHANGED analysisVars
      \/ AnalysisNext
  BY DEF SignIn, SignOut, Proceeds, PanelsNext, On
<1>2. QED BY <1>1, PanelStepInv

\* Every step of the page keeps the invariant.
LEMMA ConsoleStep == ConsoleInv /\ [ConsoleNext]_vars => ConsoleInv'
<1> SUFFICES ASSUME ConsoleInv, [ConsoleNext]_vars PROVE ConsoleInv'
  OBVIOUS
<1>1. CASE SignIn \/ SignOut \/ Proceeds
  <2>1. focus' = focus /\ focus \in Parts
    BY <1>1 DEF ConsoleInv, SignIn, SignOut, Proceeds
  <2>2. OnScreen'
    <3>1. SignIn \/ SignOut \/ UNCHANGED pageSession
      BY <1>1 DEF Proceeds
    <3>2. QED BY <3>1, OnScreenStep DEF ConsoleInv
  <2>3. IF focus' = "overview" THEN OverviewInv' ELSE OverviewInit'
    BY <1>1, <2>1, OverviewsPart DEF ConsoleInv
  <2>4. IF focus' = "runs" THEN RunInv' ELSE RunInit'
    BY <1>1, <2>1, RunsPart DEF ConsoleInv
  <2>5. IF focus' = "log" THEN LogInv' ELSE LogInit'
    BY <1>1, <2>1, LogsPart DEF ConsoleInv
  <2>6. LedgerInv' /\ PanelInv' /\ extras' \in Nat
    BY <1>1, LedgersPart, PanelsPart, CountsStep DEF ConsoleInv
  <2>7. QED BY <2>1, <2>2, <2>3, <2>4, <2>5, <2>6 DEF ConsoleInv
<1>2. CASE UNCHANGED vars
  <2>1. /\ UNCHANGED pageSession /\ focus' = focus /\ extras' = extras
        /\ UNCHANGED overviewVars /\ UNCHANGED runVars /\ UNCHANGED logVars
        /\ UNCHANGED ledgerVars /\ UNCHANGED panelVars
    BY <1>2 DEF vars
  <2>2. OnScreen' /\ LedgerInv' /\ PanelInv'
    BY <2>1, OnScreenStep, LedgerStepInv, PanelStepInv DEF ConsoleInv
  <2>3. IF focus' = "overview" THEN OverviewInv' ELSE OverviewInit'
    <3>1. CASE focus = "overview"
      BY <2>1, <3>1, OverviewStep DEF ConsoleInv
    <3>2. CASE focus # "overview"
      <4>1. OverviewInit'
        BY <2>1, <3>2 DEF ConsoleInv, OverviewInit, overviewVars,
           layoutVars, socketVars, historyVars, drawnVars, barVars
      <4>2. QED BY <2>1, <3>2, <4>1
    <3>3. QED BY <3>1, <3>2
  <2>4. IF focus' = "runs" THEN RunInv' ELSE RunInit'
    <3>1. CASE focus = "runs"
      BY <2>1, <3>1, RunsStep DEF ConsoleInv
    <3>2. CASE focus # "runs"
      <4>1. RunInit'
        BY <2>1, <3>2 DEF ConsoleInv, RunInit, runVars
      <4>2. QED BY <2>1, <3>2, <4>1
    <3>3. QED BY <3>1, <3>2
  <2>5. IF focus' = "log" THEN LogInv' ELSE LogInit'
    <3>1. CASE focus = "log"
      BY <2>1, <3>1, LogStep DEF ConsoleInv
    <3>2. CASE focus # "log"
      <4>1. LogInit'
        BY <2>1, <3>2 DEF ConsoleInv, LogInit, logVars
      <4>2. QED BY <2>1, <3>2, <4>1
    <3>3. QED BY <3>1, <3>2
  <2>6. QED BY <2>1, <2>2, <2>3, <2>4, <2>5 DEF ConsoleInv
<1>3. QED BY <1>1, <1>2 DEF ConsoleNext

\* Before the first session every part is as it was made.
LEMMA ConsoleBegins == ConsoleInit => ConsoleInv
<1> SUFFICES ASSUME ConsoleInit PROVE ConsoleInv
  OBVIOUS
<1>1. OnScreen /\ extras \in Nat
  BY PageAssumption DEF ConsoleInit, NoSession, OnScreen
<1>2. /\ IF focus = "overview" THEN OverviewInv ELSE OverviewInit
      /\ IF focus = "runs" THEN RunInv ELSE RunInit
      /\ IF focus = "log" THEN LogInv ELSE LogInit
  BY OverviewInitInv, RunsInit, LogInitInv DEF ConsoleInit
<1>3. LedgerInv /\ PanelInv
  BY LedgerInitInv, PanelInitInv DEF ConsoleInit
<1>4. QED BY <1>1, <1>2, <1>3 DEF ConsoleInv, ConsoleInit
\* The Overview as it is made.
LEMMA OverviewMade == OnScreen /\ OverviewInit => OverviewTypeOK
<1> SUFFICES ASSUME OnScreen, OverviewInit PROVE OverviewTypeOK
  OBVIOUS
<1>1. Len(readings) = 0 /\ Len(readings) <= MaxReadings /\ begun \in Nat
  BY EmptySeq, OverviewAssumption DEF OverviewInit, OnScreen
<1>2. {connected, unavailable, collapsed, unfed, strayed} \subseteq BOOLEAN
  BY Zenon DEF OverviewInit
<1>3. alerts \in AlertAnswers
  BY DEF OverviewInit, AlertAnswers
<1>4. QED BY <1>1, <1>2, <1>3 DEF OverviewInit, OverviewTypeOK

\* The runs as they are made.
LEMMA RunsMade == OnScreen /\ RunInit => RunTypeOK
<1> SUFFICES ASSUME OnScreen, RunInit PROVE RunTypeOK
  OBVIOUS
<1>1. DOMAIN polls = 1..MaxPolls
      /\ \A n \in 1..MaxPolls : polls[n].stage = "over" /\ polls[n].session = 0 /\ polls[n].from = 0
  BY DEF RunInit, Idle
<1>2. history = 0 /\ MaxHistory \in Nat /\ begun \in Nat
  BY RunAssumption DEF OnScreen, RunInit
<1>3. {laidOut, lapsed, overlapped} \subseteq BOOLEAN /\ view \in {"matrix", "progress"}
      /\ headline = Unrendered
  BY DEF RunInit
<1>4. history \in 0..MaxHistory
  BY <1>2
<1>5. \A n \in DOMAIN polls :
        /\ polls[n].session \in 0..begun /\ polls[n].from \in 0..history
        /\ polls[n].stage \in {"over", "history", "layout", "progress"}
  BY <1>1, <1>2
<1>6. QED BY <1>3, <1>4, <1>5 DEF RunTypeOK

-----------------------------------------------------------------------------
\* The inductive invariant: each part of the page keeps what it knows in step with what it
\* shows, whenever sessions begin and end.
THEOREM ConsoleInductive == ConsoleSpec => []ConsoleInv
BY ConsoleBegins, ConsoleStep, PTL DEF ConsoleSpec

\* The Overview is drawn from the newest of the readings heard, however late answers, kept
\* readings and lost sockets interleave (updateQueues, applyPending).
THEOREM NewestReadingShownAlways == ConsoleSpec => []NewestReadingShown
<1>1. OverviewInit => NewestReadingShown
  BY DEF OverviewInit, NewestReadingShown, Blank, CellModel, AssessDlq
<1>2. ConsoleInv => NewestReadingShown
  BY <1>1, NewestProved DEF ConsoleInv
<1>3. QED BY <1>2, ConsoleInductive, PTL

\* "The bar and the matrix can never disagree", save where the pipeline is down or the live
\* feed was lost since the cell was drawn (updateAttention).
THEOREM BarAgreesWithMatrixAlways == ConsoleSpec => []BarAgreesWithMatrix
<1>1. OverviewInit => BarAgreesWithMatrix
  BY DEF OverviewInit, BarAgreesWithMatrix
<1>2. ConsoleInv => BarAgreesWithMatrix
  BY <1>1, BarProved DEF ConsoleInv
<1>3. QED BY <1>2, ConsoleInductive, PTL

\* "Nothing of the signed-in view outlives the session", save what a late answer to a request
\* of another session brings back (stop, _loadTopology, fetchInitialData).
THEOREM OutlivesOnlyByLateAnswerAlways == ConsoleSpec => []OutlivesOnlyByLateAnswer
<1>1. OverviewInit => OutlivesOnlyByLateAnswer
  BY DEF OverviewInit, OutlivesOnlyByLateAnswer, Closed
<1>2. ConsoleInv => OutlivesOnlyByLateAnswer
  BY <1>1 DEF ConsoleInv, OverviewInv, OverviewCore
<1>3. QED BY <1>2, ConsoleInductive, PTL

\* Between polls the headline and the Run progress view are those of the run, its progress and
\* the queue as they are known now, however the polls overtake each other (fetchRunProgress,
\* renderRunProgress).
THEOREM RunViewIsCurrentAlways == ConsoleSpec => []RunViewIsCurrent
<1>1. RunInit => RunViewIsCurrent
  BY DEF RunInit, RunViewIsCurrent
<1>2. ConsoleInv => RunViewIsCurrent
  BY <1>1, RunsProved DEF ConsoleInv
<1>3. QED BY <1>2, ConsoleInductive, PTL

\* A tab in front that is being refreshed shows what is chosen in it, once it is at rest and
\* unless reads of it overlapped (_switchTab, the panels' fetches).
THEOREM PanelsShowChosenAlways == ConsoleSpec => []PanelsShowChosen
<1>1. ConsoleInv => PanelsShowChosen
  BY PanelsProved DEF ConsoleInv
<1>2. QED BY <1>1, ConsoleInductive, PTL

\* The analysis on screen is that of the version selected, unless its reads overlapped
\* (selectVersion, fetchReport).
THEOREM AnalysisIsOfVersionAlways == ConsoleSpec => []AnalysisIsOfVersion
<1>1. ConsoleInv => AnalysisIsOfVersion
  BY PanelsProved DEF ConsoleInv
<1>2. QED BY <1>1, ConsoleInductive, PTL

\* However answers overtake each other, a ledger panel at rest shows what is chosen now
\* (_ledgerRead).
THEOREM LedgerShowsChoiceAlways == ConsoleSpec => []LedgerShowsChoice
<1>1. ConsoleInv => LedgerShowsChoice
  BY DEF ConsoleInv, LedgerInv
<1>2. QED BY <1>1, ConsoleInductive, PTL

\* What is said to be being built is asked for again, across sign-outs (_ledgerBuilding,
\* stopLedgerRetries).
THEOREM RetryIsOwedAlways == ConsoleSpec => []RetryIsOwed
<1>1. ConsoleInv => RetryIsOwed
  BY DEF ConsoleInv, LedgerInv
<1>2. QED BY <1>1, ConsoleInductive, PTL

\* However the backlog of the server, its live events and the polls of the audit log
\* interleave, and across a restart of the server, the log is newest first, says nothing twice
\* and has every event the connection handed over that a cut did not leave out
\* (applyEventBacklog, applyServerEvent, _replaceLogSource, _trimActivityLog).
THEOREM LogKeepsNewestAlways == ConsoleSpec => []LogKeepsNewest
<1>1. ConsoleInv => LogKeepsNewest
  BY LogInitInv, LogProved DEF ConsoleInv
<1>2. QED BY <1>1, ConsoleInductive, PTL

\* Every part of the page is of its type, with the bounds the types state: sessions, histories,
\* the log's limit, the requests under way (Dashboard, AdminDashboard).
THEOREM ConsoleTypeCorrect == ConsoleSpec => []ConsoleTypeOK
<1>1. ConsoleInv => ConsoleTypeOK
  <2> SUFFICES ASSUME ConsoleInv PROVE ConsoleTypeOK
    OBVIOUS
  <2>1. session \in 0..MaxSessions /\ begun \in 0..MaxSessions
    BY PageAssumption DEF ConsoleInv, OnScreen
  <2>2. OverviewTypeOK
    BY OverviewTyped, OverviewMade DEF ConsoleInv
  <2>3. RunTypeOK
    BY RunsMade DEF ConsoleInv, RunInv
  <2>4. LogTypeOK
    BY LogInitInv, LogProved DEF ConsoleInv
  <2>5. LedgerTypeOK /\ TabsTypeOK /\ AnalysisTypeOK
    BY DEF ConsoleInv, LedgerInv, PanelInv
  <2>6. QED BY <2>1, <2>2, <2>3, <2>4, <2>5 DEF ConsoleInv, ConsoleTypeOK
<1>2. QED BY <1>1, ConsoleInductive, PTL
=============================================================================
