----------------------------- MODULE RunProgress -----------------------------
(***************************************************************************)
(* The runs on the Overview (RunProgress and the progress polling in       *)
(* static/dashboard.js): which run of a pipeline is shown, what            *)
(* /api/progress said of it, the headline with its finish time and the Run *)
(* progress view.  One pipeline with one cell stands for all.  A poll is   *)
(* four steps: it reads the history of the runs, waits for the layout,     *)
(* reads the progress of the run and draws; polls may be under way at the  *)
(* same time and answers come in any order.                                *)
(***************************************************************************)
EXTENDS PageSession, QueueHealth

CONSTANTS
  MaxHistory,  \* bound: steps of catalog-api's history of the runs
  MaxPolls,    \* bound: polls under way at a time
  MaxPolled    \* bound: polls of the timer, lost feeds and failures, all told

ASSUME RunAssumption == {MaxHistory, MaxPolls, MaxPolled} \subseteq Nat

VARIABLES
  history,   \* catalog-api: how far its runs have got
  runs,      \* Dashboard.runs of the pipeline: a run, or NoRun
  progress,  \* Dashboard.runProgress of the pipeline
  polls,     \* fetchRunProgress under way, by a number of their own
  laidOut,   \* the layout is drawn
  assessed,  \* the cell as the matrix assesses it
  headline,  \* the pipeline's headline as drawn
  view,      \* overviewView
  section,   \* the pipeline's section of the Run progress view as drawn
  lapsed,    \* the histories were broken since the headline was drawn
  overlapped    \* in this session, two polls overlapped or a progress read was refused

runVars == <<history, runs, progress, polls, laidOut, assessed, headline, view, section,
             lapsed, overlapped>>
-----------------------------------------------------------------------------
Unrendered == "unrendered"   \* an element just made, nothing rendered in it
NoRun == [id |-> 0, phase |-> None]
NoData  == [extracted |-> Unknown, waiting |-> FALSE, expected |-> Unknown, loaded |-> Unknown,
            read |-> FALSE]
NoEntry == [key |-> NoRun, data |-> NoData, error |-> FALSE]
Empty   == [run |-> NoRun, summary |-> Unrendered, row |-> None]
Idle    == [session |-> 0, stage |-> "over", from |-> 0, key |-> NoRun]

\* catalog-api's history of the runs, newest first, after n steps: a run is recorded, starts
\* and ends.
Recorded(n) ==
  LET newest == (n + 2) \div 3
  IN [i \in 1..newest |->
        [id |-> newest + 1 - i,
         phase |-> IF i > 1 THEN "ended" ELSE <<"ended", "pending", "running">>[(n % 3) + 1]]]

\* latestRuns: the newest run that has started.
LatestRun(extractions) ==
  LET started == SelectSeq(extractions, LAMBDA run : run.phase # "pending")
  IN IF started = <<>> THEN NoRun ELSE Head(started)

\* isRunning
IsRunning(run) == run.phase = "running"

\* What the matrix says of the cell: Lost without histories, Off when the scrape failed.
Lost     == [kind |-> "missing", state |-> "unknown", dlq |-> "dlq-missing",
             ack |-> Unknown, depth |-> Unknown, dead |-> 0]
Off      == [Lost EXCEPT !.kind = "unavailable", !.dlq = "unavailable"]
Flowing  == [kind |-> "flowing", state |-> "ok", dlq |-> "dlq-empty",
             ack |-> 1, depth |-> 1, dead |-> 0]
Drained  == [Flowing EXCEPT !.kind = "drained", !.ack = 0, !.depth = 0]
Stuck    == [Flowing EXCEPT !.kind = "stalled", !.state = "crit", !.ack = 0]
Growing  == [Drained EXCEPT !.dlq = "dlq-growing", !.dead = 1]
Assessments == {Lost, Off, Flowing, Drained, Stuck, Growing}

\* _resetHistory: the histories go, queuesUnavailable stays.
Broken == IF assessed = Off THEN Off ELSE Lost

\* What /api/progress says of the cell's entity and queue.
NotYet   == [extracted |-> 0, waiting |-> FALSE, expected |-> 3, loaded |-> 0, read |-> FALSE]
Reading  == [NotYet EXCEPT !.extracted = 2, !.loaded = 1]
WasRead  == [NotYet EXCEPT !.extracted = 3, !.loaded = 2, !.read = TRUE]
Before   == [Reading EXCEPT !.waiting = TRUE]
NoFile   == [Reading EXCEPT !.expected = Unknown]
NoBase   == [Reading EXCEPT !.loaded = Unknown]
Answers  == {NotYet, Reading, WasRead, Before, NoFile, NoBase}

\* gap: why the progress of the cell cannot be derived.
Gap(data) ==
  CASE data.extracted = Unknown -> "no history"
    [] data.extracted # Unknown ->
       CASE data.extracted = 0 -> "not extracted"
         [] data.extracted # 0 /\ data.waiting -> "no checkpoint"
         [] data.extracted # 0 /\ ~data.waiting ->
              IF data.expected = Unknown THEN "no file progress"
              ELSE IF data.loaded = Unknown THEN "no baseline" ELSE None

\* eta: the time the rest takes at the mean ack rate, 0 once nothing remains or nothing more
\* can come, Unknown when neither can be told.
Eta(data, cell) ==
  IF data.expected = Unknown \/ data.loaded = Unknown THEN Unknown
  ELSE LET rest == data.expected - data.loaded - cell.dead
       IN CASE rest < 1 -> 0
            [] rest >= 1 /\ cell.ack \notin {Unknown, 0} -> (rest + cell.ack - 1) \div cell.ack
            [] OTHER -> IF data.read /\ cell.depth = 0 THEN 0 ELSE Unknown

\* headline: what stops the run, else why its progress is unknown, else its finish time.
Headline(run, entry, cell) ==
  IF ~IsRunning(run) THEN None
  ELSE IF cell.kind \in {"stalled", "no-consumer"} \/ cell.dlq = "dlq-growing"
       THEN "cannot finish"
  ELSE IF entry.error \/ Gap(entry.data) # None THEN "unavailable"
  ELSE LET eta == Eta(entry.data, cell)
       IN IF eta = Unknown THEN "unknown" ELSE IF eta = 0 THEN "loaded" ELSE "finishes"

\* _renderRunPipeline, _renderRunEntity, _renderRunRow: the run, and the bar of its cell.
Section(run, entry, cell) ==
  IF run = NoRun THEN [run |-> NoRun, summary |-> None, row |-> None]
  ELSE [run     |-> run,
        summary |-> IF IsRunning(run) THEN Headline(run, entry, cell) ELSE run.phase,
        row     |-> CASE entry.error -> "error"
                      [] ~entry.error /\ entry.data = NoData -> None
                      [] ~entry.error /\ entry.data # NoData ->
                           IF Gap(entry.data) # None THEN Gap(entry.data)
                           ELSE IF cell.state = "crit" THEN cell.kind
                           ELSE IF ~IsRunning(run) THEN "loaded"
                           ELSE IF Eta(entry.data, cell) = Unknown THEN "ETA unknown" ELSE "ETA"]

\* The constructor.
RunInit ==
  /\ history = 0 /\ runs = NoRun /\ progress = NoEntry
  /\ polls = [n \in 1..MaxPolls |-> Idle]
  /\ laidOut = FALSE /\ assessed = Lost
  /\ headline = Unrendered /\ view = "matrix" /\ section = Empty
  /\ lapsed = FALSE /\ overlapped = FALSE
-----------------------------------------------------------------------------
(* What is drawn, from what the step leaves *)

DrawHeadline == headline' = Headline(runs', progress', assessed') /\ lapsed' = FALSE
DrawSection  == section' = Section(runs', progress', assessed')
Undrawn      == UNCHANGED <<headline, section, lapsed>>

\* The end of a poll: nothing is drawn for an earlier session.
\* Mutant: the Run progress view waits for the next reading.
FinishPollHeadline(n) ==
  /\ polls' = [polls EXCEPT ![n] = Idle]
  /\ IF polls[n].session = session THEN DrawHeadline /\ UNCHANGED section ELSE Undrawn
FinishPoll(n) ==
  /\ polls' = [polls EXCEPT ![n] = Idle]
  /\ IF polls[n].session = session THEN DrawHeadline /\ DrawSection ELSE Undrawn

\* A finished run that has been read is not read again.
\* Mutant: one that was read while it ran counts as read.
KnownById(run) == run.phase = "ended" /\ progress.key.id = run.id /\ progress.data # NoData
Known(run)    == run.phase = "ended" /\ progress.key = run /\ progress.data # NoData

\* fetchRunProgress once the layout is known, _fetchPipelineProgress: the polls in ready ask
\* for the progress of the run, whose session is not asked for again.
Proceed(ready) ==
  IF runs' = NoRun \/ Known(runs')
  THEN /\ progress' = IF runs' = NoRun THEN NoEntry ELSE progress
       /\ polls' = [n \in DOMAIN polls |-> IF n \in ready THEN Idle ELSE polls[n]]
       /\ IF \E n \in ready : polls[n].session = session
          THEN DrawHeadline /\ DrawSection ELSE Undrawn
  ELSE /\ UNCHANGED <<progress, headline, section, lapsed>>
       /\ polls' = [n \in DOMAIN polls |->
                      IF n \notin ready THEN polls[n]
                      ELSE [polls[n] EXCEPT !.stage = "progress", !.from = 0, !.key = runs']]

InSession == {n \in DOMAIN polls : polls[n].stage # "over" /\ polls[n].session = session}

\* fetchRunProgress: it asks for the history first.
Poll(s) ==
  \E n \in DOMAIN polls :
    /\ polls[n].stage = "over" /\ \A m \in 1..(n - 1) : polls[m].stage # "over"
    /\ polls' = [polls EXCEPT ![n] = [session |-> s, stage |-> "history", from |-> history,
                                      key |-> NoRun]]
-----------------------------------------------------------------------------
(* The session *)

\* start, startProgressPolling
StartRuns ==
  /\ IF \E n \in DOMAIN polls : polls[n].stage = "over" THEN Poll(session') ELSE UNCHANGED polls
  /\ UNCHANGED <<history, runs, progress, laidOut, assessed, headline, view, section, lapsed,
                 overlapped>>

\* stop, stopProgressPolling
StopRuns ==
  /\ runs' = NoRun /\ progress' = NoEntry
  /\ laidOut' = FALSE /\ assessed' = Broken
  /\ headline' = Unrendered /\ view' = "matrix" /\ section' = Empty
  /\ lapsed' = FALSE /\ overlapped' = FALSE
  /\ UNCHANGED <<history, polls>>
-----------------------------------------------------------------------------
(* The polls *)

\* catalog-api records, starts or ends a run.
RunAdvances ==
  /\ history < MaxHistory /\ history' = history + 1
  /\ UNCHANGED <<extras, runs, progress, polls, laidOut, assessed, headline, view, section,
                 lapsed, overlapped>>

\* The poll timer comes round, whether the poll before is answered or not.
PollRuns ==
  /\ Extra(MaxPolled)
  /\ session # 0
  /\ Poll(session)
  /\ overlapped' = (overlapped \/ InSession # {})
  /\ UNCHANGED <<history, runs, progress, laidOut, assessed, headline, view, section, lapsed>>

\* Goes on from the history: straight away when the layout is there.
FromHistory(n) ==
  IF laidOut THEN Proceed({n})
  ELSE /\ polls' = [polls EXCEPT ![n].stage = "layout", ![n].from = 0]
       /\ UNCHANGED <<progress, headline, section, lapsed>>

Dropped(n) ==
  /\ polls' = [polls EXCEPT ![n] = Idle]
  /\ UNCHANGED <<runs, progress, headline, section, lapsed>>

\* The history is answered, as it was at any time since it was asked for.
HistoryAnswered(n) ==
  /\ polls[n].stage = "history"
  /\ UNCHANGED <<extras, history, laidOut, assessed, view, overlapped>>
  /\ IF polls[n].session # session THEN Dropped(n)
     ELSE /\ \E then \in polls[n].from..history : runs' = LatestRun(Recorded(then))
          /\ FromHistory(n)

\* Offline, malformed or an error: the runs already known are kept, and their progress read.
HistoryFails(n) ==
  /\ polls[n].stage = "history"
  /\ Extra(MaxPolled)
  /\ UNCHANGED <<history, laidOut, assessed, view, overlapped>>
  /\ IF polls[n].session # session THEN Dropped(n) ELSE UNCHANGED runs /\ FromHistory(n)

\* A refusal hands the decision to admin.js.
HistoryRefused(n) ==
  /\ polls[n].stage = "history"
  /\ Extra(MaxPolled)
  /\ Dropped(n)
  /\ UNCHANGED <<history, laidOut, assessed, view, overlapped>>

AtLayout == {n \in DOMAIN polls : polls[n].stage = "layout"}

\* The layout is drawn, with elements nothing is rendered in yet, and those who waited go on;
\* one that was asked for in an earlier session is drawn at the login form too.
LayoutDrawn ==
  /\ ~laidOut
  /\ laidOut' = TRUE
  /\ UNCHANGED <<extras, history, runs, assessed, view, overlapped>>
  /\ IF AtLayout = {} THEN UNCHANGED <<progress, polls, headline, section, lapsed>>
     ELSE Proceed(AtLayout)

\* The layout is refused or lost: those who waited give up.
LayoutLost ==
  /\ ~laidOut /\ AtLayout # {}
  /\ Extra(MaxPolled)
  /\ polls' = [n \in DOMAIN polls |-> IF n \in AtLayout THEN Idle ELSE polls[n]]
  /\ UNCHANGED <<history, runs, progress, laidOut, assessed, headline, view, section, lapsed,
                 overlapped>>

\* The progress is answered, or the read fails: an answer for an earlier session is dropped.
ProgressAnswered(n) ==
  /\ polls[n].stage = "progress"
  /\ UNCHANGED <<extras, history, runs, laidOut, assessed, view, overlapped>>
  /\ IF polls[n].session # session THEN UNCHANGED progress
     ELSE progress' \in [key : {polls[n].key}, data : Answers, error : {FALSE}]
                          \cup [key : {polls[n].key}, data : {NoData}, error : {TRUE}]
  /\ FinishPoll(n)

\* A refusal leaves what is known.
ProgressRefused(n) ==
  /\ polls[n].stage = "progress"
  /\ Extra(MaxPolled)
  /\ overlapped' = (overlapped \/ polls[n].session = session)
  /\ UNCHANGED <<history, runs, progress, laidOut, assessed, view>>
  /\ FinishPoll(n)
-----------------------------------------------------------------------------
(* The matrix and the views *)

\* updateQueues, _renderQueueValues: a reading redraws the headline, and the view when it is
\* shown, whoever asked for it.
MatrixReading ==
  /\ laidOut
  /\ assessed' \in Assessments \ {assessed}
  /\ UNCHANGED <<extras, history, runs, progress, polls, laidOut, view, overlapped>>
  /\ DrawHeadline
  /\ IF view = "progress" THEN DrawSection ELSE UNCHANGED section

\* onclose, _resetHistory: the histories are gone, what is drawn stays.
FeedLost ==
  /\ session # 0 /\ assessed # Lost
  /\ Extra(MaxPolled)
  /\ assessed' = Broken /\ lapsed' = TRUE
  /\ UNCHANGED <<history, runs, progress, polls, laidOut, headline, view, section, overlapped>>

\* showOverviewView, renderRunProgress
ShowOverviewView ==
  /\ session # 0
  /\ view' = IF view = "matrix" THEN "progress" ELSE "matrix"
  /\ UNCHANGED <<extras, history, runs, progress, polls, laidOut, assessed, headline, lapsed,
                 overlapped>>
  /\ IF view' = "progress" /\ laidOut THEN DrawSection ELSE UNCHANGED section

RunNext ==
  \/ RunAdvances \/ PollRuns
  \/ \E n \in DOMAIN polls :
       \/ HistoryAnswered(n) \/ HistoryFails(n) \/ HistoryRefused(n)
       \/ ProgressAnswered(n) \/ ProgressRefused(n)
  \/ LayoutDrawn \/ LayoutLost
  \/ MatrixReading \/ FeedLost \/ ShowOverviewView
-----------------------------------------------------------------------------
(* Properties *)

RunTypeOK ==
  /\ history \in 0..MaxHistory
  /\ \A n \in DOMAIN polls :
       /\ polls[n].session \in 0..begun /\ polls[n].from \in 0..history
       /\ polls[n].stage \in {"over", "history", "layout", "progress"}
  /\ {laidOut, lapsed, overlapped} \subseteq BOOLEAN
  /\ headline \in {Unrendered, None, "cannot finish", "unavailable", "unknown", "loaded", "finishes"}
  /\ view \in {"matrix", "progress"}

\* However polls, readings and switches of the view interleave: between polls the progress
\* kept is that of the run shown, unless polls of this session have overlapped or a read of it
\* was refused (the bars of an earlier run may then stand under the new one until a poll has
\* the progress to itself), and the headline and the view in front of the operator are those
\* of the run, its progress and the cell as they are known now, unless the live feed was lost
\* since (fetchRunProgress, _fetchPipelineProgress, _renderHeadline, renderRunProgress,
\* updateQueues).
RunViewIsCurrent ==
  InSession = {} =>
    /\ (laidOut /\ ~overlapped) => progress.key \in {NoRun, runs}
    /\ ~lapsed =>
         /\ headline # Unrendered => headline = Headline(runs, progress, assessed)
         /\ (view = "progress" /\ section # Empty) => section = Section(runs, progress, assessed)
=============================================================================
