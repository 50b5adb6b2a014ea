--------------------------- MODULE BrowserSession ---------------------------
(***************************************************************************)
(* The session as one browser tab sees it: the page that owns it           *)
(* (static/admin.js), the Overview that feeds on it (static/dashboard.js), *)
(* the cookie that carries it and the console's answers.  The page never   *)
(* sees the cookie: it only compares generations.  Every request carries   *)
(* the cookie of the moment it was sent, and its answer is handled at      *)
(* another, when the page may show another session.                        *)
(***************************************************************************)
EXTENDS Integers, FiniteSets

CONSTANTS
  MaxSessions,  \* bound: sessions ever issued, the cookie's at the start included
  MaxSurprises, \* bound: reloads, rounds of the session watch, reads beyond the first of a
                \* session, 503s, other failures of a session check, dropped sockets and
                \* grants of a dead session, all told
  MaxClicks     \* bound: sign-outs in flight at once (the button stays enabled)

ASSUME BrowserAssumption == MaxSessions \in Nat \ {0} /\ {MaxSurprises, MaxClicks} \subseteq Nat

VARIABLES
  honoured,   \* sessions catalog-api honours
  issued,     \* sessions issued so far: 1 .. issued
  cookie,     \* the session in the browser's cookie, 0 for no cookie
  calls,      \* requests whose answers the page has not handled yet
  gen,        \* sessionGeneration
  shown,      \* the session whose console is on screen, 0 when signed out
  signingOut, \* signingOut
  pending,    \* SIGNOUT_PENDING_KEY in localStorage
  reason,     \* why the login form shows; "loading" while neither view does
  active,     \* Dashboard.active
  feedFor,    \* Dashboard.session: the generation it was started for
  timer,      \* Dashboard.reconnectTimer is set
  ws,         \* Dashboard.ws
  ended,      \* the session whose console the login form replaced, or 0
  clicked,    \* sessions in which the user has clicked Sign out
  crossed,    \* those clicked in while a sign-out that carried no cookie was under way
  left,       \* sessions the user has signed out of: such a click, and the page let it go
  surprises   \* counted against their bound

serverVars == <<honoured, issued>>
signOutVars == <<clicked, crossed, left>>
pageVars   == <<gen, shown, signingOut, pending, reason, ended, signOutVars>>
feedVars   == <<active, feedFor, timer, ws>>
browserVars == <<serverVars, cookie, calls, pageVars, feedVars, surprises>>
-----------------------------------------------------------------------------
Gated  == {"load", "resume", "watch", "asked", "read", "look", "ticket"}
Kinds  == Gated \cup {"login", "logout"}
Refused == {"missing", "invalid"}  \* both are a 401
Checks  == {"load", "resume", "watch", "asked"}  \* checkSession
Answers == Refused \cup {"ok", "unavailable", "failed", "lost", "denied"}
NoWs   == [session |-> 0, at |-> "none"]

\* A request sent now; two that nothing tells apart are one.
Ask(kind, g) == [kind |-> kind, gen |-> g, carries |-> cookie']
InFlight(kind) == {c \in calls : c.kind = kind}
Send(new)      == calls' = calls \cup new
Handle(c, new) == calls' = (calls \ {c}) \cup new

\* initializeWebSocket, on a page that is active: `connecting` means a ticket is under way.
Tickets ==
  IF InFlight("ticket") # {} \/ ws # NoWs THEN {} ELSE {Ask("ticket", 0)}

\* requestSessionCheck, onSessionCheckRequested
Check == IF shown = 0 THEN {} ELSE {Ask("asked", gen)}

Surprise == surprises < MaxSurprises /\ surprises' = surprises + 1

BrowserInit ==
  /\ cookie \in 0..1 /\ issued = cookie
  /\ honoured \in SUBSET (1..issued)
  /\ calls = {[kind |-> "load", gen |-> 1, carries |-> cookie]}
  /\ gen = 1 /\ shown = 0 /\ signingOut = FALSE /\ pending = FALSE /\ reason = "loading"
  /\ active = FALSE /\ feedFor = 0 /\ timer = FALSE /\ ws = NoWs
  /\ ended = 0 /\ clicked = {} /\ crossed = {} /\ left = {}
  /\ surprises = 0
-----------------------------------------------------------------------------
(* The console and catalog-api *)

Revoke(s) ==
  /\ s \in honoured
  /\ honoured' = honoured \ {s}
  /\ UNCHANGED <<issued, cookie, calls, pageVars, feedVars, surprises>>

\* The gate's answer to a session, and catalog-api's to its sign-out.
Verdict(s) == IF s = 0 THEN "missing" ELSE IF s \in honoured THEN "ok" ELSE "invalid"

\* The console answers c with a: proxy_login, proxy_logout, and every gated route.
Serve(c, a) ==
  /\ UNCHANGED surprises
  /\ \/ c.kind \in Gated /\ a = Verdict(c.carries) /\ UNCHANGED serverVars
     \/ /\ c.kind = "logout" /\ a = Verdict(c.carries)
        /\ honoured' = honoured \ {c.carries}
        /\ UNCHANGED issued
     \/ /\ c.kind = "login" /\ a = "ok" /\ issued < MaxSessions
        /\ issued' = issued + 1
        /\ honoured' = honoured \cup {issued'}
     \/ c.kind = "login" /\ a = "denied" /\ UNCHANGED serverVars

\* No usable answer: catalog-api or the console cannot be reached, or the answer is lost,
\* whether the request was done or not (a sign-out that was is a Revoke before; a login
\* that was is denied to the page all the same); a session check may fail in any other way.
\* Or the session died after the answer was given, or while the gate's cache still vouched
\* for it.
Fail(c, a) ==
  /\ \/ a = "lost" /\ c.kind = "logout" /\ UNCHANGED surprises
     \/ Surprise /\ a = "unavailable" /\ c.kind # "login"
     \/ Surprise /\ a = "failed" /\ c.kind \in Checks
     \/ Surprise /\ a = "ok" /\ c.kind \in Gated /\ c.carries \notin honoured \cup {0}
  /\ UNCHANGED serverVars
-----------------------------------------------------------------------------
(* What the browser and the page do with an answer *)

\* Set-Cookie: a login sets the cookie; a refusal of the session a request carried, and any
\* answer to a logout that carried one, clears whatever cookie there is.
Jar(c, a) ==
  IF c.kind = "login" /\ a = "ok" THEN issued'
  ELSE IF /\ c.kind # "login" /\ c.carries # 0
          /\ a = "invalid" \/ (c.kind = "logout" /\ a # "lost")
  THEN 0 ELSE cookie

\* checkSession words a failure that names no reason, and is no 503, as "invalid"; here it
\* keeps its own name.
Discards  == {"signed-out", "signed-out-unconfirmed", "missing", "invalid", "failed"}

\* Mutant of StopFeed: the session it was started for is not forgotten.
StopFeedRemembering == active' = FALSE /\ timer' = FALSE /\ ws' = NoWs /\ UNCHANGED feedFor

\* stop
StopFeed == active' = FALSE /\ feedFor' = 0 /\ timer' = FALSE /\ ws' = NoWs

\* showLogin
ShowLogin(why) ==
  /\ shown' = 0 /\ reason' = why /\ ended' = shown
  /\ IF shown = 0 THEN UNCHANGED feedVars ELSE StopFeed

\* endSession
EndSession(why) ==
  /\ gen' = IF why \in Discards THEN gen + 1 ELSE gen
  /\ ShowLogin(why)

\* Mutant of StartFeed: a session confirmed again is left as it is.
StartFeedOnce(c, new) ==
  IF active /\ feedFor = gen
  THEN Handle(c, new) /\ UNCHANGED feedVars
  ELSE /\ active' = TRUE /\ feedFor' = gen
       /\ Handle(c, new \cup Tickets \cup {Ask("look", gen)})
       /\ UNCHANGED <<timer, ws>>

\* start: a session confirmed again reconnects on the backoff; a new one reads afresh.
StartFeed(c, new) ==
  IF active /\ feedFor = gen
  THEN /\ timer' = TRUE
       /\ Handle(c, new)
       /\ UNCHANGED <<active, feedFor, ws>>
  ELSE /\ active' = TRUE /\ feedFor' = gen
       /\ Handle(c, new \cup Tickets \cup {Ask("look", gen)})
       /\ UNCHANGED <<timer, ws>>

Ignore(c) == Handle(c, {}) /\ UNCHANGED <<pageVars, feedVars>>

\* Mutant of Owns: a session is ended by an answer about an earlier one.
OwnsAny(c) == c.gen <= gen /\ shown # 0 /\ ~signingOut

\* ownsSession
Owns(c) == c.gen = gen /\ shown # 0 /\ ~signingOut

\* resumeSession, showPanel
Resumed(c, a) ==
  /\ c.kind \in {"load", "resume"}
  /\ IF c.gen # gen THEN Ignore(c)
     ELSE IF a = "ok"
     THEN /\ shown' = c.carries
          /\ reason' = "none" /\ ended' = 0
          /\ StartFeed(c, {Ask("read", gen)})
          /\ UNCHANGED <<gen, signingOut, pending, signOutVars>>
     ELSE /\ Handle(c, {})
          /\ IF c.kind = "load" /\ a = "missing"
             THEN ShowLogin("none") /\ UNCHANGED gen
             ELSE EndSession(a)
          /\ UNCHANGED <<signingOut, pending, signOutVars>>

\* verifySession, onSessionCheckRequested
Verified(c, a) ==
  /\ c.kind \in {"watch", "asked"}
  /\ IF a # "ok" /\ Owns(c)
     THEN /\ EndSession(IF a = "missing" THEN "invalid" ELSE a)
          /\ Handle(c, {})
          /\ UNCHANGED <<signingOut, pending, signOutVars>>
     ELSE IF a = "ok" /\ c.kind = "asked" /\ shown # 0
     THEN StartFeed(c, {}) /\ UNCHANGED pageVars
     ELSE Ignore(c)

\* authFetch
ReadAnswered(c, a) ==
  /\ c.kind = "read"
  /\ IF a \in Refused /\ Owns(c)
     THEN EndSession("invalid") /\ Handle(c, {}) /\ UNCHANGED <<signingOut, pending, signOutVars>>
     ELSE Ignore(c)

\* The Overview's own reads: a refusal hands the decision back to the page.
LookAnswered(c, a) ==
  /\ c.kind = "look"
  /\ Handle(c, IF a \in Refused \cup {"unavailable"} THEN Check ELSE {})
  /\ UNCHANGED <<pageVars, feedVars>>

\* Mutant of TicketAnswered: the page is not asked whether it is still active.
TicketAnsweredAlways(c, a) ==
  /\ c.kind = "ticket"
  /\ Handle(c, IF a \in Refused THEN Check ELSE {})
  /\ ws' = IF a = "ok" THEN [session |-> c.carries, at |-> "opening"] ELSE ws
  /\ timer' = (timer \/ a = "unavailable")
  /\ UNCHANGED <<pageVars, active, feedFor>>

\* _fetchTicket, initializeWebSocket
TicketAnswered(c, a) ==
  /\ c.kind = "ticket"
  /\ Handle(c, IF a \in Refused THEN Check ELSE {})
  /\ ws' = IF active /\ a = "ok" THEN [session |-> c.carries, at |-> "opening"] ELSE ws
  /\ timer' = (timer \/ (active /\ a = "unavailable"))
  /\ UNCHANGED <<pageVars, active, feedFor>>

\* login: the session check that follows is part of the same wait
SignedIn(c, a) ==
  /\ c.kind = "login"
  /\ IF a = "ok"
     THEN /\ gen' = gen + 1 /\ pending' = FALSE
          /\ Handle(c, {Ask("resume", gen + 1)})
          /\ UNCHANGED <<shown, signingOut, reason, ended, signOutVars, feedVars>>
     ELSE Ignore(c)

\* The session on screen is let go; it counts as signed out of if the user clicked in it.
LetGo == left' = left \cup (clicked \cap {shown}) /\ UNCHANGED <<clicked, crossed>>

\* Mutant of SignedOut: an unanswered sign-out is not retried on the next load.
SignedOutForgetful(c, a) ==
  /\ c.kind = "logout"
  /\ signingOut' = FALSE /\ pending' = FALSE
  /\ EndSession("signed-out") /\ LetGo
  /\ Handle(c, {})

\* logout: the answer to any click ends whatever session is on screen
SignedOut(c, a) ==
  /\ c.kind = "logout"
  /\ signingOut' = FALSE
  /\ pending' = (a = "lost")
  /\ EndSession(IF a \in {"ok"} \cup Refused THEN "signed-out"
                ELSE "signed-out-unconfirmed")
  /\ LetGo
  /\ Handle(c, {})

Receive(c, a) ==
  /\ cookie' = Jar(c, a)
  /\ \/ Resumed(c, a) \/ Verified(c, a) \/ ReadAnswered(c, a) \/ LookAnswered(c, a)
     \/ TicketAnswered(c, a) \/ SignedIn(c, a) \/ SignedOut(c, a)

Answered(c) == \E a \in Answers : Serve(c, a) /\ Receive(c, a)
Troubled(c) == \E a \in Answers : Fail(c, a) /\ Receive(c, a)
-----------------------------------------------------------------------------
(* The user, the page's timers and the socket *)

\* One sign-in at a time: its button is disabled until the session check is answered.
Login ==
  /\ shown = 0 /\ reason # "loading"
  /\ issued < MaxSessions
  /\ InFlight("login") \cup InFlight("resume") = {}
  /\ UNCHANGED cookie
  /\ Send({Ask("login", 0)})
  /\ UNCHANGED <<serverVars, pageVars, feedVars, surprises>>

\* The button stays enabled: two clicks that are alike are told apart by their numbers.
Logout ==
  /\ shown # 0
  /\ UNCHANGED cookie
  /\ \E n \in 1..MaxClicks :
       /\ \A c \in InFlight("logout") : c.gen # n
       /\ \A m \in 1..(n - 1) : \E c \in InFlight("logout") : c.gen = m
       /\ Send({Ask("logout", n)})
  /\ signingOut' = TRUE
  /\ clicked' = clicked \cup {shown}
  /\ crossed' = IF \E c \in InFlight("logout") : c.carries = 0
                THEN crossed \cup {shown} ELSE crossed
  /\ UNCHANGED <<serverVars, gen, shown, pending, reason, ended, left, feedVars, surprises>>

\* The session watch comes round.
Watch ==
  /\ shown # 0
  /\ \A c \in InFlight("watch") : c.gen # gen
  /\ Surprise
  /\ UNCHANGED cookie
  /\ Send({Ask("watch", gen)})
  /\ UNCHANGED <<serverVars, pageVars, feedVars>>

\* A panel reads, or one of the Overview's polls comes round.
Read(kind) ==
  /\ shown # 0
  /\ \A c \in InFlight(kind) : c.gen # gen
  /\ Surprise
  /\ UNCHANGED cookie
  /\ Send({Ask(kind, gen)})
  /\ UNCHANGED <<serverVars, pageVars, feedVars>>

\* start: a sign-out that never reached the console is finished first.
Reload ==
  /\ Surprise
  /\ UNCHANGED cookie
  /\ gen' = 1 /\ shown' = 0 /\ reason' = "loading" /\ ended' = 0
  /\ signingOut' = pending
  /\ calls' = {IF pending THEN Ask("logout", 0) ELSE Ask("load", 1)}
  /\ StopFeed
  /\ UNCHANGED <<serverVars, pending, signOutVars>>

Reconnect ==
  /\ timer
  /\ timer' = FALSE
  /\ UNCHANGED cookie
  /\ Send(IF active THEN Tickets ELSE {})
  /\ UNCHANGED <<serverVars, pageVars, active, feedFor, ws, surprises>>

SocketOpens ==
  /\ ws.at = "opening" /\ ws.session \in honoured
  /\ ws' = [ws EXCEPT !.at = "open"]
  /\ UNCHANGED <<serverVars, cookie, calls, pageVars, active, feedFor, timer, surprises>>

\* 4401: the session is dead, or the ticket was voided.
SocketRefused ==
  /\ ws # NoWs
  /\ \/ ws.session \notin honoured /\ UNCHANGED surprises
     \/ ws.at = "opening" /\ Surprise
  /\ ws' = NoWs
  /\ UNCHANGED cookie
  /\ Send(Check)
  /\ UNCHANGED <<serverVars, pageVars, active, feedFor, timer>>

SocketDrops ==
  /\ ws # NoWs
  /\ Surprise
  /\ ws' = NoWs /\ timer' = TRUE
  /\ UNCHANGED <<serverVars, cookie, calls, pageVars, active, feedFor>>

BrowserNext ==
  \/ \E c \in calls : Answered(c) \/ Troubled(c)
  \/ \E s \in 1..issued : Revoke(s)
  \/ Watch \/ \E kind \in {"read", "look"} : Read(kind)
  \/ Login \/ Logout \/ Reload
  \/ Reconnect \/ SocketOpens \/ SocketRefused \/ SocketDrops

BrowserSpec == BrowserInit /\ [][BrowserNext]_browserVars
-----------------------------------------------------------------------------
(* Properties *)

Sessions == 0..MaxSessions

\* Type invariant of the browser, the page and the console's side of it.
BrowserTypeOK ==
  /\ issued \in Sessions /\ honoured \subseteq 1..issued /\ cookie \in 0..issued
  /\ calls \subseteq [kind : Kinds, gen : Nat, carries : Sessions]
  /\ gen \in Nat \ {0} /\ {shown, ended} \subseteq Sessions
  /\ {signingOut, pending, active, timer} \subseteq BOOLEAN
  /\ reason \in Discards \cup {"loading", "none", "unavailable"}
  /\ feedFor \in 0..gen
  /\ ws \in [session : Sessions, at : {"none", "opening", "open"}]
  /\ left \subseteq clicked /\ crossed \subseteq clicked /\ clicked \subseteq 1..issued

\* The live view runs exactly while a console is on screen: whatever ticket, check or timer
\* of an earlier session is still under way, none leaves a socket, a timer or a feed behind
\* a login form (start, stop, initializeWebSocket).
FeedFollowsPanel ==
  /\ active = (shown # 0)
  /\ ~active => ~timer /\ ws = NoWs

\* Once signed out of, by a sign-out that reached the console or not, a session is never on
\* screen again, not even after a reload with its cookie still there, however many sign-outs
\* are under way and whichever is answered last (logout, start).  The one way back: a sign-out
\* sent when there was no cookie left to clear was still under way at the click, and its
\* answer took away the mark by which the next load retries (admin.js, line 818).
SignedOutStaysOut == shown \in left => shown \in crossed

\* "Your session expired or was revoked" replaces a console only when its session is dead
\* or its cookie is gone: no late answer about an earlier session ends it by itself
\* (ownsSession, authFetch, verifySession).  A session check that fails in a way that has no
\* reason of its own gets these words too, and is not meant here: see Discards.
EndsForCause ==
  (shown = 0 /\ reason = "invalid" /\ ended # 0) => (ended \notin honoured \/ cookie # ended)

\* A live view without a socket always has something under way that gets it one or ends its
\* session: a ticket, the reconnect timer, a session check of this very session, or a
\* sign-out.  No refused ticket, closed socket or late answer leaves the page waiting for
\* nobody (requestSessionCheck, onSessionCheckRequested, start, initializeWebSocket).
FeedNeverStranded ==
  active => \/ ws # NoWs \/ timer \/ signingOut
            \/ InFlight("ticket") # {}
            \/ \E c \in InFlight("asked") : c.gen = gen

\* admin.js says that a 401 "ends the session it was asked for, never a later one", and the
\* login form that the session "expired or was revoked": a console so replaced had a dead
\* session.  A late refusal of an earlier session clears the cookie of the later one.
EndedMeansDead == (shown = 0 /\ reason = "invalid" /\ ended # 0) => ended \notin honoured
=============================================================================
