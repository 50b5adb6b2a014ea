----------------------- MODULE BrowserSessionProofs -----------------------
(***************************************************************************)
(* Proofs about the session as the browser sees it, for any number of      *)
(* sessions, surprises and requests under way.  One invariant carries the  *)
(* feed and the ends of a session; a second one, on top of it, carries     *)
(* signing out.  A lemma per handler shows that its answers keep them,     *)
(* whatever the page shows by the time they arrive.                        *)
(***************************************************************************)
EXTENDS BrowserSession, FiniteSetTheorems, TLAPS

\* A request: what it asks, the generation it was asked for, and a session issued so far.
Call == [kind : Kinds, gen : Nat, carries : 0..issued]

\* A session is signed out of only if its button was clicked, and only an issued one has a button.
SignOutTypes == left \subseteq clicked /\ crossed \subseteq clicked /\ clicked \subseteq 1..issued
USE DEF signOutVars

\* The types, with no session anywhere that was not issued, and finitely many requests.
BrowserTypes ==
  /\ issued \in Sessions /\ honoured \subseteq 1..issued /\ cookie \in 0..issued
  /\ IsFiniteSet(calls) /\ calls \subseteq Call
  /\ gen \in Nat \ {0} /\ shown \in 0..issued /\ ended \in 0..issued
  /\ signingOut \in BOOLEAN /\ pending \in BOOLEAN /\ active \in BOOLEAN /\ timer \in BOOLEAN
  /\ reason \in Discards \cup {"loading", "none", "unavailable"}
  /\ feedFor \in Nat /\ feedFor <= gen
  /\ ws \in [session : 0..issued, at : {"none", "opening", "open"}]
  /\ SignOutTypes

\* No request was asked for a generation to come; that of a sign-out only numbers the click.
NoneAhead == \A c \in calls : c.kind # "logout" => c.gen <= gen

\* A request of this generation that carried no cookie left when there was none, and there is none
\* now.
CookieGone ==
  \A c \in calls : (c.kind \in Gated /\ c.gen = gen /\ c.carries = 0) => cookie = 0

\* The page's first check has the page to itself: neither view shows until it is answered.
LoadAlone == \A c \in calls : c.kind = "load" => calls = {c} /\ shown = 0 /\ reason = "loading"

\* A sign-in in one of its two waits: the login, and the session check that follows it.
SignsIn(c) == c.kind \in {"login", "resume"}

\* There is one sign-in at a time, behind the login form.
SignInAlone ==
  \A c \in calls : SignsIn(c) =>
    shown = 0 /\ reason # "loading" /\ \A d \in calls : SignsIn(d) => d = c

\* The inductive invariant of the session.  EndsForCause is about the session on screen and the
\* cookie, and what ends it is an answer to a request sent before: CookieGone, LoadAlone and
\* SignInAlone say what the requests still under way can bring.
BrowserInv ==
  /\ BrowserTypes /\ NoneAhead /\ CookieGone /\ LoadAlone /\ SignInAlone
  /\ FeedFollowsPanel /\ FeedNeverStranded /\ EndsForCause

\* No session signed out of, but for the crossed ones, is on screen, in the cookie of a page that
\* owes no sign-out, or carried by a check that would put it on screen.
NoWayBack ==
  /\ shown \notin left \ crossed /\ (~pending => cookie \notin left \ crossed)
  /\ \A c \in calls :
       c.kind \in {"load", "resume"} /\ c.gen = gen => c.carries \notin left \ crossed

\* The answer to a sign-out that carried no cookie clears none and takes away the mark of one that
\* was lost: while such a sign-out is under way, the cookie is of no session clicked in, but for
\* the crossed ones.
BareSignOuts ==
  \A c \in calls : c.kind = "logout" /\ c.carries = 0 => cookie \notin clicked \ crossed

\* What SignedOutStaysOut needs: a session is gone for good although its sign-out may never have
\* reached the console and its cookie may have survived.
SignOutInv == NoWayBack /\ BareSignOuts

-----------------------------------------------------------------------------
(* The inductive invariant *)

\* What the types say of the numbers of the session and of the fields of a request.
LEMMA BrowserFields ==
  ASSUME BrowserTypes
  PROVE  /\ issued \in Nat /\ gen \in Nat /\ gen > 0 /\ cookie \in Nat /\ shown \in Nat
         /\ \A c \in calls : /\ c.kind \in Kinds /\ c.gen \in Nat /\ c.carries \in 0..issued
         /\ left \subseteq clicked /\ crossed \subseteq clicked /\ clicked \subseteq 1..issued
         /\ 0 \notin clicked /\ issued + 1 \notin clicked
         /\ 0 \notin honoured /\ issued + 1 \notin honoured
<1>1. issued \in Nat
  BY BrowserAssumption DEF BrowserTypes, Sessions
<1>2. \A c \in calls : c.kind \in Kinds /\ c.gen \in Nat /\ c.carries \in 0..issued
  BY DEF BrowserTypes, Call
<1>3. QED BY <1>1, <1>2 DEF BrowserTypes, SignOutTypes

\* What the console answers: a refusal says whether a cookie was sent, a grant needs one, and
\* only a login issues a session (Serve, Fail).
LEMMA AnswerIs ==
  ASSUME BrowserTypes, NEW c \in calls, NEW a \in Answers, Serve(c, a) \/ Fail(c, a)
  PROVE  /\ c.kind \in Gated => /\ a \in Refused \cup {"ok", "unavailable", "failed"}
                                /\ a = "failed" => c.kind \in Checks
                                /\ a = "missing" => c.carries = 0
                                /\ a \in {"invalid", "ok"} => c.carries # 0
         /\ c.kind = "login" => a \in {"ok", "denied"}
         /\ c.kind = "login" /\ a = "ok" =>
              issued' = issued + 1 /\ issued' \in Sessions /\ honoured' = honoured \cup {issued'}
         /\ ~(c.kind = "login" /\ a = "ok") => issued' = issued /\ honoured' \subseteq honoured
<1>1. c.kind \in Kinds
  BY BrowserFields
<1>2. c.kind # "login" /\ c.kind # "logout" => c.kind \in Gated
  BY <1>1 DEF Kinds
<1>3. /\ "login" \notin Gated /\ "logout" \notin Gated /\ {"ok", "unavailable", "failed"} \cap Refused = {}
      /\ "missing" \in Refused /\ "invalid" \in Refused /\ Checks \subseteq Gated
  BY DEF Gated, Refused, Checks
<1>4. \A s : /\ Verdict(s) \in Refused \cup {"ok"}
             /\ Verdict(s) = "missing" <=> s = 0
  BY DEF Verdict, Refused
<1>5. CASE Fail(c, a)
  BY <1>3, <1>5 DEF Fail, serverVars, Refused
<1>6. CASE Serve(c, a)
  <2>1. CASE c.kind \in Gated /\ a = Verdict(c.carries) /\ UNCHANGED serverVars
    BY <1>3, <1>4, <2>1 DEF serverVars
  <2>2. CASE c.kind = "logout" /\ honoured' = honoured \ {c.carries} /\ UNCHANGED issued
    BY <1>3, <2>2
  <2>3. CASE /\ c.kind = "login" /\ a = "ok" /\ issued < MaxSessions
             /\ issued' = issued + 1 /\ honoured' = honoured \cup {issued'}
    <3>1. issued + 1 \in Sessions
      BY <2>3, BrowserFields, BrowserAssumption DEF Sessions
    <3>2. QED BY <1>3, <2>3, <3>1
  <2>4. CASE c.kind = "login" /\ a = "denied" /\ UNCHANGED serverVars
    BY <1>3, <2>4 DEF serverVars
  <2>5. QED BY <1>6, <2>1, <2>2, <2>3, <2>4 DEF Serve
<1>7. QED BY <1>5, <1>6

\* What an answer does to the cookie: a login sets it to the new session, a refusal of a session
\* and a sign-out clear it, and everything else leaves it.
LEMMA CookieAfter ==
  ASSUME BrowserTypes, NEW c \in calls, NEW a \in Answers, Serve(c, a) \/ Fail(c, a),
         cookie' = Jar(c, a)
  PROVE  /\ c.kind = "login" /\ a = "ok" => cookie' = issued'
         /\ ~(c.kind = "login" /\ a = "ok") => cookie' \in {0, cookie}
         /\ c.kind # "login" /\ a = "invalid" /\ c.carries # 0 => cookie' = 0
         /\ c.kind = "logout" /\ a # "lost" /\ c.carries # 0 => cookie' = 0
         /\ cookie' \in 0..issued' /\ issued' \in Sessions /\ issued' >= issued
         /\ honoured' \subseteq 1..issued'
<1>1. /\ c.kind = "login" /\ a = "ok" => cookie' = issued'
      /\ ~(c.kind = "login" /\ a = "ok") => cookie' \in {0, cookie}
      /\ c.kind # "login" /\ a = "invalid" /\ c.carries # 0 => cookie' = 0
      /\ c.kind = "logout" /\ a # "lost" /\ c.carries # 0 => cookie' = 0
  BY DEF Jar
<1>2. issued \in Nat /\ issued \in Sessions /\ honoured \subseteq 1..issued /\ cookie \in 0..issued
  BY BrowserFields DEF BrowserTypes
<1>3. CASE c.kind = "login" /\ a = "ok"
  <2>1. issued' = issued + 1 /\ issued' \in Sessions /\ honoured' = honoured \cup {issued'}
    BY <1>3, AnswerIs
  <2>2. cookie' \in 0..issued' /\ issued' >= issued /\ honoured' \subseteq 1..issued'
    BY <1>1, <1>2, <1>3, <2>1
  <2>3. QED BY <1>3, <2>1, <2>2, <1>1
<1>4. CASE ~(c.kind = "login" /\ a = "ok")
  <2>1. issued' = issued /\ honoured' \subseteq honoured
    BY <1>4, AnswerIs
  <2>2. cookie' \in 0..issued' /\ issued' >= issued /\ honoured' \subseteq 1..issued'
    BY <1>1, <1>2, <1>4, <2>1
  <2>3. QED BY <1>1, <1>2, <1>4, <2>1, <2>2
<1>5. QED BY <1>1, <1>3, <1>4

\* A request of a console on screen, or a sign-out: none of those that sign in.
Routine(n) ==
  \E kind \in Kinds \ {"load", "login", "resume"}, g \in Nat :
    n = Ask(kind, g) /\ (kind = "logout" \/ g <= gen')
USE DEF Routine

\* A step that only adds routine requests, and never brings the page back to an earlier
\* generation, keeps what the invariant says of the requests under way.
LEMMA CallsKept ==
  ASSUME BrowserTypes, NoneAhead, CookieGone,
         NEW new, IsFiniteSet(new), calls' \subseteq calls \cup new,
         \A n \in new : Routine(n),
         issued' \in Sessions, issued' >= issued, cookie' \in 0..issued', cookie' \in {0, cookie},
         gen' \in Nat, gen' >= gen,
         \A d \in calls \cap calls' :
            d.kind # "load" /\ (SignsIn(d) => shown' = 0 /\ reason' # "loading"),
         SignInAlone
  PROVE  /\ IsFiniteSet(calls') /\ calls' \subseteq Call'
         /\ NoneAhead' /\ CookieGone' /\ LoadAlone' /\ SignInAlone'
<1>1. IsFiniteSet(calls')
  <2>1. IsFiniteSet(calls \cup new)
    BY FS_Union DEF BrowserTypes
  <2>2. QED BY <2>1, FS_Subset
<1>2. \A n \in new : /\ n.kind \in Kinds /\ n.kind \notin {"load", "login", "resume"}
                     /\ n.gen \in Nat /\ (n.kind = "logout" \/ n.gen <= gen')
                     /\ n.carries = cookie' /\ n \in Call'
  BY DEF Ask, Call
<1>3. \A c \in calls : c \in Call'
  <2>1. issued \in Nat /\ issued' \in Nat
    BY BrowserFields, BrowserAssumption DEF Sessions
  <2>2. \A i \in 0..issued : i \in 0..issued'
    BY <2>1
  <2>3. QED BY <2>2 DEF BrowserTypes, Call
<1>4. NoneAhead'
  BY <1>2, BrowserFields DEF NoneAhead
<1>5. CookieGone'
  <2>1. ASSUME NEW c \in calls', c.kind \in Gated, c.gen = gen', c.carries = 0
        PROVE  cookie' = 0
    <3>1. CASE c \in new
      BY <1>2, <2>1, <3>1
    <3>2. CASE c \in calls
      <4>1. c.kind # "logout" /\ c.gen <= gen
        BY <2>1, <3>2 DEF NoneAhead, Gated
      <4>2. c.gen = gen
        BY <2>1, <3>2, <4>1, BrowserFields
      <4>3. QED BY <2>1, <3>2, <4>2 DEF CookieGone
    <3>3. QED BY <3>1, <3>2
  <2>2. QED BY <2>1 DEF CookieGone
<1>6. LoadAlone'
  BY <1>2 DEF LoadAlone
<1>7. SignInAlone'
  BY <1>2 DEF SignInAlone, SignsIn
<1>8. QED BY <1>1, <1>2, <1>3, <1>4, <1>5, <1>6, <1>7

\* The login form replaces the console and stops its feed (showLogin, stop).
LEMMA ShowLoginStops ==
  ASSUME BrowserTypes, FeedFollowsPanel, NEW why, ShowLogin(why)
  PROVE  /\ shown' = 0 /\ reason' = why /\ ended' = shown
         /\ active' = FALSE /\ timer' = FALSE /\ ws' = NoWs /\ feedFor' \in {0, feedFor}
BY DEF BrowserTypes, FeedFollowsPanel, ShowLogin, StopFeed, feedVars

\* The first check of a page has no request beside it.
LEMMA LoneCall ==
  ASSUME LoadAlone, NEW c \in calls, NEW d \in calls, d # c
  PROVE  d.kind # "load"
BY DEF LoadAlone

\* The sign-outs that are left alone keep their types.
LEMMA SignOutsKept ==
  ASSUME BrowserTypes, issued' = issued, UNCHANGED signOutVars \/ SignOutTypes'
  PROVE  SignOutTypes'
<1>1. CASE UNCHANGED signOutVars
  BY <1>1 DEF BrowserTypes, SignOutTypes
<1>2. QED BY <1>1

\* The end of a session, for a cause, keeps the invariant: the login form shows, the feed stops,
\* and the requests under way stay as they are.
LEMMA EndKeeps ==
  ASSUME BrowserInv, NEW c \in calls, NEW why \in Discards \cup {"none", "unavailable"},
         ShowLogin(why), gen' = gen \/ gen' = gen + 1, calls' = calls \ {c},
         signingOut' \in BOOLEAN, pending' \in BOOLEAN,
         UNCHANGED signOutVars \/ SignOutTypes',
         issued' = issued, honoured' \subseteq honoured, cookie' \in {0, cookie},
         why = "invalid" => shown = 0 \/ cookie' # shown
  PROVE  BrowserInv'
<1> USE DEF BrowserInv
<1>1. /\ shown' = 0 /\ reason' = why /\ ended' = shown
      /\ active' = FALSE /\ timer' = FALSE /\ ws' = NoWs /\ feedFor' \in {0, feedFor}
  BY ShowLoginStops
<1>2. /\ IsFiniteSet(calls') /\ calls' \subseteq Call'
      /\ NoneAhead' /\ CookieGone' /\ LoadAlone' /\ SignInAlone'
  <2>1. IsFiniteSet({}) /\ calls' \subseteq calls \cup {}
    BY FS_EmptySet
  <2>2. issued' \in Sessions /\ issued' >= issued /\ cookie' \in 0..issued'
        /\ gen' \in Nat /\ gen' >= gen
    BY BrowserFields DEF BrowserTypes
  <2>3. \A d \in calls \cap calls' : d.kind # "load"
    BY LoneCall
  <2>4. reason' # "loading"
    BY <1>1 DEF Discards
  <2>5. QED BY <1>1, <2>1, <2>2, <2>3, <2>4, CallsKept
<1>3. BrowserTypes'
  <2>1. /\ NoWs \in [session : 0..issued, at : {"none", "opening", "open"}]
        /\ 0 \in 0..issued /\ gen' \in Nat \ {0} /\ feedFor' \in Nat /\ feedFor' <= gen'
    BY <1>1, BrowserFields DEF NoWs, BrowserTypes
  <2>2. honoured' \subseteq 1..issued' /\ cookie' \in 0..issued' /\ issued' \in Sessions
    BY <2>1 DEF BrowserTypes
  <2>3. shown \in 0..issued
    BY DEF BrowserTypes
  <2>4. SignOutTypes'
    BY SignOutsKept
  <2>5. QED BY <1>1, <1>2, <2>1, <2>2, <2>3, <2>4 DEF BrowserTypes
<1>4. FeedFollowsPanel' /\ FeedNeverStranded'
  BY <1>1 DEF FeedFollowsPanel, FeedNeverStranded
<1>5. EndsForCause'
  BY <1>1 DEF EndsForCause
<1>6. QED BY <1>2, <1>3, <1>4, <1>5

\* A step that leaves the page's session alone keeps the invariant, if it keeps the feed's part.
LEMMA PageKeeps ==
  ASSUME BrowserInv, NEW gone, \A d \in calls \ gone : d.kind # "load",
         NEW new, IsFiniteSet(new), calls' = (calls \ gone) \cup new,
         \A n \in new : Routine(n),
         UNCHANGED <<gen, shown, pending, reason, ended>>,
         UNCHANGED signOutVars \/ SignOutTypes', signingOut' \in BOOLEAN,
         issued' = issued, honoured' \subseteq honoured, cookie' \in {0, cookie},
         active' \in BOOLEAN, timer' \in BOOLEAN, feedFor' \in Nat, feedFor' <= gen,
         ws' \in [session : 0..issued, at : {"none", "opening", "open"}],
         FeedFollowsPanel', FeedNeverStranded'
  PROVE  BrowserInv'
<1> USE DEF BrowserInv
<1>1. /\ IsFiniteSet(calls') /\ calls' \subseteq Call'
      /\ NoneAhead' /\ CookieGone' /\ LoadAlone' /\ SignInAlone'
  <2>1. calls' \subseteq calls \cup new
    OBVIOUS
  <2>2. issued' \in Sessions /\ issued' >= issued /\ cookie' \in 0..issued'
        /\ gen' \in Nat /\ gen' >= gen
    BY BrowserFields DEF BrowserTypes
  <2>3. \A d \in calls \cap calls' :
          d.kind # "load" /\ (SignsIn(d) => shown' = 0 /\ reason' # "loading")
    <3>1. ASSUME NEW d \in new PROVE d.kind # "load"
      BY <3>1 DEF Ask
    <3>2. QED BY <3>1 DEF SignInAlone
  <2>4. QED BY <2>1, <2>2, <2>3, CallsKept
<1>2. BrowserTypes'
  <2>1. /\ issued' \in Sessions /\ honoured' \subseteq 1..issued' /\ cookie' \in 0..issued'
        /\ shown' \in 0..issued' /\ ended' \in 0..issued' /\ SignOutTypes'
    BY BrowserFields, SignOutsKept DEF BrowserTypes
  <2>2. /\ gen' \in Nat \ {0} /\ pending' \in BOOLEAN
        /\ reason' \in Discards \cup {"loading", "none", "unavailable"} /\ feedFor' <= gen'
    BY DEF BrowserTypes
  <2>3. QED BY <1>1, <2>1, <2>2 DEF BrowserTypes
<1>3. EndsForCause'
  BY DEF EndsForCause
<1>4. QED BY <1>1, <1>2, <1>3

\* One request sent now is routine.
LEMMA FreshAsk ==
  ASSUME NEW kind \in Kinds \ {"load", "login", "resume"}, NEW g \in Nat,
         kind = "logout" \/ g <= gen'
  PROVE  /\ IsFiniteSet({Ask(kind, g)}) /\ IsFiniteSet({})
         /\ \A n \in {Ask(kind, g)} : Routine(n)
BY FS_Singleton, FS_EmptySet

\* A session check asked for by the Overview is routine (requestSessionCheck).
LEMMA CheckAsks ==
  ASSUME BrowserTypes, gen' = gen, NEW new, new = {} \/ new = Check
  PROVE  /\ IsFiniteSet(new)
         /\ \A n \in new : Routine(n)
<1>1. "asked" \in Kinds \ {"load", "login", "resume"} /\ gen \in Nat /\ gen <= gen'
  BY BrowserFields DEF Kinds, Gated
<1>2. new = {} \/ new = {Ask("asked", gen)}
  BY DEF Check
<1>3. QED BY <1>1, <1>2, FreshAsk

\* An answer ignored keeps the invariant, unless the feed waits for it: a ticket, or a session
\* check of this very session.
LEMMA IgnoreKeeps ==
  ASSUME BrowserInv, NEW c \in calls, Ignore(c), c.kind # "ticket",
         c.kind = "asked" /\ c.gen = gen => ~active \/ signingOut,
         issued' = issued, honoured' \subseteq honoured, cookie' \in {0, cookie}
  PROVE  BrowserInv'
<1> USE DEF BrowserInv
<1>1. /\ calls' = calls \ {c} /\ UNCHANGED <<gen, shown, signingOut, pending, reason, ended, signOutVars>>
      /\ UNCHANGED <<active, feedFor, timer, ws>>
  BY DEF Ignore, Handle, pageVars, feedVars
<1>2. FeedFollowsPanel' /\ FeedNeverStranded'
  BY <1>1 DEF FeedFollowsPanel, FeedNeverStranded, InFlight
<1>3. calls' = (calls \ {c}) \cup {} /\ IsFiniteSet({}) /\ \A d \in calls \ {c} : d.kind # "load"
  BY <1>1, LoneCall, FS_EmptySet
<1>4. /\ active' \in BOOLEAN /\ timer' \in BOOLEAN /\ feedFor' \in Nat /\ feedFor' <= gen
      /\ signingOut' \in BOOLEAN /\ ws' \in [session : 0..issued, at : {"none", "opening", "open"}]
  BY <1>1 DEF BrowserTypes
<1>5. QED BY <1>1, <1>2, <1>3, <1>4, PageKeeps

\* A ticket is asked for unless one, or a socket, is there already.
LEMMA TicketsAsk ==
  /\ Tickets = {} \/ Tickets = {Ask("ticket", 0)}
  /\ InFlight("ticket") # {} \/ ws # NoWs \/ Tickets = {Ask("ticket", 0)}
BY DEF Tickets

\* A feed that starts, or starts again, has a socket, the timer or a ticket under way, and sends
\* routine requests only (start).
LEMMA StartFeedAsks ==
  ASSUME BrowserTypes, NEW c \in calls, c.kind # "ticket",
         NEW new, new = {} \/ new = {Ask("read", gen)}, StartFeed(c, new), gen' = gen
  PROVE  /\ active' = TRUE /\ feedFor' = gen /\ ws' = ws /\ timer' \in BOOLEAN
         /\ timer' \/ ws' # NoWs \/ \E d \in calls' : d.kind = "ticket"
         /\ \E more : /\ IsFiniteSet(more) /\ calls' = (calls \ {c}) \cup more
                      /\ \A n \in more : Routine(n)
<1> DEFINE more == IF active /\ feedFor = gen THEN new ELSE new \cup Tickets \cup {Ask("look", gen)}
<1>1. /\ active' = TRUE /\ feedFor' = gen /\ ws' = ws /\ calls' = (calls \ {c}) \cup more
      /\ timer' = TRUE \/ (timer' = timer /\ more = new \cup Tickets \cup {Ask("look", gen)})
  BY DEF StartFeed, Handle, BrowserTypes
<1>2. IsFiniteSet(more)
  <2>1. \A x : IsFiniteSet({x})
    BY FS_Singleton
  <2>2. IsFiniteSet(new) /\ IsFiniteSet(Tickets) /\ IsFiniteSet({Ask("look", gen)})
    BY <2>1, TicketsAsk, FS_EmptySet
  <2>3. QED BY <2>2, FS_Union
<1>3. \A n \in more : n = Ask("read", gen) \/ n = Ask("ticket", 0) \/ n = Ask("look", gen)
  BY TicketsAsk
<1>4. {"read", "ticket", "look"} \subseteq Kinds \ {"load", "login", "resume"}
      /\ gen \in Nat /\ gen <= gen' /\ 0 \in Nat /\ 0 <= gen'
  BY BrowserFields DEF Kinds, Gated
<1>5. timer' \/ ws' # NoWs \/ \E d \in calls' : d.kind = "ticket"
  <2>1. ASSUME InFlight("ticket") # {} PROVE \E d \in calls \ {c} : d.kind = "ticket"
    BY <2>1 DEF InFlight
  <2>2. Ask("ticket", 0).kind = "ticket"
    BY DEF Ask
  <2>3. QED BY <1>1, <2>1, <2>2, TicketsAsk
<1> HIDE DEF more
<1>6. timer' \in BOOLEAN
  BY <1>1 DEF BrowserTypes
<1>7. \A n \in more : Routine(n)
  BY <1>3, <1>4
<1>8. QED BY <1>1, <1>2, <1>5, <1>6, <1>7

\* A feed started for a console on screen keeps the invariant.
LEMMA StartKeeps ==
  ASSUME BrowserInv, NEW c \in calls, c.kind # "ticket",
         NEW new, new = {} \/ new = {Ask("read", gen)}, StartFeed(c, new),
         \A d \in calls \ {c} : d.kind # "load" /\ ~SignsIn(d),
         UNCHANGED <<gen, signingOut, pending, signOutVars>>,
         shown' \in 1..issued, reason' \in {reason, "none"}, ended' \in {ended, 0},
         issued' = issued, honoured' \subseteq honoured, cookie' \in {0, cookie}
  PROVE  BrowserInv'
<1> USE DEF BrowserInv
<1>1. PICK more :
        /\ IsFiniteSet(more) /\ calls' = (calls \ {c}) \cup more
        /\ \A n \in more : Routine(n)
  BY StartFeedAsks
<1>2. /\ active' = TRUE /\ feedFor' = gen /\ ws' = ws /\ timer' \in BOOLEAN
      /\ timer' \/ ws' # NoWs \/ \E d \in calls' : d.kind = "ticket"
  BY StartFeedAsks
<1>3. /\ IsFiniteSet(calls') /\ calls' \subseteq Call'
      /\ NoneAhead' /\ CookieGone' /\ LoadAlone' /\ SignInAlone'
  <2>1. calls' \subseteq calls \cup more
    BY <1>1
  <2>2. issued' \in Sessions /\ issued' >= issued /\ cookie' \in 0..issued'
        /\ gen' \in Nat /\ gen' >= gen
    BY BrowserFields DEF BrowserTypes
  <2>3. \A d \in calls \cap calls' : d.kind # "load" /\ ~SignsIn(d)
    <3>1. ASSUME NEW d \in more PROVE d.kind # "load" /\ ~SignsIn(d)
      BY <1>1, <3>1 DEF Ask, SignsIn
    <3>2. QED BY <1>1, <3>1
  <2>4. QED BY <1>1, <2>1, <2>2, <2>3, CallsKept
<1>4. BrowserTypes'
  <2>1. /\ issued' \in Sessions /\ honoured' \subseteq 1..issued' /\ cookie' \in 0..issued'
        /\ shown' \in 0..issued' /\ ended' \in 0..issued' /\ SignOutTypes'
    BY BrowserFields DEF BrowserTypes, SignOutTypes
  <2>2. /\ gen' \in Nat \ {0} /\ signingOut' \in BOOLEAN /\ pending' \in BOOLEAN
        /\ reason' \in Discards \cup {"loading", "none", "unavailable"}
        /\ feedFor' \in Nat /\ feedFor' <= gen'
        /\ ws' \in [session : 0..issued', at : {"none", "opening", "open"}]
    BY <1>2, BrowserFields DEF BrowserTypes
  <2>3. QED BY <1>2, <1>3, <2>1, <2>2 DEF BrowserTypes
<1>5. FeedFollowsPanel' /\ FeedNeverStranded' /\ EndsForCause'
  <2>1. shown' # 0
    BY BrowserFields
  <2>2. QED BY <1>2, <2>1 DEF FeedFollowsPanel, FeedNeverStranded, EndsForCause, InFlight
<1>6. QED BY <1>3, <1>4, <1>5

\* The answer to the first check or to the one after a login keeps the invariant
\* (resumeSession, showPanel).
LEMMA ResumedKeeps ==
  ASSUME BrowserInv, NEW c \in calls, NEW a \in Answers, Serve(c, a) \/ Fail(c, a),
         cookie' = Jar(c, a), Resumed(c, a)
  PROVE  BrowserInv'
<1> USE DEF BrowserInv
<1>1. /\ c.kind \in {"load", "resume"} /\ c.kind \in Gated
      /\ a \in Refused \cup {"ok", "unavailable", "failed"}
      /\ a = "missing" => c.carries = 0
      /\ a \in {"invalid", "ok"} => c.carries # 0
      /\ issued' = issued /\ honoured' \subseteq honoured /\ cookie' \in {0, cookie}
      /\ a = "invalid" => cookie' = 0
      /\ c.carries \in 0..issued
  <2>1. c.kind \in {"load", "resume"} /\ c.kind \in Gated
    BY DEF Resumed, Gated
  <2>2. QED BY <2>1, AnswerIs, CookieAfter, BrowserFields
<1>2. CASE c.gen # gen
  BY <1>1, <1>2, IgnoreKeeps DEF Resumed
<1>3. CASE c.gen = gen /\ a = "ok"
  <2>1. /\ shown' = c.carries /\ reason' = "none" /\ ended' = 0
        /\ StartFeed(c, {Ask("read", gen)}) /\ UNCHANGED <<gen, signingOut, pending, signOutVars>>
    BY <1>3 DEF Resumed
  <2>2. shown' \in 1..issued
    BY <1>1, <1>3, <2>1, BrowserFields
  <2>3. \A d \in calls \ {c} : d.kind # "load" /\ ~SignsIn(d)
    BY <1>1 DEF LoadAlone, SignInAlone, SignsIn
  <2>4. QED BY <1>1, <2>1, <2>2, <2>3, StartKeeps
<1>4. CASE c.gen = gen /\ a # "ok"
  <2>1. /\ calls' = calls \ {c} /\ UNCHANGED <<signingOut, pending, signOutVars>>
        /\ \/ ShowLogin("none") /\ gen' = gen
           \/ ShowLogin(a) /\ (gen' = gen \/ gen' = gen + 1)
    BY <1>4 DEF Resumed, Handle, EndSession
  <2>2. /\ a \in Discards \cup {"none", "unavailable"}
        /\ "none" \in Discards \cup {"none", "unavailable"} /\ "none" # "invalid"
    BY <1>1, <1>4 DEF Refused, Discards
  <2>3. signingOut' \in BOOLEAN /\ pending' \in BOOLEAN
    BY <2>1 DEF BrowserTypes
  <2>4. QED BY <1>1, <2>1, <2>2, <2>3, EndKeeps
<1>5. QED BY <1>2, <1>3, <1>4

\* The end of a session by an answer that it owns keeps the invariant: the refusal was of its
\* own cookie, which the answer cleared, or of none, which CookieGone says is still so.
LEMMA OwnEndKeeps ==
  ASSUME BrowserInv, NEW c \in calls, NEW a \in Answers, Serve(c, a) \/ Fail(c, a),
         cookie' = Jar(c, a), c.kind \in {"watch", "asked", "read"}, Owns(c), a # "ok",
         NEW why, why = (IF a = "missing" THEN "invalid" ELSE a),
         EndSession(why), calls' = calls \ {c}, UNCHANGED <<signingOut, pending, signOutVars>>
  PROVE  BrowserInv'
<1> USE DEF BrowserInv
<1>1. /\ c.kind \in Gated /\ a \in Refused \cup {"unavailable", "failed"}
      /\ a = "missing" => c.carries = 0
      /\ a = "invalid" => c.carries # 0 /\ cookie' = 0
      /\ issued' = issued /\ honoured' \subseteq honoured /\ cookie' \in {0, cookie}
  <2>1. c.kind \in Gated /\ c.kind # "login"
    BY DEF Gated
  <2>2. QED BY <2>1, AnswerIs, CookieAfter
<1>2. /\ why \in Discards \cup {"none", "unavailable"}
      /\ why = "invalid" => a \in {"missing", "invalid"}
  BY <1>1 DEF Refused, Discards
<1>3. shown # 0 /\ c.gen = gen
  BY DEF Owns
<1>4. a = "missing" => cookie' = 0
  BY <1>1, <1>3 DEF CookieGone
<1>5. signingOut' \in BOOLEAN /\ pending' \in BOOLEAN
  BY DEF BrowserTypes
<1>6. ShowLogin(why) /\ (gen' = gen \/ gen' = gen + 1)
  BY DEF EndSession
<1>7. QED BY <1>1, <1>2, <1>3, <1>4, <1>5, <1>6, EndKeeps

\* The answer to a session check keeps the invariant (verifySession).
LEMMA VerifiedKeeps ==
  ASSUME BrowserInv, NEW c \in calls, NEW a \in Answers, Serve(c, a) \/ Fail(c, a),
         cookie' = Jar(c, a), Verified(c, a)
  PROVE  BrowserInv'
<1> USE DEF BrowserInv
<1>1. /\ c.kind \in {"watch", "asked"}
      /\ issued' = issued /\ honoured' \subseteq honoured /\ cookie' \in {0, cookie}
  <2>1. c.kind \in {"watch", "asked"}
    BY DEF Verified
  <2>2. QED BY <2>1, AnswerIs, CookieAfter
<1>2. CASE a # "ok" /\ Owns(c)
  BY <1>1, <1>2, OwnEndKeeps DEF Verified, Handle
<1>3. CASE ~(a # "ok" /\ Owns(c)) /\ a = "ok" /\ c.kind = "asked" /\ shown # 0
  <2>1. StartFeed(c, {}) /\ UNCHANGED pageVars
    BY <1>3 DEF Verified
  <2>2. shown' \in 1..issued
    BY <1>3, <2>1, BrowserFields DEF BrowserTypes, pageVars
  <2>3. \A d \in calls \ {c} : d.kind # "load" /\ ~SignsIn(d)
    BY <1>3 DEF LoadAlone, SignInAlone
  <2>4. QED BY <1>1, <2>1, <2>2, <2>3, StartKeeps DEF pageVars
<1>4. CASE ~(a # "ok" /\ Owns(c)) /\ ~(a = "ok" /\ c.kind = "asked" /\ shown # 0)
  <2>1. Ignore(c)
    BY <1>4 DEF Verified
  <2>2. c.kind = "asked" /\ c.gen = gen => ~active \/ signingOut
    BY <1>4 DEF Owns, FeedFollowsPanel
  <2>3. QED BY <1>1, <2>1, <2>2, IgnoreKeeps
<1>5. QED BY <1>2, <1>3, <1>4

\* The answer to a panel's read keeps the invariant (authFetch).
LEMMA ReadAnsweredKeeps ==
  ASSUME BrowserInv, NEW c \in calls, NEW a \in Answers, Serve(c, a) \/ Fail(c, a),
         cookie' = Jar(c, a), ReadAnswered(c, a)
  PROVE  BrowserInv'
<1> USE DEF BrowserInv
<1>1. /\ c.kind = "read"
      /\ issued' = issued /\ honoured' \subseteq honoured /\ cookie' \in {0, cookie}
  <2>1. c.kind = "read"
    BY DEF ReadAnswered
  <2>2. QED BY <2>1, AnswerIs, CookieAfter
<1>2. CASE a \in Refused /\ Owns(c)
  <2>1. a # "ok" /\ (IF a = "missing" THEN "invalid" ELSE a) = "invalid"
    BY <1>2 DEF Refused
  <2>2. QED BY <1>1, <1>2, <2>1, OwnEndKeeps DEF ReadAnswered, Handle
<1>3. CASE ~(a \in Refused /\ Owns(c))
  BY <1>1, <1>3, IgnoreKeeps DEF ReadAnswered
<1>4. QED BY <1>2, <1>3

\* The types of the feed's variables.
LEMMA FeedTypes ==
  ASSUME BrowserTypes
  PROVE  /\ active \in BOOLEAN /\ timer \in BOOLEAN /\ feedFor \in Nat /\ feedFor <= gen
         /\ ws \in [session : 0..issued, at : {"none", "opening", "open"}]
         /\ signingOut \in BOOLEAN
         /\ NoWs \in [session : 0..issued, at : {"none", "opening", "open"}]
         /\ \A s \in 0..issued, t \in {"none", "opening", "open"} :
              [session |-> s, at |-> t] \in [session : 0..issued, at : {"none", "opening", "open"}]
<1>1. 0 \in 0..issued
  BY BrowserFields
<1>2. QED BY <1>1 DEF BrowserTypes, NoWs

\* A check that is sent under a console on screen is of its generation.
LEMMA CheckSent ==
  ASSUME shown # 0, gen' = gen, Check \subseteq calls'
  PROVE  \E d \in InFlight("asked")' : d.gen = gen'
BY DEF Check, Ask, InFlight

\* The answer to one of the Overview's reads keeps the invariant.
LEMMA LookAnsweredKeeps ==
  ASSUME BrowserInv, NEW c \in calls, NEW a \in Answers, Serve(c, a) \/ Fail(c, a),
         cookie' = Jar(c, a), LookAnswered(c, a)
  PROVE  BrowserInv'
<1> USE DEF BrowserInv
<1>1. /\ c.kind = "look"
      /\ issued' = issued /\ honoured' \subseteq honoured /\ cookie' \in {0, cookie}
  <2>1. c.kind = "look"
    BY DEF LookAnswered
  <2>2. QED BY <2>1, AnswerIs, CookieAfter
<1>2. PICK new : (new = {} \/ new = Check) /\ calls' = (calls \ {c}) \cup new
  BY DEF LookAnswered, Handle
<1>3. /\ UNCHANGED <<gen, shown, signingOut, pending, reason, ended, signOutVars>>
      /\ UNCHANGED <<active, feedFor, timer, ws>>
  BY DEF LookAnswered, pageVars, feedVars
<1>4. FeedFollowsPanel' /\ FeedNeverStranded'
  BY <1>1, <1>2, <1>3 DEF FeedFollowsPanel, FeedNeverStranded, InFlight
<1>5. \A d \in calls \ {c} : d.kind # "load"
  BY LoneCall
<1>6. QED BY <1>1, <1>2, <1>3, <1>4, <1>5, FeedTypes, CheckAsks, PageKeeps

\* The answer to a ticket request keeps the invariant: a grant opens a socket, a refusal asks for
\* a session check, and no answer sets the timer (_fetchTicket).
LEMMA TicketAnsweredKeeps ==
  ASSUME BrowserInv, NEW c \in calls, NEW a \in Answers, Serve(c, a) \/ Fail(c, a),
         cookie' = Jar(c, a), TicketAnswered(c, a)
  PROVE  BrowserInv'
<1> USE DEF BrowserInv
<1>1. /\ c.kind = "ticket" /\ a \in Refused \cup {"ok", "unavailable"}
      /\ issued' = issued /\ honoured' \subseteq honoured /\ cookie' \in {0, cookie}
  <2>1. c.kind = "ticket" /\ c.kind \in Gated
    BY DEF TicketAnswered, Gated
  <2>2. QED BY <2>1, AnswerIs, CookieAfter DEF Checks
<1>2. PICK new : /\ new = IF a \in Refused THEN Check ELSE {}
                 /\ calls' = (calls \ {c}) \cup new
  BY DEF TicketAnswered, Handle
<1>3. /\ UNCHANGED <<gen, shown, signingOut, pending, reason, ended, signOutVars>>
      /\ active' = active /\ feedFor' = feedFor
      /\ ws' = IF active /\ a = "ok" THEN [session |-> c.carries, at |-> "opening"] ELSE ws
      /\ timer' = (timer \/ (active /\ a = "unavailable"))
  BY DEF TicketAnswered, pageVars
<1>4. /\ timer' \in BOOLEAN /\ feedFor' \in Nat /\ feedFor' <= gen /\ active' \in BOOLEAN
      /\ signingOut' \in BOOLEAN /\ ws' \in [session : 0..issued, at : {"none", "opening", "open"}]
  BY <1>3, FeedTypes, BrowserFields
<1>5. [session |-> c.carries, at |-> "opening"] # NoWs
  BY DEF NoWs
<1>6. FeedFollowsPanel'
  BY <1>3 DEF FeedFollowsPanel
<1>7. FeedNeverStranded'
  <2>1. SUFFICES ASSUME active
                 PROVE  ws' # NoWs \/ timer' \/ \E d \in InFlight("asked")' : d.gen = gen'
    BY <1>3 DEF FeedNeverStranded
  <2>2. CASE a = "ok"
    BY <1>3, <1>5, <2>1, <2>2
  <2>3. CASE a = "unavailable"
    BY <1>3, <2>1, <2>3
  <2>4. CASE a \in Refused
    <3>1. shown # 0 /\ Check \subseteq calls' /\ gen' = gen
      BY <1>2, <1>3, <2>1, <2>4 DEF FeedFollowsPanel
    <3>2. QED BY <3>1, CheckSent
  <2>5. QED BY <1>1, <2>2, <2>3, <2>4
<1>8. new = {} \/ new = Check
  BY <1>2
<1>9. \A d \in calls \ {c} : d.kind # "load"
  BY LoneCall
<1>10. QED BY <1>1, <1>2, <1>3, <1>4, <1>6, <1>7, <1>8, <1>9, CheckAsks, PageKeeps

\* The answer to a login keeps the invariant: a new session, a new generation (login).
LEMMA SignedInKeeps ==
  ASSUME BrowserInv, NEW c \in calls, NEW a \in Answers, Serve(c, a) \/ Fail(c, a),
         cookie' = Jar(c, a), SignedIn(c, a)
  PROVE  BrowserInv'
<1> USE DEF BrowserInv
<1>1. c.kind = "login" /\ SignsIn(c)
  BY DEF SignedIn, SignsIn
<1>2. CASE a # "ok"
  <2>1. Ignore(c) /\ issued' = issued /\ honoured' \subseteq honoured /\ cookie' \in {0, cookie}
    BY <1>1, <1>2, AnswerIs, CookieAfter DEF SignedIn
  <2>2. QED BY <1>1, <2>1, IgnoreKeeps
<1>3. CASE a = "ok"
  <2>1. /\ issued' = issued + 1 /\ issued' \in Sessions /\ honoured' = honoured \cup {issued'}
        /\ cookie' = issued' /\ gen' = gen + 1 /\ pending' = FALSE
        /\ calls' = (calls \ {c}) \cup {Ask("resume", gen + 1)}
        /\ UNCHANGED <<shown, signingOut, reason, ended, signOutVars, active, feedFor, timer, ws>>
    BY <1>1, <1>3, AnswerIs, CookieAfter DEF SignedIn, Handle, feedVars
  <2>2. issued \in Nat /\ gen \in Nat /\ gen > 0 /\ issued' # 0
    BY <2>1, BrowserFields
  <2>3. shown = 0 /\ reason # "loading" /\ \A d \in calls : SignsIn(d) => d = c
    BY <1>1 DEF SignInAlone
  <2>4. \A d \in calls \ {c} : d.kind # "load" /\ ~SignsIn(d)
    BY <2>3, LoneCall
  <2> DEFINE n == Ask("resume", gen + 1)
  <2>5. n.kind = "resume" /\ n.gen = gen + 1 /\ n.carries = issued'
    BY <2>1 DEF Ask
  <2>6. n \in Call'
    <3>1. "resume" \in Kinds /\ gen + 1 \in Nat /\ cookie' \in 0..issued'
      BY <2>1, <2>2 DEF Kinds, Gated
    <3>2. QED BY <3>1 DEF Ask, Call
  <2>7. calls' = (calls \ {c}) \cup {n}
    BY <2>1
  <2> HIDE DEF n
  <2>8. IsFiniteSet(calls') /\ calls' \subseteq Call'
    <3>1. IsFiniteSet(calls \ {c})
      BY FS_Subset DEF BrowserTypes
    <3>2. IsFiniteSet((calls \ {c}) \cup {n})
      BY <3>1, FS_Singleton, FS_Union
    <3>3. \A i \in 0..issued : i \in 0..issued'
      BY <2>1, <2>2
    <3>4. \A d \in calls : d \in Call'
      BY <3>3 DEF BrowserTypes, Call
    <3>5. QED BY <2>6, <2>7, <3>2, <3>4
  <2>9. NoneAhead'
    BY <2>1, <2>2, <2>5, <2>7, BrowserFields DEF NoneAhead
  <2>10. CookieGone'
    <3>1. ASSUME NEW d \in calls', d.kind \in Gated, d.gen = gen', d.carries = 0 PROVE FALSE
      <4>1. CASE d = n
        BY <2>2, <2>5, <3>1, <4>1
      <4>2. CASE d \in calls
        <5>1. d.gen <= gen /\ d.gen \in Nat
          BY <3>1, <4>2, BrowserFields DEF NoneAhead, Gated
        <5>2. QED BY <2>1, <2>2, <3>1, <5>1
      <4>3. QED BY <2>7, <4>1, <4>2
    <3>2. QED BY <3>1 DEF CookieGone
  <2>11. LoadAlone'
    BY <2>4, <2>5, <2>7 DEF LoadAlone
  <2>12. SignInAlone'
    BY <2>1, <2>3, <2>4, <2>5, <2>7 DEF SignInAlone, SignsIn
  <2>13. BrowserTypes'
    <3>1. /\ honoured' \subseteq 1..issued' /\ cookie' \in 0..issued' /\ SignOutTypes'
          /\ shown' \in 0..issued' /\ ended' \in 0..issued' /\ gen' \in Nat \ {0}
          /\ feedFor' \in Nat /\ feedFor' <= gen'
      BY <2>1, <2>2 DEF BrowserTypes, SignOutTypes
    <3>2. ws' \in [session : 0..issued', at : {"none", "opening", "open"}]
      <4>1. \A i \in 0..issued : i \in 0..issued'
        BY <2>1, <2>2
      <4>2. QED BY <2>1, <4>1 DEF BrowserTypes
    <3>3. QED BY <2>1, <2>8, <3>1, <3>2 DEF BrowserTypes
  <2>14. active = FALSE /\ timer = FALSE /\ ws = NoWs
    BY <2>3 DEF FeedFollowsPanel, BrowserTypes
  <2>15. FeedFollowsPanel' /\ FeedNeverStranded'
    BY <2>1, <2>3, <2>14 DEF FeedFollowsPanel, FeedNeverStranded
  <2>16. EndsForCause'
    <3>1. ended # issued' /\ ended \in Nat
      BY <2>1, <2>2 DEF BrowserTypes
    <3>2. QED BY <2>1, <2>3, <3>1 DEF EndsForCause
  <2>17. QED BY <2>8, <2>9, <2>10, <2>11, <2>12, <2>13, <2>15, <2>16
<1>4. QED BY <1>2, <1>3

\* The answer to a sign-out, or its loss, keeps the invariant (logout).
LEMMA SignedOutKeeps ==
  ASSUME BrowserInv, NEW c \in calls, NEW a \in Answers, Serve(c, a) \/ Fail(c, a),
         cookie' = Jar(c, a), SignedOut(c, a)
  PROVE  BrowserInv'
<1> USE DEF BrowserInv
<1>1. c.kind = "logout"
  BY DEF SignedOut
<1>2. issued' = issued /\ honoured' \subseteq honoured /\ cookie' \in {0, cookie}
  BY <1>1, AnswerIs, CookieAfter
<1>3. PICK why \in {"signed-out", "signed-out-unconfirmed"} : EndSession(why)
  BY DEF SignedOut
<1>4. /\ calls' = calls \ {c} /\ signingOut' = FALSE /\ pending' \in BOOLEAN
      /\ left' = left \cup (clicked \cap {shown}) /\ clicked' = clicked /\ crossed' = crossed
  BY DEF SignedOut, Handle, LetGo
<1>5. SignOutTypes'
  BY <1>2, <1>4 DEF BrowserTypes, SignOutTypes
<1>6. ShowLogin(why) /\ (gen' = gen \/ gen' = gen + 1)
  BY <1>3 DEF EndSession
<1>7. why \in Discards \cup {"none", "unavailable"} /\ why # "invalid"
  BY <1>3 DEF Discards
<1>8. QED BY <1>2, <1>4, <1>5, <1>6, <1>7, EndKeeps

\* Every answer keeps the invariant.
LEMMA ReceiveKeeps ==
  ASSUME BrowserInv, NEW c \in calls, NEW a \in Answers, Serve(c, a) \/ Fail(c, a),
         Receive(c, a)
  PROVE  BrowserInv'
BY ResumedKeeps, VerifiedKeeps, ReadAnsweredKeeps, LookAnsweredKeeps, TicketAnsweredKeeps,
   SignedInKeeps, SignedOutKeeps DEF Receive

\* A session revoked keeps the invariant, and so does a step that changes nothing.
LEMMA StillKeeps ==
  ASSUME BrowserInv, honoured' \subseteq honoured,
         UNCHANGED <<issued, cookie, calls, pageVars, feedVars>>
  PROVE  BrowserInv'
<1> USE DEF BrowserInv, pageVars, feedVars
<1>1. BrowserTypes'
  BY DEF BrowserTypes, SignOutTypes, Call
<1>2. NoneAhead' /\ CookieGone' /\ LoadAlone' /\ SignInAlone'
  BY DEF NoneAhead, CookieGone, LoadAlone, SignInAlone, SignsIn
<1>3. FeedFollowsPanel' /\ FeedNeverStranded' /\ EndsForCause'
  BY DEF FeedFollowsPanel, FeedNeverStranded, EndsForCause, InFlight
<1>4. QED BY <1>1, <1>2, <1>3

\* No sign-in is under way while a console is on screen.
LEMMA SignedInAlone ==
  ASSUME BrowserInv, shown # 0
  PROVE  \A d \in calls : d.kind # "load" /\ ~SignsIn(d)
BY DEF BrowserInv, LoadAlone, SignInAlone

\* A login sent keeps the invariant.
LEMMA LoginKeeps == ASSUME BrowserInv, Login PROVE BrowserInv'
<1> USE DEF BrowserInv
<1>1. /\ shown = 0 /\ reason # "loading" /\ cookie' = cookie
      /\ calls' = calls \cup {Ask("login", 0)}
      /\ InFlight("login") = {} /\ InFlight("resume") = {}
      /\ UNCHANGED <<honoured, issued, gen, shown, signingOut, pending, reason, ended, signOutVars>>
      /\ UNCHANGED <<active, feedFor, timer, ws>>
  BY DEF Login, Send, serverVars, pageVars, feedVars
<1>2. \A d \in calls : d.kind # "load" /\ ~SignsIn(d)
  BY <1>1 DEF LoadAlone, InFlight, SignsIn
<1> DEFINE n == Ask("login", 0)
<1>3. n.kind = "login" /\ n.gen = 0 /\ n.carries = cookie /\ n \in Call'
  <2>1. "login" \in Kinds /\ 0 \in Nat /\ cookie' \in 0..issued'
    BY <1>1 DEF Kinds, BrowserTypes
  <2>2. QED BY <1>1, <2>1 DEF Ask, Call
<1>4. calls' = calls \cup {n}
  BY <1>1
<1> HIDE DEF n
<1>5. IsFiniteSet(calls')
  BY <1>4, FS_Singleton, FS_Union DEF BrowserTypes
<1>6. BrowserTypes'
  BY <1>1, <1>3, <1>4, <1>5 DEF BrowserTypes, SignOutTypes, Call
<1>7. NoneAhead'
  BY <1>1, <1>3, <1>4, BrowserFields DEF NoneAhead
<1>8. CookieGone'
  BY <1>1, <1>3, <1>4 DEF CookieGone, Gated
<1>9. LoadAlone' /\ SignInAlone'
  BY <1>1, <1>2, <1>3, <1>4 DEF LoadAlone, SignInAlone, SignsIn
<1>10. FeedFollowsPanel' /\ EndsForCause'
  BY <1>1 DEF FeedFollowsPanel, EndsForCause
<1>11. FeedNeverStranded'
  BY <1>1, <1>4 DEF FeedNeverStranded, InFlight
<1>12. QED BY <1>6, <1>7, <1>8, <1>9, <1>10, <1>11

\* A routine request sent from a console on screen keeps the invariant.
LEMMA AskKeeps ==
  ASSUME BrowserInv, shown # 0, NEW kind \in Kinds \ {"load", "login", "resume"}, NEW g \in Nat,
         kind = "logout" \/ g <= gen, cookie' = cookie, calls' = calls \cup {Ask(kind, g)},
         UNCHANGED <<honoured, issued, gen, shown, pending, reason, ended, active, feedFor, timer,
                     ws>>,
         signingOut' = TRUE \/ signingOut' = signingOut, UNCHANGED signOutVars \/ SignOutTypes'
  PROVE  BrowserInv'
<1> USE DEF BrowserInv
<1>1. \A d \in calls \ {} : d.kind # "load"
  BY SignedInAlone
<1>2. calls' = (calls \ {}) \cup {Ask(kind, g)}
  OBVIOUS
<1>3. FeedFollowsPanel' /\ FeedNeverStranded'
  BY DEF FeedFollowsPanel, FeedNeverStranded, InFlight
<1>4. /\ signingOut' \in BOOLEAN /\ active' \in BOOLEAN /\ timer' \in BOOLEAN
      /\ feedFor' \in Nat /\ feedFor' <= gen
      /\ ws' \in [session : 0..issued, at : {"none", "opening", "open"}]
  BY FeedTypes
<1>5. \A n \in {Ask(kind, g)} : Routine(n)
  OBVIOUS
<1>6. QED BY <1>1, <1>2, <1>3, <1>4, <1>5, FS_Singleton, PageKeeps

\* A sign-out, the session watch and a read, when sent, keep the invariant.
LEMMA UserAsksKeep ==
  ASSUME BrowserInv, Logout \/ Watch \/ Read("read") \/ Read("look")
  PROVE  BrowserInv'
<1>1. {"logout", "watch", "read", "look"} \subseteq Kinds \ {"load", "login", "resume"}
  BY DEF Kinds, Gated
<1>2. gen \in Nat /\ gen <= gen /\ SignOutTypes /\ shown \in 0..issued /\ issued \in Nat
  BY BrowserFields DEF BrowserInv, BrowserTypes
<1>3. CASE Logout
  <2>1. PICK n \in 1..MaxClicks : calls' = calls \cup {Ask("logout", n)}
    BY <1>3 DEF Logout, Send
  <2>2. /\ shown # 0 /\ cookie' = cookie /\ signingOut' = TRUE
        /\ clicked' = clicked \cup {shown} /\ crossed' \subseteq crossed \cup {shown}
        /\ UNCHANGED <<honoured, issued, gen, shown, pending, reason, ended, left, active,
                       feedFor, timer, ws>>
    BY <1>3 DEF Logout, serverVars, feedVars
  <2>3. n \in Nat
    BY BrowserAssumption
  <2>4. SignOutTypes'
    BY <1>2, <2>2 DEF SignOutTypes
  <2>5. QED BY <1>1, <2>1, <2>2, <2>3, <2>4, AskKeeps
<1>4. CASE Watch
  <2>1. /\ shown # 0 /\ cookie' = cookie /\ signingOut' = signingOut
        /\ calls' = calls \cup {Ask("watch", gen)}
        /\ UNCHANGED <<honoured, issued, gen, shown, pending, reason, ended, signOutVars, active,
                       feedFor, timer, ws>>
    BY <1>4 DEF Watch, Send, serverVars, pageVars, feedVars
  <2>2. SignOutTypes'
    BY <1>2, <2>1 DEF SignOutTypes
  <2>3. QED BY <1>1, <1>2, <2>1, <2>2, AskKeeps
<1>5. ASSUME NEW kind \in {"read", "look"}, Read(kind) PROVE BrowserInv'
  <2>1. /\ shown # 0 /\ cookie' = cookie /\ signingOut' = signingOut
        /\ calls' = calls \cup {Ask(kind, gen)}
        /\ UNCHANGED <<honoured, issued, gen, shown, pending, reason, ended, signOutVars, active,
                       feedFor, timer, ws>>
    BY <1>5 DEF Read, Send, serverVars, pageVars, feedVars
  <2>2. SignOutTypes'
    BY <1>2, <2>1 DEF SignOutTypes
  <2>3. QED BY <1>1, <1>2, <2>1, <2>2, AskKeeps
<1>6. QED BY <1>3, <1>4, <1>5

\* A page that has just loaded has one request under way, which keeps the invariant.
LEMMA LonelyCall ==
  ASSUME BrowserInv, NEW kind \in {"load", "logout"}, NEW g \in Nat, kind = "load" => g = 1,
         calls' = {Ask(kind, g)}, cookie' = cookie, issued' = issued, gen' = 1, shown' = 0,
         reason' = "loading"
  PROVE  /\ IsFiniteSet(calls') /\ calls' \subseteq Call'
         /\ NoneAhead' /\ CookieGone' /\ LoadAlone' /\ SignInAlone'
<1> DEFINE n == Ask(kind, g)
<1>1. n.kind = kind /\ n.gen = g /\ n.carries = cookie'
  BY DEF Ask
<1>2. kind \in Kinds /\ cookie' \in 0..issued'
  BY DEF Kinds, Gated, BrowserInv, BrowserTypes
<1>3. n \in Call'
  BY <1>2 DEF Ask, Call
<1>4. calls' = {n}
  OBVIOUS
<1> HIDE DEF n
<1>5. IsFiniteSet(calls') /\ calls' \subseteq Call'
  BY <1>3, <1>4, FS_Singleton
<1>6. NoneAhead' /\ CookieGone'
  BY <1>1, <1>4 DEF NoneAhead, CookieGone
<1>7. LoadAlone' /\ SignInAlone'
  BY <1>1, <1>4 DEF LoadAlone, SignInAlone, SignsIn
<1>8. QED BY <1>5, <1>6, <1>7

\* A reload keeps the invariant.
LEMMA ReloadKeeps == ASSUME BrowserInv, Reload PROVE BrowserInv'
<1> USE DEF BrowserInv
<1>1. /\ cookie' = cookie /\ gen' = 1 /\ shown' = 0 /\ reason' = "loading" /\ ended' = 0
      /\ signingOut' = pending /\ pending' = pending /\ UNCHANGED signOutVars
      /\ honoured' = honoured /\ issued' = issued
      /\ active' = FALSE /\ feedFor' = 0 /\ timer' = FALSE /\ ws' = NoWs
      /\ calls' = {IF pending THEN Ask("logout", 0) ELSE Ask("load", 1)}
  BY DEF Reload, StopFeed, serverVars
<1>2. /\ IsFiniteSet(calls') /\ calls' \subseteq Call'
      /\ NoneAhead' /\ CookieGone' /\ LoadAlone' /\ SignInAlone'
  <2>1. CASE pending
    BY <1>1, <2>1, LonelyCall
  <2>2. CASE ~pending
    BY <1>1, <2>2, LonelyCall
  <2>3. QED BY <2>1, <2>2
<1>3. BrowserTypes'
  <2>1. /\ issued' \in Sessions /\ honoured' \subseteq 1..issued' /\ cookie' \in 0..issued'
        /\ shown' \in 0..issued' /\ ended' \in 0..issued' /\ SignOutTypes'
    BY <1>1, BrowserFields DEF BrowserTypes, SignOutTypes
  <2>2. ws' \in [session : 0..issued', at : {"none", "opening", "open"}]
    BY <1>1, FeedTypes
  <2>3. /\ gen' \in Nat \ {0} /\ feedFor' \in Nat /\ feedFor' <= gen'
        /\ reason' \in Discards \cup {"loading", "none", "unavailable"}
    BY <1>1
  <2>4. /\ signingOut' \in BOOLEAN /\ pending' \in BOOLEAN
        /\ active' \in BOOLEAN /\ timer' \in BOOLEAN
    BY <1>1, Zenon DEF BrowserTypes
  <2>5. QED BY <1>2, <2>1, <2>2, <2>3, <2>4 DEF BrowserTypes
<1>4. FeedFollowsPanel' /\ FeedNeverStranded' /\ EndsForCause'
  BY <1>1 DEF FeedFollowsPanel, FeedNeverStranded, EndsForCause
<1>5. QED BY <1>2, <1>3, <1>4

\* The reconnect timer, run out, keeps the invariant: it runs only under an active feed.
LEMMA ReconnectKeeps == ASSUME BrowserInv, Reconnect PROVE BrowserInv'
<1> USE DEF BrowserInv
<1>1. /\ timer /\ timer' = FALSE /\ cookie' = cookie /\ ws' = ws
      /\ active' = active /\ feedFor' = feedFor
      /\ UNCHANGED <<honoured, issued, gen, shown, signingOut, pending, reason, ended, signOutVars>>
      /\ calls' = calls \cup (IF active THEN Tickets ELSE {})
  BY DEF Reconnect, Send, serverVars, pageVars
<1>2. active /\ shown # 0
  BY <1>1 DEF FeedFollowsPanel
<1>3. calls' = (calls \ {}) \cup Tickets
  BY <1>1, <1>2
<1>4. \A d \in calls \ {} : d.kind # "load"
  BY <1>2, SignedInAlone
<1>5. /\ IsFiniteSet(Tickets)
      /\ \A n \in Tickets : Routine(n)
  <2>1. "ticket" \in Kinds \ {"load", "login", "resume"} /\ 0 \in Nat /\ 0 <= gen'
    BY <1>1, BrowserFields DEF Kinds, Gated
  <2>2. QED BY <2>1, TicketsAsk, FreshAsk
<1>6. FeedFollowsPanel'
  BY <1>1, <1>2 DEF FeedFollowsPanel
<1>7. FeedNeverStranded'
  <2>1. Ask("ticket", 0).kind = "ticket"
    BY DEF Ask
  <2>2. ws' # NoWs \/ InFlight("ticket")' # {}
    BY <1>1, <1>3, <2>1, TicketsAsk DEF InFlight
  <2>3. QED BY <2>2 DEF FeedNeverStranded
<1>8. QED BY <1>1, <1>3, <1>4, <1>5, <1>6, <1>7, FeedTypes, PageKeeps

\* A socket that opens, is refused or drops keeps the invariant.
LEMMA SocketsKeep ==
  ASSUME BrowserInv, SocketOpens \/ SocketRefused \/ SocketDrops PROVE BrowserInv'
<1> USE DEF BrowserInv
<1>1. /\ ws # NoWs /\ cookie' = cookie /\ active' = active /\ feedFor' = feedFor
      /\ UNCHANGED <<honoured, issued, gen, shown, signingOut, pending, reason, ended, signOutVars>>
  BY DEF SocketOpens, SocketRefused, SocketDrops, serverVars, pageVars, NoWs
<1>2. active /\ shown # 0
  BY <1>1 DEF FeedFollowsPanel
<1>3. \A d \in calls \ {} : d.kind # "load"
  BY <1>2, SignedInAlone
<1>4. \/ /\ SocketOpens /\ calls' = (calls \ {}) \cup {}
         /\ timer' = timer /\ ws' = [ws EXCEPT !.at = "open"]
      \/ SocketRefused /\ calls' = (calls \ {}) \cup Check /\ timer' = timer /\ ws' = NoWs
      \/ SocketDrops /\ calls' = (calls \ {}) \cup {} /\ timer' = TRUE /\ ws' = NoWs
  BY DEF SocketOpens, SocketRefused, SocketDrops, Send
<1>5. /\ ws' \in [session : 0..issued, at : {"none", "opening", "open"}]
      /\ SocketOpens => ws' # NoWs
  <2>1. ASSUME ws' = [ws EXCEPT !.at = "open"]
        PROVE  ws' \in [session : 0..issued, at : {"none", "opening", "open"}] /\ ws' # NoWs
    BY <2>1 DEF BrowserTypes, NoWs
  <2>2. QED BY <1>4, <2>1, FeedTypes DEF SocketOpens
<1>6. FeedFollowsPanel'
  BY <1>1, <1>2 DEF FeedFollowsPanel
<1>7. FeedNeverStranded'
  <2>1. CASE SocketOpens
    BY <1>5, <2>1 DEF FeedNeverStranded
  <2>2. CASE calls' = (calls \ {}) \cup Check
    <3>1. \E d \in InFlight("asked")' : d.gen = gen'
      BY <1>1, <1>2, <2>2, CheckSent
    <3>2. QED BY <3>1 DEF FeedNeverStranded
  <2>3. CASE timer' = TRUE
    BY <2>3 DEF FeedNeverStranded
  <2>4. QED BY <1>4, <2>1, <2>2, <2>3
<1>8. timer' \in BOOLEAN
  BY <1>4, FeedTypes
<1>9. QED
  BY <1>1, <1>3, <1>4, <1>5, <1>6, <1>7, <1>8, FeedTypes, CheckAsks, PageKeeps

\* The first state satisfies the invariant.
LEMMA BrowserInvInit == BrowserInit => BrowserInv
<1> SUFFICES ASSUME BrowserInit PROVE BrowserInv
  OBVIOUS
<1>1. /\ cookie \in 0..1 /\ issued = cookie /\ honoured \subseteq 1..issued
      /\ gen = 1 /\ shown = 0 /\ signingOut = FALSE /\ pending = FALSE /\ reason = "loading"
      /\ active = FALSE /\ feedFor = 0 /\ timer = FALSE /\ ws = NoWs /\ ended = 0
      /\ clicked = {} /\ crossed = {} /\ left = {}
  BY DEF BrowserInit
<1> DEFINE n == [kind |-> "load", gen |-> 1, carries |-> cookie]
<1>2. calls = {n}
  BY DEF BrowserInit
<1>3. n.kind = "load" /\ n.gen = 1 /\ n.carries = cookie
  OBVIOUS
<1>4. n \in Call
  BY <1>1 DEF Call, Kinds, Gated
<1> HIDE DEF n
<1>5. IsFiniteSet({n})
  BY FS_Singleton
<1>6. IsFiniteSet(calls) /\ calls \subseteq Call
  BY <1>2, <1>4, <1>5
<1>7. NoneAhead /\ CookieGone
  BY <1>1, <1>2, <1>3 DEF NoneAhead, CookieGone
<1>8. LoadAlone /\ SignInAlone
  BY <1>1, <1>2, <1>3 DEF LoadAlone, SignInAlone, SignsIn
<1>9. issued \in Sessions /\ cookie \in 0..issued /\ shown \in 0..issued /\ ended \in 0..issued
  BY <1>1, BrowserAssumption DEF Sessions
<1>10. ws \in [session : 0..issued, at : {"none", "opening", "open"}]
  BY <1>1, <1>9 DEF NoWs, Sessions
<1>11. /\ gen \in Nat \ {0} /\ feedFor \in Nat /\ feedFor <= gen
       /\ reason \in Discards \cup {"loading", "none", "unavailable"}
  BY <1>1
<1>12. signingOut \in BOOLEAN /\ pending \in BOOLEAN /\ active \in BOOLEAN /\ timer \in BOOLEAN
  BY <1>1, Zenon
<1>13. SignOutTypes
  BY <1>1 DEF SignOutTypes
<1>14. BrowserTypes
  BY <1>1, <1>6, <1>9, <1>10, <1>11, <1>12, <1>13, Zenon DEF BrowserTypes
<1>15. FeedFollowsPanel /\ FeedNeverStranded /\ EndsForCause
  BY <1>1 DEF FeedFollowsPanel, FeedNeverStranded, EndsForCause
<1>16. QED BY <1>6, <1>7, <1>8, <1>14, <1>15 DEF BrowserInv

\* Every step keeps the invariant.
LEMMA BrowserInvStep == BrowserInv /\ [BrowserNext]_browserVars => BrowserInv'
<1> SUFFICES ASSUME BrowserInv, [BrowserNext]_browserVars PROVE BrowserInv'
  OBVIOUS
<1>1. CASE \E c \in calls : Answered(c) \/ Troubled(c)
  BY <1>1, ReceiveKeeps DEF Answered, Troubled
<1>2. CASE \E s \in 1..issued : Revoke(s)
  BY <1>2, StillKeeps DEF Revoke
<1>3. CASE Watch \/ Logout \/ \E kind \in {"read", "look"} : Read(kind)
  BY <1>3, UserAsksKeep
<1>4. CASE Login
  BY <1>4, LoginKeeps
<1>5. CASE Reload
  BY <1>5, ReloadKeeps
<1>6. CASE Reconnect
  BY <1>6, ReconnectKeeps
<1>7. CASE SocketOpens \/ SocketRefused \/ SocketDrops
  BY <1>7, SocketsKeep
<1>8. CASE UNCHANGED browserVars
  BY <1>8, StillKeeps DEF browserVars, serverVars
<1>9. QED BY <1>1, <1>2, <1>3, <1>4, <1>5, <1>6, <1>7, <1>8 DEF BrowserNext

\* The invariant gives the types.
LEMMA BrowserInvTypes == BrowserInv => BrowserTypeOK
<1> SUFFICES ASSUME BrowserInv PROVE BrowserTypeOK
  OBVIOUS
<1> USE DEF BrowserInv, BrowserTypes
<1>1. /\ issued \in Nat /\ issued <= MaxSessions /\ 0..issued \subseteq Sessions
  BY BrowserAssumption DEF Sessions
<1>2. calls \subseteq [kind : Kinds, gen : Nat, carries : Sessions]
  BY <1>1 DEF Call
<1>3. ws \in [session : Sessions, at : {"none", "opening", "open"}]
  BY <1>1
<1>4. {signingOut, pending, active, timer} \subseteq BOOLEAN
  BY Zenon
<1>5. {shown, ended} \subseteq Sessions /\ feedFor \in 0..gen
  BY <1>1
<1>6. QED BY <1>2, <1>3, <1>4, <1>5 DEF BrowserTypeOK, SignOutTypes

\* The inductive invariant holds in every reachable state.
THEOREM BrowserInvariant == BrowserSpec => []BrowserInv
<1>1. QED BY BrowserInvInit, BrowserInvStep, PTL DEF BrowserSpec

-----------------------------------------------------------------------------
(* Signing out *)

\* A step that sends neither a sign-out nor a check that shows a console, and puts none on
\* screen, keeps the sign-out invariant.
LEMMA QuietKeeps ==
  ASSUME BrowserInv, SignOutInv,
         \A d \in calls' \ calls : d.kind \notin {"load", "resume", "logout"},
         UNCHANGED <<pending, signOutVars>>, gen' \in Nat, gen' >= gen,
         cookie' \in {0, cookie}, shown' \in {0, shown}
  PROVE  SignOutInv'
<1> USE DEF SignOutInv
<1>1. 0 \notin clicked /\ 0 \notin left /\ gen \in Nat /\ \A d \in calls : d.gen \in Nat
  BY BrowserFields DEF BrowserInv
<1>2. BareSignOuts'
  BY <1>1 DEF BareSignOuts
<1>3. shown' \notin left' \ crossed' /\ (~pending' => cookie' \notin left' \ crossed')
  BY <1>1 DEF NoWayBack
<1>4. ASSUME NEW d \in calls', d.kind \in {"load", "resume"}, d.gen = gen'
      PROVE  d.carries \notin left' \ crossed'
  <2>1. d \in calls /\ d.kind # "logout"
    BY <1>4
  <2>2. d.gen = gen
    BY <1>1, <1>4, <2>1 DEF BrowserInv, NoneAhead
  <2>3. QED BY <1>4, <2>1, <2>2 DEF NoWayBack
<1>5. NoWayBack'
  BY <1>3, <1>4 DEF NoWayBack
<1>6. QED BY <1>2, <1>5

\* The feed's requests, the reads and the checks of a console sign nobody in or out.
LEMMA HarmlessAsks ==
  \A g : /\ Ask("read", g).kind \notin {"load", "resume", "logout"}
         /\ \A d \in Tickets \cup Check \cup {Ask("look", g), Ask("watch", g), Ask("login", g)} :
              d.kind \notin {"load", "resume", "logout"}
<1>1. \A kind, g : Ask(kind, g).kind = kind
  BY DEF Ask
<1>2. (Tickets = {} \/ Tickets = {Ask("ticket", 0)}) /\ (Check = {} \/ Check = {Ask("asked", gen)})
  BY TicketsAsk DEF Check
<1>3. QED BY <1>1, <1>2

\* A feed that starts sends no sign-out and no check that shows a console.
LEMMA StartFeedQuiet ==
  ASSUME NEW c \in calls, NEW new, new = {} \/ new = {Ask("read", gen)}, StartFeed(c, new)
  PROVE  \A d \in calls' \ calls : d.kind \notin {"load", "resume", "logout"}
<1>1. calls' \subseteq calls \cup new \cup Tickets \cup {Ask("look", gen)}
  BY DEF StartFeed, Handle
<1>2. QED BY <1>1, HarmlessAsks

\* The answers about a console on screen keep the sign-out invariant.
LEMMA GatedAnswersSafe ==
  ASSUME BrowserInv, SignOutInv, NEW c \in calls, NEW a \in Answers,
         Serve(c, a) \/ Fail(c, a), cookie' = Jar(c, a),
         Verified(c, a) \/ ReadAnswered(c, a) \/ LookAnswered(c, a) \/ TicketAnswered(c, a)
  PROVE  SignOutInv'
<1> USE DEF pageVars
<1>1. cookie' \in {0, cookie}
  <2>1. c.kind # "login"
    BY DEF Verified, ReadAnswered, LookAnswered, TicketAnswered
  <2>2. QED BY <2>1, CookieAfter DEF BrowserInv
<1>2. gen \in Nat
  BY BrowserFields DEF BrowserInv
<1>3. CASE UNCHANGED pageVars /\ calls' \subseteq calls \cup Check
  BY <1>1, <1>2, <1>3, HarmlessAsks, QuietKeeps
<1>4. CASE UNCHANGED pageVars /\ StartFeed(c, {})
  BY <1>1, <1>2, <1>4, StartFeedQuiet, QuietKeeps
<1>5. ASSUME NEW why, EndSession(why), calls' = calls \ {c}, UNCHANGED <<pending, signOutVars>>
      PROVE  SignOutInv'
  <2>1. shown' = 0 /\ gen' \in Nat /\ gen' >= gen
    BY <1>2, <1>5 DEF EndSession, ShowLogin
  <2>2. QED BY <1>1, <1>5, <2>1, QuietKeeps
<1>6. CASE Verified(c, a)
  BY <1>3, <1>4, <1>5, <1>6 DEF Verified, Ignore, Handle
<1>7. CASE ReadAnswered(c, a)
  BY <1>3, <1>5, <1>7 DEF ReadAnswered, Ignore, Handle
<1>8. CASE LookAnswered(c, a) \/ TicketAnswered(c, a)
  BY <1>3, <1>8 DEF LookAnswered, TicketAnswered, Handle
<1>9. QED BY <1>6, <1>7, <1>8

\* A session put on screen is not one that was signed out of: the check that grants it carried
\* another (resumeSession).
LEMMA ResumedSafe ==
  ASSUME BrowserInv, SignOutInv, NEW c \in calls, NEW a \in Answers,
         Serve(c, a) \/ Fail(c, a), cookie' = Jar(c, a), Resumed(c, a)
  PROVE  SignOutInv'
<1>1. c.kind \in {"load", "resume"}
  BY DEF Resumed
<1>2. cookie' \in {0, cookie} /\ gen \in Nat /\ 0 \notin left /\ 0 \notin clicked
  BY <1>1, CookieAfter, BrowserFields DEF BrowserInv
<1>3. CASE c.gen # gen
  <2>1. calls' = calls \ {c} /\ UNCHANGED <<gen, shown, pending, signOutVars>>
    BY <1>3 DEF Resumed, Ignore, Handle, pageVars
  <2>2. QED BY <1>2, <2>1, QuietKeeps
<1>4. CASE c.gen = gen /\ a = "ok"
  <2>1. /\ shown' = c.carries /\ StartFeed(c, {Ask("read", gen)})
        /\ UNCHANGED <<gen, pending, signOutVars>>
    BY <1>4 DEF Resumed
  <2>2. \A d \in calls' \ calls : d.kind \notin {"load", "resume", "logout"}
    BY <2>1, StartFeedQuiet
  <2>3. shown' \notin left' \ crossed'
    BY <1>1, <1>4, <2>1 DEF SignOutInv, NoWayBack
  <2>4. BareSignOuts'
    BY <1>2, <2>1, <2>2 DEF SignOutInv, BareSignOuts
  <2>5. NoWayBack'
    BY <1>2, <2>1, <2>2, <2>3 DEF SignOutInv, NoWayBack
  <2>6. QED BY <2>4, <2>5 DEF SignOutInv
<1>5. CASE c.gen = gen /\ a # "ok"
  <2>1. calls' = calls \ {c} /\ UNCHANGED <<pending, signOutVars>>
    BY <1>5 DEF Resumed, Handle
  <2>2. shown' = 0 /\ gen' \in Nat /\ gen' >= gen
    BY <1>2, <1>5 DEF Resumed, EndSession, ShowLogin
  <2>3. QED BY <1>2, <2>1, <2>2, QuietKeeps
<1>6. QED BY <1>3, <1>4, <1>5

\* A login brings a session that nobody has clicked in yet.
LEMMA SignedInSafe ==
  ASSUME BrowserInv, SignOutInv, NEW c \in calls, NEW a \in Answers,
         Serve(c, a) \/ Fail(c, a), cookie' = Jar(c, a), SignedIn(c, a)
  PROVE  SignOutInv'
<1>1. c.kind = "login"
  BY DEF SignedIn
<1>2. gen \in Nat /\ issued + 1 \notin clicked /\ left \subseteq clicked
      /\ \A d \in calls : d.gen \in Nat
  BY BrowserFields DEF BrowserInv
<1>3. CASE a # "ok"
  <2>1. cookie' \in {0, cookie}
    BY <1>1, <1>3, CookieAfter DEF BrowserInv
  <2>2. calls' = calls \ {c} /\ UNCHANGED <<gen, shown, pending, signOutVars>>
    BY <1>3 DEF SignedIn, Ignore, Handle, pageVars
  <2>3. QED BY <1>2, <2>1, <2>2, QuietKeeps
<1>4. CASE a = "ok"
  <2>1. /\ gen' = gen + 1 /\ shown' = shown /\ UNCHANGED signOutVars
        /\ calls' = (calls \ {c}) \cup {Ask("resume", gen + 1)}
    BY <1>4 DEF SignedIn, Handle
  <2>2. cookie' = issued + 1
    BY <1>1, <1>4, AnswerIs, CookieAfter DEF BrowserInv
  <2>3. \A k, g : Ask(k, g).kind = k /\ Ask(k, g).gen = g /\ Ask(k, g).carries = cookie'
    BY DEF Ask
  <2>4. BareSignOuts'
    BY <1>2, <2>1, <2>2 DEF BareSignOuts
  <2>5. ASSUME NEW d \in calls', d.kind \in {"load", "resume"}, d.gen = gen'
        PROVE  d.carries \notin left'
    <3>1. CASE d = Ask("resume", gen + 1)
      BY <1>2, <2>1, <2>2, <2>3, <3>1
    <3>2. CASE d \in calls
      <4>1. d.gen <= gen
        BY <2>5, <3>2 DEF BrowserInv, NoneAhead
      <4>2. QED BY <1>2, <2>1, <2>5, <3>2, <4>1
    <3>3. QED BY <2>1, <3>1, <3>2
  <2>6. shown' \notin left' \ crossed' /\ cookie' \notin left'
    BY <1>2, <2>1, <2>2 DEF SignOutInv, NoWayBack
  <2>7. QED BY <2>4, <2>5, <2>6 DEF SignOutInv, NoWayBack
<1>5. QED BY <1>3, <1>4

\* A sign-out answered has cleared the cookie, or there was none of a session clicked in, and one
\* that was lost is owed; in all cases the new generation disowns every check under way (logout).
LEMMA SignedOutSafe ==
  ASSUME BrowserInv, SignOutInv, NEW c \in calls, NEW a \in Answers,
         Serve(c, a) \/ Fail(c, a), cookie' = Jar(c, a), SignedOut(c, a)
  PROVE  SignOutInv'
<1>1. c.kind = "logout"
  BY DEF SignedOut
<1>2. /\ cookie' \in {0, cookie} /\ (a # "lost" /\ c.carries # 0 => cookie' = 0)
  BY <1>1, CookieAfter DEF BrowserInv
<1>3. gen \in Nat /\ 0 \notin clicked /\ left \subseteq clicked /\ \A d \in calls : d.gen \in Nat
  BY BrowserFields DEF BrowserInv
<1>4. calls' = calls \ {c} /\ pending' = (a = "lost")
      /\ left' = left \cup (clicked \cap {shown}) /\ clicked' = clicked /\ crossed' = crossed
  BY DEF SignedOut, Handle, LetGo
<1>5. shown' = 0 /\ gen' = gen + 1
  BY DEF SignedOut, EndSession, ShowLogin, Discards
<1>6. BareSignOuts'
  BY <1>2, <1>3, <1>4 DEF SignOutInv, BareSignOuts
<1>7. left' \subseteq clicked /\ 0 \notin left'
  BY <1>3, <1>4
<1>8. ~pending' => cookie' \notin left' \ crossed'
  <2>1. CASE c.carries = 0
    BY <1>1, <1>2, <1>3, <1>4, <1>7, <2>1 DEF SignOutInv, BareSignOuts
  <2>2. CASE c.carries # 0
    BY <1>2, <1>4, <1>7, <2>2
  <2>3. QED BY <2>1, <2>2
<1>9. \A d \in calls' : d.kind \in {"load", "resume"} => d.gen # gen'
  <2>1. \A d \in calls' : d.kind \in {"load", "resume"} => d.gen <= gen
    BY <1>4 DEF BrowserInv, NoneAhead
  <2>2. QED BY <1>3, <1>4, <1>5, <2>1
<1>10. QED BY <1>5, <1>6, <1>7, <1>8, <1>9 DEF SignOutInv, NoWayBack

\* A page that loads again finishes the sign-out it owes before it checks the session (start).
LEMMA ReloadSafe == ASSUME BrowserInv, SignOutInv, Reload PROVE SignOutInv'
<1>1. /\ shown' = 0 /\ cookie' = cookie /\ pending' = pending /\ UNCHANGED signOutVars
      /\ calls' = {IF pending THEN Ask("logout", 0) ELSE Ask("load", 1)}
  BY DEF Reload
<1>2. 0 \notin clicked /\ 0 \notin left
  BY BrowserFields DEF BrowserInv
<1>3. \A k, g : Ask(k, g).kind = k /\ Ask(k, g).carries = cookie
  BY <1>1 DEF Ask
<1>4. BareSignOuts'
  BY <1>1, <1>2, <1>3 DEF BareSignOuts
<1>5. NoWayBack'
  <2>1. CASE pending
    BY <1>1, <1>2, <1>3, <2>1 DEF NoWayBack
  <2>2. CASE ~pending
    BY <1>1, <1>2, <1>3, <2>2 DEF SignOutInv, NoWayBack
  <2>3. QED BY <2>1, <2>2
<1>6. QED BY <1>4, <1>5 DEF SignOutInv

\* A click sends a sign-out.  If it carries no cookie, there is none now; if it crosses one that
\* carried none, its session is crossed.
LEMMA LogoutSafe == ASSUME BrowserInv, SignOutInv, Logout PROVE SignOutInv'
<1>1. /\ shown # 0 /\ cookie' = cookie /\ UNCHANGED <<gen, shown, pending, left>>
      /\ clicked' = clicked \cup {shown} /\ crossed \subseteq crossed'
      /\ (\E d \in InFlight("logout") : d.carries = 0) => crossed' = crossed \cup {shown}
  BY DEF Logout
<1>2. PICK n : n.kind = "logout" /\ n.carries = cookie' /\ calls' = calls \cup {n}
  BY DEF Logout, Send, Ask
<1>3. 0 \notin clicked
  BY BrowserFields DEF BrowserInv
<1>4. ASSUME NEW d \in calls', d.kind = "logout", d.carries = 0
      PROVE  cookie' \notin clicked' \ crossed'
  <2>1. CASE d = n
    BY <1>1, <1>2, <1>3, <1>4, <2>1
  <2>2. CASE d \in calls
    BY <1>1, <1>4, <2>2 DEF InFlight, SignOutInv, BareSignOuts
  <2>3. QED BY <1>2, <2>1, <2>2
<1>5. NoWayBack'
  BY <1>1, <1>2 DEF SignOutInv, NoWayBack
<1>6. QED BY <1>4, <1>5 DEF SignOutInv, BareSignOuts

\* The remaining steps keep the sign-out invariant.
LEMMA OthersSafe ==
  ASSUME BrowserInv, SignOutInv,
         \/ Watch \/ Login \/ \E kind \in {"read", "look"} : Read(kind)
         \/ Reconnect \/ SocketOpens \/ SocketRefused \/ SocketDrops
         \/ \E s \in 1..issued : Revoke(s)
         \/ UNCHANGED browserVars
  PROVE  SignOutInv'
<1>1. gen \in Nat
  BY BrowserFields DEF BrowserInv
<1>2. UNCHANGED <<gen, shown, pending, signOutVars, cookie>>
  BY DEF Watch, Login, Read, Reconnect, SocketOpens, SocketRefused, SocketDrops, Revoke,
         browserVars, pageVars
<1>3. \A d \in calls' \ calls : d.kind \notin {"load", "resume", "logout"}
  <2>1. calls' \subseteq calls \cup Tickets \cup Check
                     \cup {Ask("read", gen), Ask("look", gen), Ask("watch", gen), Ask("login", 0)}
    BY DEF Watch, Login, Read, Reconnect, SocketOpens, SocketRefused, SocketDrops, Revoke,
           Send, browserVars
  <2>2. QED BY <2>1, HarmlessAsks
<1>4. QED BY <1>1, <1>2, <1>3, QuietKeeps

\* The first state satisfies the sign-out invariant.
LEMMA SignOutInvInit == BrowserInit => SignOutInv
BY DEF BrowserInit, SignOutInv, NoWayBack, BareSignOuts

\* Every step keeps the sign-out invariant.
LEMMA SignOutInvStep == BrowserInv /\ SignOutInv /\ [BrowserNext]_browserVars => SignOutInv'
<1> SUFFICES ASSUME BrowserInv, SignOutInv, [BrowserNext]_browserVars PROVE SignOutInv'
  OBVIOUS
<1>1. ASSUME NEW c \in calls, Answered(c) \/ Troubled(c) PROVE SignOutInv'
  <2>1. PICK a \in Answers : (Serve(c, a) \/ Fail(c, a)) /\ Receive(c, a)
    BY <1>1 DEF Answered, Troubled
  <2>2. QED BY <2>1, GatedAnswersSafe, ResumedSafe, SignedInSafe, SignedOutSafe DEF Receive
<1>2. CASE Logout
  BY <1>2, LogoutSafe
<1>3. CASE Reload
  BY <1>3, ReloadSafe
<1>4. QED BY <1>1, <1>2, <1>3, OthersSafe DEF BrowserNext

-----------------------------------------------------------------------------
(* The theorems *)

\* The variables of the browser, the page and the console have their types.
THEOREM BrowserTypeCorrect == BrowserSpec => []BrowserTypeOK
BY BrowserInvariant, BrowserInvTypes, PTL

\* The live view runs exactly while a console is on screen, however late the answers of an
\* earlier session come (start, stop, initializeWebSocket).
THEOREM FeedFollowsThePanel == BrowserSpec => []FeedFollowsPanel
<1>1. BrowserInv => FeedFollowsPanel
  BY DEF BrowserInv
<1>2. QED BY <1>1, BrowserInvariant, PTL

\* A live view without a socket always has something under way that gets it one or ends its
\* session, however its answers, its timer and its socket interleave (requestSessionCheck, start).
THEOREM FeedIsNeverStranded == BrowserSpec => []FeedNeverStranded
<1>1. BrowserInv => FeedNeverStranded
  BY DEF BrowserInv
<1>2. QED BY <1>1, BrowserInvariant, PTL

\* A console replaced by "your session expired or was revoked" had a dead session or no cookie:
\* no late answer about an earlier session ends it by itself (ownsSession, authFetch).
THEOREM SessionsEndForCause == BrowserSpec => []EndsForCause
<1>1. BrowserInv => EndsForCause
  BY DEF BrowserInv
<1>2. QED BY <1>1, BrowserInvariant, PTL

\* A session signed out of is never on screen again, however many sign-outs are under way, in
\* whatever order they are answered or lost, and though its cookie survived; but for a session
\* clicked in while a sign-out that had carried no cookie was under way (logout, start).
THEOREM SignOutIsFinal == BrowserSpec => []SignedOutStaysOut
<1>1. SignOutInv => SignedOutStaysOut
  BY DEF SignOutInv, NoWayBack, SignedOutStaysOut
<1>2. QED BY <1>1, BrowserInvariant, SignOutInvInit, SignOutInvStep, PTL DEF BrowserSpec
=============================================================================
