---------------------------- MODULE PageSession ----------------------------
(***************************************************************************)
(* What the parts of the page share: which session is on screen.  How one  *)
(* begins and ends is BrowserSession's; here it begins when admin.js       *)
(* announces it and ends when the login form replaces it, and every        *)
(* request of an earlier session may still be answered.                    *)
(***************************************************************************)
EXTENDS Integers

CONSTANT MaxSessions  \* bound: sessions shown

ASSUME PageAssumption == MaxSessions \in Nat \ {0}

VARIABLES
  session,  \* Dashboard.session: the session on screen, 0 at the login form
  begun,    \* sessions shown so far
  extras    \* steps counted against a bound of the part they belong to

pageSession == <<session, begun>>
Sessions == 1..MaxSessions
None == "none"

\* A step that may be taken any number of times: a loss, a repeated poll, a click.
Extra(max) == extras < max /\ extras' = extras + 1

NoSession == session = 0 /\ begun = 0 /\ extras = 0
Begin ==
  /\ session = 0 /\ begun < MaxSessions
  /\ begun' = begun + 1 /\ session' = begun'
  /\ UNCHANGED extras
End == session # 0 /\ session' = 0 /\ UNCHANGED <<begun, extras>>
=============================================================================
