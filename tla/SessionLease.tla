---------------------------- MODULE SessionLease ----------------------------
(***************************************************************************)
(* What the session gate promises, without its stores, its callers or its  *)
(* checks: a session is granted only while catalog-api honours it or at    *)
(* most Window after it stopped, never past its expiry, and it is called   *)
(* invalid only once catalog-api has stopped honouring it.                 *)
(***************************************************************************)
EXTENDS Integers

CONSTANTS
  Token,    \* bearers
  NoToken,  \* no bearer: not a member of Token
  Window    \* how long a session may still be granted after it died

VARIABLES
  now,
  deadSince,  \* when catalog-api stopped, or will stop, honouring each bearer
  expiresAt,  \* when its session expires at the latest
  granted,    \* the bearer granted in the last step, or NoToken
  refused     \* the bearer called invalid in the last step, or NoToken

vars == <<now, deadSince, expiresAt, granted, refused>>

Init ==
  /\ now = 0
  /\ expiresAt \in [Token -> Nat \ {0}]
  /\ deadSince = expiresAt
  /\ granted = NoToken
  /\ refused = NoToken

Grant(t) ==
  /\ now <= deadSince[t] + Window
  /\ now < expiresAt[t]
  /\ granted' = t
  /\ refused' = NoToken
  /\ UNCHANGED <<now, deadSince, expiresAt>>

Refuse(t) ==
  /\ now >= deadSince[t]
  /\ refused' = t
  /\ granted' = NoToken
  /\ UNCHANGED <<now, deadSince, expiresAt>>

\* catalog-api revokes a bearer before its expiry.
Die(t) ==
  /\ deadSince[t] = expiresAt[t]
  /\ deadSince' = [deadSince EXCEPT ![t] = IF now < expiresAt[t] THEN now ELSE @]
  /\ granted' = NoToken
  /\ refused' = NoToken
  /\ UNCHANGED <<now, expiresAt>>

Quiet ==
  /\ now' \in {now, now + 1}
  /\ granted' = NoToken
  /\ refused' = NoToken
  /\ UNCHANGED <<deadSince, expiresAt>>

Next == (\E t \in Token : Grant(t) \/ Refuse(t) \/ Die(t)) \/ Quiet

Spec == Init /\ [][Next]_vars
=============================================================================
