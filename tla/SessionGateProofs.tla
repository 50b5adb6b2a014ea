-------------------------- MODULE SessionGateProofs --------------------------
(***************************************************************************)
(* Machine-checked facts about SessionGate, for any number of bearers,     *)
(* coroutines and tickets and any time limits that GateAssumption allows.  *)
(***************************************************************************)
EXTENDS SessionGate, FiniteSetTheorems, TLAPS

\* The empty values of the stores, the callers and the reply have their types.
LEMMA Blanks ==
  /\ Horizon \in Nat /\ Never \in Nat /\ 0 \in Time
  /\ Absent \in Entry
  /\ NoTicket \in TicketEntry
  /\ Idle \in HandlerState
  /\ Silent \in Reply
<1>1. Horizon \in Nat /\ Never \in Nat /\ 0 \in Time
  BY GateAssumption DEF Never, Time
<1>2. QED
  BY <1>1 DEF Absent, Entry, NoTicket, TicketEntry, Idle, HandlerState, Silent, Reply

\* A store over its limit loses one entry, never the one just stored.
LEMMA CappedEntries ==
  ASSUME NEW store, NEW k, NEW max, NEW absent, NEW s \in Capped(store, k, max, absent)
  PROVE  s = store \/ \E v \in DOMAIN store \ {k} : s = [store EXCEPT ![v] = absent]
BY DEF Capped, Oldest, Held

\* Storing a session keeps the cache well typed.
LEMMA CachePutType ==
  ASSUME TypeOK, NEW t \in Token, NEW s \in CachePut(t)
  PROVE  s \in [Token -> Entry]
<1> DEFINE new == [cache EXCEPT ![t] = [until |-> now + Lifetime(CacheTTL, t), put |-> now]]
<1>1. CASE Lifetime(CacheTTL, t) <= 0
  BY <1>1, Blanks DEF CachePut, TypeOK
<1>2. CASE ~(Lifetime(CacheTTL, t) <= 0)
  <2>1. Lifetime(CacheTTL, t) \in Int
    BY GateAssumption DEF Lifetime, TypeOK, Never
  <2>2. new \in [Token -> Entry]
    BY <2>1, <1>2, GateAssumption DEF TypeOK, Entry, Time, Never
  <2>3. s \in Capped(new, t, MaxCached, Absent)
    BY <1>2 DEF CachePut
  <2>4. s = new \/ \E v \in DOMAIN new \ {t} : s = [new EXCEPT ![v] = Absent]
    BY <2>3, CappedEntries
  <2>5. QED BY <2>2, <2>4, Blanks
<1>3. QED BY <1>1, <1>2

\* Recording an invalid answer keeps the record well typed.
LEMMA InvalidAddType ==
  ASSUME TypeOK, NEW t \in Token, NEW s \in InvalidAdd(t)
  PROVE  s \in [Token -> Entry]
<1> DEFINE new == [invalid EXCEPT ![t] = [until |-> now + InvalidTTL, put |-> now]]
<1>1. new \in [Token -> Entry]
  BY GateAssumption DEF TypeOK, Entry, Time, Never
<1>2. s = new \/ \E v \in DOMAIN new \ {t} : s = [new EXCEPT ![v] = Absent]
  BY CappedEntries DEF InvalidAdd
<1>3. QED BY <1>1, <1>2, Blanks

\* Minting a ticket keeps the ticket store well typed.
LEMMA TicketIssueType ==
  ASSUME TypeOK, NEW k \in Ticket, NEW t \in Token, NEW s \in TicketIssue(k, t)
  PROVE  s \in [Ticket -> TicketEntry]
<1> DEFINE new == [Pruned EXCEPT ![k] = [until |-> now + TicketLifetime(t), put |-> now,
                                         token |-> t, late |-> t \in signedOut]]
<1>1. TicketLifetime(t) \in Nat
  BY GateAssumption DEF TicketLifetime, Lifetime, TypeOK, Never
<1>2. NoTicket \in TicketEntry
  BY Blanks
<1>3. Pruned \in [Ticket -> TicketEntry]
  BY <1>2 DEF Pruned, TypeOK
<1>4. new \in [Ticket -> TicketEntry]
  BY <1>1, <1>3, GateAssumption DEF TypeOK, TicketEntry, Time, Never
<1>5. s = new \/ \E v \in DOMAIN new \ {k} : s = [new EXCEPT ![v] = NoTicket]
  BY CappedEntries DEF TicketIssue
<1>6. QED BY <1>2, <1>4, <1>5

\* Whatever a caller does with a granted session keeps the tickets well typed.
LEMMA MintingType ==
  ASSUME TypeOK, NEW kind, NEW t \in Token, Minting(kind, t)
  PROVE  tickets' \in [Ticket -> TicketEntry] /\ minted' \subseteq Ticket
BY TicketIssueType DEF Minting, TypeOK
-----------------------------------------------------------------------------
\* The initial state of the gate is well typed.
LEMMA TypeInit == Init => TypeOK
<1> SUFFICES ASSUME Init PROVE TypeOK
  OBVIOUS
<1>1. now \in 0 .. Horizon /\ Never \in Time
  BY Blanks DEF Init, Time
<1>2. cache \in [Token -> Entry] /\ invalid \in [Token -> Entry]
  BY Blanks DEF Init
<1>3. tickets \in [Ticket -> TicketEntry] /\ opened \in [Ticket -> Nat]
  BY Blanks DEF Init
<1>4. handler \in [Handler -> HandlerState] /\ reply \in Reply
  BY Blanks DEF Init
<1>5. QED BY <1>1, <1>2, <1>3, <1>4 DEF Init, TypeOK

\* Every step of the gate and its callers keeps the types.
LEMMA TypeStep == TypeOK /\ [Next]_vars => TypeOK'
<1> SUFFICES ASSUME TypeOK, [Next]_vars PROVE TypeOK'
  OBVIOUS
<1> USE Blanks
<1>t. now \in Time /\ now \in Nat
  BY DEF TypeOK, Time, Never
<1>1. ASSUME NEW kind \in {"request", "ticket"}, NEW t \in Token, ServeFromCache(kind, t)
      PROVE  TypeOK'
  <2>1. reply' \in Reply
    BY <1>1, <1>t DEF ServeFromCache, Answer, Reply
  <2>2. QED BY <1>1, <2>1, MintingType DEF ServeFromCache, TypeOK
<1>2. ASSUME NEW kind \in {"request", "ticket"}, NEW t \in Token, RefuseFromRecord(kind, t)
      PROVE  TypeOK'
  <2>1. reply' \in Reply /\ cache' \in [Token -> Entry]
    BY <1>2, <1>t DEF RefuseFromRecord, Answer, Reply, CacheGet, TypeOK
  <2>2. QED BY <1>2, <2>1 DEF RefuseFromRecord, TypeOK
<1>3. ASSUME NEW c \in Handler, NEW kind \in {"request", "ticket"}, NEW t \in Token,
             AskCatalog(c, kind, t)
      PROVE  TypeOK'
  <2>1. Asking(kind, t) \in HandlerState
    BY <1>t DEF Asking, HandlerState
  <2>2. cache' \in [Token -> Entry] /\ invalid' \in [Token -> Entry]
    BY <1>3 DEF AskCatalog, CacheGet, InvalidGet, TypeOK
  <2>3. QED BY <1>3, <2>1, <2>2 DEF AskCatalog, TypeOK
<1>4. ASSUME NEW k \in Ticket, RedeemExpired(k) PROVE TypeOK'
  BY <1>4 DEF RedeemExpired, TypeOK
<1>5. ASSUME NEW c \in Handler, NEW k \in Ticket, OpenSocket(c, k) PROVE TypeOK'
  <2> DEFINE t == tickets[k].token
  <2>1. t \in Token
    BY <1>5, <1>t DEF OpenSocket, TicketLive, TypeOK, TicketEntry, NoTicket
  <2>2. tickets' \in [Ticket -> TicketEntry] /\ opened' \in [Ticket -> Nat]
    BY <1>5 DEF OpenSocket, TypeOK
  <2>3. invalid' \in [Token -> Entry]
    BY <1>5 DEF OpenSocket, InvalidGet, TypeOK
  <2>4. Asking("open", t) \in HandlerState
    BY <2>1, <1>t DEF Asking, HandlerState
  <2>5. handler' \in [Handler -> HandlerState]
    BY <1>5, <2>4 DEF OpenSocket, TypeOK
  <2>6. reply' \in Reply
    BY <1>5, <2>1, <1>t DEF OpenSocket, Answer, Reply
  <2>7. QED BY <1>5, <2>2, <2>3, <2>5, <2>6 DEF OpenSocket, TypeOK
<1>6. ASSUME NEW c \in Handler, CatalogAnswers(c) PROVE TypeOK'
  <2>1. handler' \in [Handler -> HandlerState]
    BY <1>6 DEF CatalogAnswers, HandlerState, Idle, TypeOK
  <2>2. QED BY <1>6, <2>1 DEF CatalogAnswers, TypeOK
<1>7. ASSUME NEW c \in Handler, CatalogFails(c) PROVE TypeOK'
  <2>1. handler' \in [Handler -> HandlerState]
    BY <1>7 DEF CatalogFails, HandlerState, Idle, TypeOK
  <2>2. QED BY <1>7, <2>1 DEF CatalogFails, TypeOK
<1>8. ASSUME NEW c \in Handler, Grant(c) PROVE TypeOK'
  <2> DEFINE t == handler[c].token
  <2>1. t \in Token /\ handler[c].kind \in {"request", "ticket", "open", "recheck"}
        /\ handler[c].asked \in Time
    BY <1>8 DEF Grant, TypeOK, HandlerState, Idle
  <2>2. cache' \in [Token -> Entry]
    BY <1>8, <2>1, CachePutType DEF Grant
  <2>3. tickets' \in [Ticket -> TicketEntry] /\ minted' \subseteq Ticket
    BY <1>8, <2>1, MintingType DEF Grant
  <2>4. AfterGrant(c) \in HandlerState
    <3>1. CASE handler[c].kind = "open"
      <4>1. now + SendTime \in Nat
        BY <1>t, GateAssumption
      <4>2. QED BY <3>1, <4>1, <2>1 DEF AfterGrant, HandlerState, Idle
    <3>2. CASE handler[c].kind = "recheck"
      <4>1. now + Recheck \in Nat
        BY <1>t, GateAssumption
      <4>2. QED BY <3>2, <4>1, <2>1 DEF AfterGrant, HandlerState, Idle
    <3>3. CASE handler[c].kind \in {"request", "ticket"}
      BY <3>3 DEF AfterGrant
    <3>4. QED BY <2>1, <3>1, <3>2, <3>3
  <2>5. handler' \in [Handler -> HandlerState]
    BY <1>8, <2>4 DEF Grant, TypeOK
  <2>6. reply' \in Reply
    BY <1>8, <2>1 DEF Grant, Answer, Reply
  <2>7. QED BY <1>8, <2>2, <2>3, <2>5, <2>6 DEF Grant, TypeOK
<1>9. ASSUME NEW c \in Handler, RefuseInvalid(c) PROVE TypeOK'
  <2> DEFINE t == handler[c].token
  <2>1. t \in Token /\ handler[c].kind \in {"request", "ticket", "open", "recheck"}
        /\ handler[c].asked \in Time
    BY <1>9 DEF RefuseInvalid, TypeOK, HandlerState, Idle
  <2>2. cache' \in [Token -> Entry] /\ invalid' \in [Token -> Entry]
    BY <1>9, <2>1, InvalidAddType DEF RefuseInvalid, CacheEvict, TypeOK
  <2>3. reply' \in Reply
    BY <1>9, <2>1 DEF RefuseInvalid, Answer, Reply
  <2>4. QED BY <1>9, <2>2, <2>3 DEF RefuseInvalid, TypeOK
<1>10. ASSUME NEW c \in Handler, RefuseUnavailable(c) PROVE TypeOK'
  <2>1. handler[c].token \in Token /\ handler[c].asked \in Time
        /\ handler[c].kind \in {"request", "ticket", "open", "recheck"}
    BY <1>10 DEF RefuseUnavailable, TypeOK, HandlerState, Idle
  <2>2. reply' \in Reply
    BY <1>10, <2>1 DEF RefuseUnavailable, Answer, Reply
  <2>3. QED BY <1>10, <2>2 DEF RefuseUnavailable, TypeOK
<1>11. ASSUME NEW c \in Handler, SendInitial(c) PROVE TypeOK'
  <2>1. handler' \in [Handler -> HandlerState]
    <3>1. now + Recheck \in Nat
      BY <1>t, GateAssumption
    <3>2. handler[c] \in [at : {"sending", "open"}, kind : {"socket"}, token : Token,
                          asked : {0}, answer : {"none"}, due : Nat]
      BY <1>11 DEF SendInitial, HandlerState, Idle, TypeOK
    <3>3. [handler[c] EXCEPT !.at = "open", !.due = now + Recheck] \in HandlerState
      BY <3>1, <3>2 DEF HandlerState
    <3>4. QED BY <1>11, <3>3 DEF SendInitial, TypeOK
  <2>2. QED BY <1>11, <2>1 DEF SendInitial, TypeOK
<1>12. ASSUME NEW c \in Handler, SocketLost(c) PROVE TypeOK'
  BY <1>12 DEF SocketLost, TypeOK
<1>13. ASSUME NEW c \in Handler, StartRecheck(c) PROVE TypeOK'
  <2> DEFINE t == handler[c].token
  <2>1. t \in Token
    BY <1>13 DEF StartRecheck, RecheckDue, TypeOK, HandlerState, Idle
  <2>2. Asking("recheck", t) \in HandlerState
    BY <2>1, <1>t DEF Asking, HandlerState
  <2>3. invalid' \in [Token -> Entry]
    BY <1>13 DEF StartRecheck, InvalidGet, TypeOK
  <2>4. handler' \in [Handler -> HandlerState]
    BY <1>13, <2>2 DEF StartRecheck, TypeOK
  <2>5. reply' \in Reply
    BY <1>13, <2>1, <1>t DEF StartRecheck, Answer, Reply
  <2>6. QED BY <1>13, <2>3, <2>4, <2>5 DEF StartRecheck, TypeOK
<1>14. ASSUME NEW t \in Token, Revoke(t) PROVE TypeOK'
  BY <1>14, <1>t DEF Revoke, TypeOK
<1>15. ASSUME NEW t \in Token, Logout(t) \/ ProxyRefused(t) PROVE TypeOK'
  <2>1. cache' \in [Token -> Entry] /\ tickets' \in [Ticket -> TicketEntry]
    BY <1>15 DEF Logout, ProxyRefused, Forget, CacheEvict, TicketPurge, TypeOK
  <2>2. QED BY <1>15, <2>1 DEF Logout, ProxyRefused, Forget, TypeOK
<1>16. ASSUME Tick PROVE TypeOK'
  BY <1>16 DEF Tick, TypeOK
<1>17. ASSUME UNCHANGED vars PROVE TypeOK'
  BY <1>17 DEF vars, TypeOK
<1>18. QED
  BY <1>1, <1>2, <1>3, <1>4, <1>5, <1>6, <1>7, <1>8, <1>9, <1>10, <1>11, <1>12, <1>13,
     <1>14, <1>15, <1>16, <1>17 DEF Next

\* Every reachable state of the gate is well typed.
THEOREM TypeCorrect == Spec => []TypeOK
BY TypeInit, TypeStep, PTL DEF Spec
-----------------------------------------------------------------------------
\* Only three kinds of step move the clock or catalog-api's record.
LEMMA AuthorityStep ==
  ASSUME [Next]_vars
  PROVE  \/ UNCHANGED <<now, revokedAt, expiresAt>>
         \/ Tick
         \/ \E t \in Token : Revoke(t)
BY DEF Next, vars, ServeFromCache, RefuseFromRecord, AskCatalog, RedeemExpired, OpenSocket,
       CatalogAnswers, CatalogFails, Grant, RefuseInvalid, RefuseUnavailable, SendInitial,
       SocketLost, StartRecheck, Logout, ProxyRefused, Forget

\* The instant a bearer dies is a time, and a step brings it no nearer than now.
LEMMA DeadSinceStep ==
  ASSUME TypeOK, TypeOK', [Next]_vars, NEW t \in Token
  PROVE  /\ DeadSince(t) \in Nat /\ DeadSince(t)' \in Nat
         /\ now \in Nat /\ now' \in Nat /\ now <= now' /\ now' <= now + 1
         /\ expiresAt' = expiresAt
         /\ DeadSince(t)' = DeadSince(t) \/ (now' = now /\ DeadSince(t)' = now)
         /\ DeadSince(t) <= expiresAt[t]
<1>1. /\ DeadSince(t) \in Nat /\ DeadSince(t)' \in Nat /\ now \in Nat /\ now' \in Nat
      /\ DeadSince(t) <= expiresAt[t]
  BY Blanks DEF TypeOK, DeadSince, Time, Never
<1>2. CASE UNCHANGED <<now, revokedAt, expiresAt>>
  BY <1>1, <1>2 DEF DeadSince
<1>3. CASE Tick
  BY <1>1, <1>3 DEF Tick, DeadSince
<1>4. CASE \E u \in Token : Revoke(u)
  <2>1. PICK u \in Token : Revoke(u)
    BY <1>4
  <2>2. DeadSince(t)' = DeadSince(t) \/ DeadSince(t)' = now
    BY <2>1, Blanks DEF Revoke, DeadSince, TypeOK, Time, Never
  <2>3. QED BY <1>1, <2>1, <2>2 DEF Revoke
<1>5. QED BY <1>2, <1>3, <1>4, AuthorityStep

\* catalog-api never honours again what it stopped honouring.
LEMMA DeadStaysDead ==
  ASSUME TypeOK, [Next]_vars, NEW t \in Token, ~Honoured(t)
  PROVE  ~Honoured(t)'
<1>1. CASE UNCHANGED <<now, revokedAt, expiresAt>>
  BY <1>1 DEF Honoured
<1>2. CASE Tick
  BY <1>2 DEF Tick, Honoured, TypeOK
<1>3. CASE \E u \in Token : Revoke(u)
  BY <1>3 DEF Revoke, Honoured, TypeOK, Never
<1>4. QED BY <1>1, <1>2, <1>3, AuthorityStep

\* A bearer that is honoured has not died yet; one that is not died by now.
LEMMA HonouredMeansAlive ==
  ASSUME TypeOK, AuthorityInv, NEW t \in Token
  PROVE  IF Honoured(t) THEN now < DeadSince(t) ELSE DeadSince(t) <= now
BY Blanks DEF TypeOK, AuthorityInv, Honoured, DeadSince, Time, Never

\* No step dates a revocation in the future.
LEMMA AuthorityInvStep == TypeOK /\ AuthorityInv /\ [Next]_vars => AuthorityInv'
<1> SUFFICES ASSUME TypeOK, AuthorityInv, [Next]_vars PROVE AuthorityInv'
  OBVIOUS
<1>1. CASE UNCHANGED <<now, revokedAt, expiresAt>>
  BY <1>1 DEF AuthorityInv
<1>2. CASE Tick
  BY <1>2 DEF Tick, AuthorityInv, TypeOK, Time, Never
<1>3. CASE \E u \in Token : Revoke(u)
  BY <1>3 DEF Revoke, AuthorityInv, TypeOK, Time, Never
<1>4. QED BY <1>1, <1>2, <1>3, AuthorityStep
-----------------------------------------------------------------------------
(* The positive cache *)

\* A session cached on a check that is at most Timeout old lives within the lease.
LEMMA CachePutBound ==
  ASSUME TypeOK, CacheInv, NEW t \in Token, NEW s \in CachePut(t),
         now <= DeadSince(t) + Timeout
  PROVE  \A u \in Token : /\ s[u].until <= expiresAt[u]
                          /\ s[u].until <= now + CacheTTL
                          /\ s[u].until <= DeadSince(u) + Timeout + CacheTTL
<1> DEFINE new == [cache EXCEPT ![t] = [until |-> now + Lifetime(CacheTTL, t), put |-> now]]
           Bounded(e, u) == /\ e.until <= expiresAt[u]
                            /\ e.until <= now + CacheTTL
                            /\ e.until <= DeadSince(u) + Timeout + CacheTTL
<1>1. \A u \in Token : /\ now \in Nat /\ DeadSince(u) \in Nat /\ expiresAt[u] \in Nat
                       /\ Bounded(Absent, u) /\ Bounded(cache[u], u)
  BY Blanks, GateAssumption DEF TypeOK, DeadSince, CacheInv, Absent, Time, Never
<1>2. CASE Lifetime(CacheTTL, t) <= 0
  <2>1. s = [cache EXCEPT ![t] = Absent]
    BY <1>2 DEF CachePut
  <2>2. QED BY <1>1, <2>1 DEF TypeOK
<1>3. CASE ~(Lifetime(CacheTTL, t) <= 0)
  <2>1. Lifetime(CacheTTL, t) <= CacheTTL /\ now + Lifetime(CacheTTL, t) <= expiresAt[t]
        /\ Lifetime(CacheTTL, t) \in Int
    BY <1>1, GateAssumption DEF Lifetime
  <2>2. Bounded([until |-> now + Lifetime(CacheTTL, t), put |-> now], t)
    BY <1>1, <2>1, GateAssumption
  <2>3. \A u \in Token : Bounded(new[u], u)
    BY <1>1, <2>2 DEF TypeOK
  <2>4. s = new \/ \E v \in DOMAIN new \ {t} : s = [new EXCEPT ![v] = Absent]
    BY <1>3, CappedEntries DEF CachePut
  <2>5. DOMAIN new = Token
    BY DEF TypeOK
  <2> HIDE DEF Bounded, new
  <2>6. \A u \in Token : Bounded(s[u], u)
    BY <1>1, <2>3, <2>4, <2>5
  <2>7. QED BY <2>6 DEF Bounded
<1>4. QED BY <1>2, <1>3

\* A live answer still in hand is at most Timeout older than the bearer's death.
LEMMA LiveAnswerRecent ==
  ASSUME TypeOK, HandlerInv, NEW c \in Handler, handler[c].at = "checking",
         Verdict(c) = "live"
  PROVE  /\ handler[c].token \in Token
         /\ handler[c].asked \in Nat
         /\ handler[c].asked <= DeadSince(handler[c].token)
         /\ handler[c].asked <= now
         /\ now <= handler[c].asked + Timeout
         /\ now <= DeadSince(handler[c].token) + Timeout
         /\ now < expiresAt[handler[c].token]
<1>1. handler[c].token \in Token /\ handler[c].asked \in Nat
  BY Blanks DEF TypeOK, HandlerState, Idle, Time
<1>2. handler[c].answer = "live" /\ ~(now >= expiresAt[handler[c].token])
  BY DEF Verdict
<1>3. /\ handler[c].asked <= now /\ now <= handler[c].asked + Timeout
      /\ handler[c].asked <= DeadSince(handler[c].token)
  BY <1>2 DEF HandlerInv, CheckInv
<1>4. now \in Nat /\ DeadSince(handler[c].token) \in Nat /\ expiresAt[handler[c].token] \in Nat
  BY <1>1, Blanks DEF TypeOK, DeadSince, Time, Never
<1>5. QED BY <1>1, <1>2, <1>3, <1>4, GateAssumption

\* A cache entry keeps its bounds: it was put there by an answer no older than its lifetime.
LEMMA CacheStep ==
  ASSUME TypeOK, TypeOK', CacheInv, HandlerInv, [Next]_vars
  PROVE  CacheInv'
<1>1. ASSUME NEW u \in Token
      PROVE  /\ DeadSince(u) \in Nat /\ DeadSince(u)' \in Nat /\ now \in Nat /\ now' \in Nat
             /\ now <= now' /\ expiresAt[u] \in Nat /\ expiresAt' = expiresAt
             /\ DeadSince(u)' = DeadSince(u) \/ (now' = now /\ DeadSince(u)' = now)
             /\ cache[u].until \in Nat /\ cache'[u].until \in Nat
  BY DeadSinceStep, Blanks DEF TypeOK, Entry, Time, Never
<1>2. CASE \E c \in Handler : Grant(c)
  <2>1. PICK c \in Handler : Grant(c)
    BY <1>2
  <2>2. now <= DeadSince(handler[c].token) + Timeout /\ handler[c].token \in Token
    BY <2>1, LiveAnswerRecent DEF Grant
  <2>3. cache' \in CachePut(handler[c].token)
    BY <2>1 DEF Grant
  <2>4. \A u \in Token : /\ cache'[u].until <= expiresAt[u]
                         /\ cache'[u].until <= now + CacheTTL
                         /\ cache'[u].until <= DeadSince(u) + Timeout + CacheTTL
    BY <2>2, <2>3, CachePutBound
  <2>5. UNCHANGED <<now, revokedAt, expiresAt>>
    BY <2>1 DEF Grant
  <2>6. QED BY <2>4, <2>5 DEF CacheInv, DeadSince
<1>3. CASE ~\E c \in Handler : Grant(c)
  <2>1. \A u \in Token : cache'[u] = cache[u] \/ cache'[u] = Absent
    BY <1>3 DEF Next, vars, TypeOK, ServeFromCache, RefuseFromRecord, CacheGet, AskCatalog,
         RedeemExpired, OpenSocket, CatalogAnswers, CatalogFails, RefuseInvalid, CacheEvict,
         RefuseUnavailable, SendInitial, SocketLost, StartRecheck, Revoke, Logout,
         ProxyRefused, Forget, Tick
  <2>2. ASSUME NEW u \in Token
        PROVE  /\ cache'[u].until <= expiresAt'[u]
               /\ cache'[u].until <= now' + CacheTTL
               /\ cache'[u].until <= DeadSince(u)' + Timeout + CacheTTL
    <3>1. cache'[u].until <= cache[u].until
      BY <1>1, <2>1 DEF Absent
    <3>2. QED BY <1>1, <3>1, GateAssumption DEF CacheInv
  <2>3. QED BY <2>2 DEF CacheInv
<1>4. QED BY <1>2, <1>3

(* The record of invalid answers *)

\* Whatever is called invalid after a check is no longer honoured.
LEMMA DeadAnswerTrue ==
  ASSUME TypeOK, HandlerInv, NEW c \in Handler, handler[c].at = "checking",
         Verdict(c) = "dead"
  PROVE  handler[c].token \in Token /\ ~Honoured(handler[c].token)
<1>1. handler[c].token \in Token
  BY DEF TypeOK, HandlerState, Idle
<1>2. CASE handler[c].answer = "live" /\ now >= expiresAt[handler[c].token]
  BY <1>1, <1>2, Blanks DEF Honoured, TypeOK, Time, Never
<1>3. CASE handler[c].answer = "dead"
  BY <1>1, <1>3 DEF HandlerInv, CheckInv
<1>4. QED BY <1>1, <1>2, <1>3 DEF Verdict

\* A recorded refusal is only ever of a bearer that is dead.
LEMMA InvalidStep ==
  ASSUME TypeOK, TypeOK', InvalidInv, HandlerInv, [Next]_vars
  PROVE  InvalidInv'
<1>1. ASSUME NEW u \in Token, invalid'[u].until > 0, Honoured(u)
      PROVE  ~Honoured(u)'
  <2>1. invalid[u].until = 0
    BY <1>1, Blanks DEF InvalidInv, TypeOK, Entry
  <2>2. invalid'[u] # invalid[u] /\ invalid'[u] # Absent
    BY <1>1, <2>1 DEF Absent
  <2>3. PICK c \in Handler : RefuseInvalid(c)
    BY <2>2 DEF Next, vars, TypeOK, ServeFromCache, RefuseFromRecord, AskCatalog, InvalidGet,
         RedeemExpired, OpenSocket, CatalogAnswers, CatalogFails, Grant, RefuseUnavailable,
         SendInitial, SocketLost, StartRecheck, Revoke, Logout, ProxyRefused, Forget, Tick
  <2> DEFINE t == handler[c].token
             new == [invalid EXCEPT ![t] = [until |-> now + InvalidTTL, put |-> now]]
  <2>4. invalid' \in InvalidAdd(t)
    BY <2>3 DEF RefuseInvalid
  <2>5. invalid' = new \/ \E v \in DOMAIN new \ {t} : invalid' = [new EXCEPT ![v] = Absent]
    BY <2>4, CappedEntries DEF InvalidAdd
  <2>6. u = t
    BY <2>2, <2>5 DEF TypeOK
  <2>7. ~Honoured(t)
    BY <2>3, DeadAnswerTrue DEF RefuseInvalid
  <2>8. QED BY <1>1, <2>6, <2>7
<1>2. ASSUME NEW u \in Token, invalid'[u].until > 0
      PROVE  ~Honoured(u)'
  BY <1>1, <1>2, DeadStaysDead
<1>3. QED BY <1>2 DEF InvalidInv
-----------------------------------------------------------------------------
(* The suspended callers *)

\* A caller that does not move keeps its bounds, whatever the others do: time passes
\* only where its deadlines allow it.
LEMMA HandlerKept ==
  ASSUME TypeOK, TypeOK', HandlerInv, [Next]_vars,
         NEW c \in Handler, handler'[c] = handler[c], handler[c] # Idle
  PROVE  (CheckInv(c) /\ SendingInv(c) /\ OpenInv(c))'
<1> DEFINE t == handler[c].token
<1>1. /\ t \in Token /\ handler[c].asked \in Nat /\ handler[c].due \in Nat
      /\ handler[c].at \in {"checking", "sending", "open"}
  BY Blanks DEF TypeOK, HandlerState, Time
<1>2. /\ DeadSince(t) \in Nat /\ DeadSince(t)' \in Nat /\ now \in Nat /\ now' \in Nat
      /\ DeadSince(t)' = DeadSince(t) \/ (now' = now /\ DeadSince(t)' = now)
      /\ ~Honoured(t) => ~Honoured(t)'
  BY <1>1, DeadSinceStep, DeadStaysDead
<1>3. CASE now' = now
  <2>1. CheckInv(c)'
    BY <1>1, <1>2, <1>3, GateAssumption DEF HandlerInv, CheckInv
  <2>2. SendingInv(c)'
    BY <1>1, <1>2, <1>3, GateAssumption DEF HandlerInv, SendingInv
  <2>3. OpenInv(c)'
    BY <1>1, <1>2, <1>3, GateAssumption DEF HandlerInv, OpenInv
  <2>4. QED BY <2>1, <2>2, <2>3
<1>4. CASE Tick
  <2>1. /\ now' = now + 1 /\ DeadSince(t)' = DeadSince(t)
        /\ handler[c].at = "checking" => now < handler[c].asked + Timeout
        /\ handler[c].at = "sending" => now < handler[c].due
        /\ handler[c].at = "open" => now < handler[c].due
    BY <1>1, <1>2, <1>4 DEF Tick, RecheckDue
  <2>2. CheckInv(c)'
    BY <1>1, <1>2, <2>1, GateAssumption DEF HandlerInv, CheckInv
  <2>3. SendingInv(c)'
    BY <1>1, <1>2, <2>1, GateAssumption DEF HandlerInv, SendingInv
  <2>4. OpenInv(c)'
    BY <1>1, <1>2, <2>1, GateAssumption DEF HandlerInv, OpenInv
  <2>5. QED BY <2>2, <2>3, <2>4
<1>5. CASE \E u \in Token : Revoke(u)
  BY <1>3, <1>5 DEF Revoke
<1>6. QED BY <1>3, <1>4, <1>5, AuthorityStep

\* A step moves at most the caller it is about.
LEMMA HandlerMoves ==
  ASSUME TypeOK, [Next]_vars, NEW c \in Handler
  PROVE  \/ handler'[c] = handler[c]
         \/ handler'[c] = Idle
         \/ \E kind \in {"request", "ticket"}, t \in Token : AskCatalog(c, kind, t)
         \/ \E k \in Ticket : OpenSocket(c, k)
         \/ CatalogAnswers(c) \/ CatalogFails(c) \/ Grant(c) \/ SendInitial(c)
         \/ StartRecheck(c)
<1>1. CASE \E kind \in {"request", "ticket"}, t \in Token, d \in Handler : AskCatalog(d, kind, t)
  BY <1>1 DEF AskCatalog, TypeOK
<1>2. CASE \E k \in Ticket, d \in Handler : OpenSocket(d, k)
  BY <1>2 DEF OpenSocket, TypeOK
<1>3. CASE \E d \in Handler : CatalogAnswers(d) \/ CatalogFails(d)
  BY <1>3 DEF CatalogAnswers, CatalogFails, TypeOK
<1>4. CASE \E d \in Handler : Grant(d) \/ SendInitial(d) \/ StartRecheck(d)
  BY <1>4 DEF Grant, SendInitial, StartRecheck, TypeOK
<1>5. CASE \E d \in Handler : RefuseInvalid(d) \/ RefuseUnavailable(d) \/ SocketLost(d)
  BY <1>5 DEF RefuseInvalid, RefuseUnavailable, SocketLost, TypeOK
<1>6. CASE handler' = handler
  BY <1>6
<1>7. QED
  BY <1>1, <1>2, <1>3, <1>4, <1>5, <1>6 DEF Next, vars, ServeFromCache, RefuseFromRecord,
     RedeemExpired, Revoke, Logout, ProxyRefused, Forget, Tick

\* A caller keeps its bounds wherever it is suspended: how long ago its question was asked,
\* what the answer says, and when an open socket is due for its re-check.
LEMMA HandlerStep ==
  ASSUME TypeOK, TypeOK', AuthorityInv, HandlerInv, [Next]_vars
  PROVE  HandlerInv'
<1> SUFFICES ASSUME NEW c \in Handler PROVE (CheckInv(c) /\ SendingInv(c) /\ OpenInv(c))'
  BY DEF HandlerInv
<1>1. CASE handler'[c] = Idle
  BY <1>1 DEF Idle, CheckInv, SendingInv, OpenInv
<1>2. CASE handler'[c] = handler[c]
  BY <1>1, <1>2, HandlerKept
<1>n. now \in Nat
  BY Blanks DEF TypeOK
<1>3. CASE \E kind \in {"request", "ticket"}, t \in Token : AskCatalog(c, kind, t)
  <2>1. PICK kind \in {"request", "ticket"}, t \in Token : AskCatalog(c, kind, t)
    BY <1>3
  <2>2. handler'[c] = Asking(kind, t) /\ now' = now
    BY <2>1 DEF AskCatalog, TypeOK
  <2>3. QED
    BY <2>2, <1>n, GateAssumption DEF Asking, CheckInv, SendingInv, OpenInv
<1>4. CASE \E k \in Ticket : OpenSocket(c, k)
  <2>1. PICK k \in Ticket : OpenSocket(c, k)
    BY <1>4
  <2>2. CASE handler'[c] = Asking("open", tickets[k].token)
    <3>1. now' = now
      BY <2>1 DEF OpenSocket
    <3>2. QED
      BY <2>2, <3>1, <1>n, GateAssumption DEF Asking, CheckInv, SendingInv, OpenInv
  <2>3. QED BY <1>2, <2>1, <2>2 DEF OpenSocket, TypeOK
<1>5. CASE CatalogAnswers(c)
  <2> DEFINE t == handler[c].token
  <2>1. t \in Token /\ handler[c].asked \in Nat
    BY <1>5, Blanks DEF CatalogAnswers, TypeOK, HandlerState, Idle, Time
  <2>2. /\ handler'[c] = [handler[c] EXCEPT !.answer = IF Honoured(t) THEN "live" ELSE "dead"]
        /\ handler[c].at = "checking" /\ UNCHANGED <<now, revokedAt, expiresAt>>
    BY <1>5 DEF CatalogAnswers, TypeOK
  <2>3. /\ handler'[c].at = "checking" /\ handler'[c].token = t
        /\ handler'[c].asked = handler[c].asked /\ handler'[c].kind = handler[c].kind
        /\ handler'[c].answer = IF Honoured(t) THEN "live" ELSE "dead"
    <3>1. handler[c] \in [at : {"checking"}, kind : {"request", "ticket", "open", "recheck"},
                          token : Token, asked : Time,
                          answer : {"none", "live", "dead", "down"}, due : {0}]
      BY <2>2 DEF TypeOK, HandlerState, Idle
    <3>2. QED BY <2>2, <3>1
  <2>4. DeadSince(t)' = DeadSince(t) /\ Honoured(t)' = Honoured(t) /\ DeadSince(t) \in Nat
    BY <2>1, <2>2, DeadSinceStep DEF DeadSince, Honoured
  <2>5. handler[c].asked <= now /\ Honoured(t) => handler[c].asked <= DeadSince(t)
    BY <2>1, <2>4, <1>n, HonouredMeansAlive
  <2>6. CheckInv(c)'
    BY <2>2, <2>3, <2>4, <2>5 DEF HandlerInv, CheckInv
  <2>7. QED BY <2>3, <2>6 DEF SendingInv, OpenInv
<1>6. CASE CatalogFails(c)
  <2> DEFINE t == handler[c].token
  <2>2. /\ handler'[c] = [handler[c] EXCEPT !.answer = "down"]
        /\ handler[c].at = "checking" /\ UNCHANGED <<now, revokedAt, expiresAt>>
    BY <1>6 DEF CatalogFails, TypeOK
  <2>3. /\ handler'[c].at = "checking" /\ handler'[c].token = t
        /\ handler'[c].asked = handler[c].asked /\ handler'[c].kind = handler[c].kind
        /\ handler'[c].answer = "down"
    <3>1. handler[c] \in [at : {"checking"}, kind : {"request", "ticket", "open", "recheck"},
                          token : Token, asked : Time,
                          answer : {"none", "live", "dead", "down"}, due : {0}]
      BY <2>2 DEF TypeOK, HandlerState, Idle
    <3>2. QED BY <2>2, <3>1
  <2>4. DeadSince(t)' = DeadSince(t)
    BY <2>2 DEF DeadSince
  <2>5. CheckInv(c)'
    BY <2>2, <2>3, <2>4 DEF HandlerInv, CheckInv
  <2>6. QED BY <2>3, <2>5 DEF SendingInv, OpenInv
<1>7. CASE Grant(c)
  <2>0. PICK t \in Token : t = handler[c].token
    BY <1>7, LiveAnswerRecent DEF Grant
  <2>1. /\ now <= DeadSince(t) + Timeout
        /\ UNCHANGED <<now, revokedAt, expiresAt>> /\ handler'[c] = AfterGrant(c)
    BY <1>7, <2>0, LiveAnswerRecent DEF Grant, TypeOK
  <2>2. DeadSince(t)' = DeadSince(t) /\ DeadSince(t) \in Nat
    BY <2>1, DeadSinceStep DEF DeadSince
  <2>3. CASE handler[c].kind = "open"
    <3>1. /\ handler'[c].at = "sending" /\ handler'[c].token = t
          /\ handler'[c].due = now + SendTime
      BY <2>0, <2>1, <2>3 DEF AfterGrant, Idle
    <3>2. SendingInv(c)'
      BY <2>1, <2>2, <3>1, <1>n, GateAssumption DEF SendingInv
    <3>3. QED BY <3>1, <3>2 DEF CheckInv, OpenInv
  <2>4. CASE handler[c].kind = "recheck"
    <3>1. /\ handler'[c].at = "open" /\ handler'[c].token = t
          /\ handler'[c].due = now + Recheck
      BY <2>0, <2>1, <2>4 DEF AfterGrant, Idle
    <3>2. OpenInv(c)'
      BY <2>1, <2>2, <3>1, <1>n, GateAssumption DEF OpenInv
    <3>3. QED BY <3>1, <3>2 DEF CheckInv, SendingInv
  <2>5. CASE handler[c].kind \notin {"open", "recheck"}
    BY <1>1, <2>1, <2>5 DEF AfterGrant
  <2>6. QED BY <2>3, <2>4, <2>5
<1>8. CASE SendInitial(c)
  <2> DEFINE t == handler[c].token
  <2>1. t \in Token /\ handler[c].due \in Nat /\ handler[c].at = "sending"
    BY <1>8 DEF SendInitial, TypeOK, HandlerState, Idle
  <2>2. /\ handler'[c].at = "open" /\ handler'[c].token = t
        /\ handler'[c].due = now + Recheck /\ UNCHANGED <<now, revokedAt, expiresAt>>
    <3>1. handler[c] \in [at : {"sending", "open"}, kind : {"socket"}, token : Token,
                          asked : {0}, answer : {"none"}, due : Nat]
      BY <2>1 DEF HandlerState, Idle, TypeOK
    <3>2. QED BY <1>8, <3>1 DEF SendInitial, TypeOK
  <2>3. DeadSince(t)' = DeadSince(t) /\ DeadSince(t) \in Nat
    BY <2>1, <2>2, DeadSinceStep DEF DeadSince
  <2>4. OpenInv(c)'
    BY <2>1, <2>2, <2>3, <1>n, GateAssumption DEF OpenInv, HandlerInv, SendingInv
  <2>5. QED BY <2>2, <2>4 DEF CheckInv, SendingInv
<1>9. CASE StartRecheck(c)
  <2>0. PICK t \in Token : t = handler[c].token
    BY <1>9 DEF StartRecheck, RecheckDue, TypeOK, HandlerState, Idle
  <2>1. handler[c].due \in Nat /\ handler[c].at = "open"
    BY <1>9 DEF StartRecheck, RecheckDue, TypeOK, HandlerState, Idle
  <2>2. CASE handler'[c] = Asking("recheck", t)
    <3>1. UNCHANGED <<now, revokedAt, expiresAt>>
      BY <1>9 DEF StartRecheck
    <3>2. DeadSince(t)' = DeadSince(t) /\ DeadSince(t) \in Nat
      BY <2>1, <3>1, DeadSinceStep DEF DeadSince
    <3>3. /\ handler'[c].at = "checking" /\ handler'[c].token = t
          /\ handler'[c].asked = now /\ handler'[c].answer = "none"
      BY <2>2 DEF Asking
    <3>4. CheckInv(c)'
      BY <2>0, <2>1, <3>1, <3>2, <3>3, <1>n, GateAssumption DEF CheckInv, OpenInv, HandlerInv
    <3>5. QED BY <3>3, <3>4 DEF SendingInv, OpenInv
  <2>3. QED BY <1>1, <1>9, <2>0, <2>2 DEF StartRecheck, TypeOK
<1>10. QED
  BY <1>1, <1>2, <1>3, <1>4, <1>5, <1>6, <1>7, <1>8, <1>9, HandlerMoves
-----------------------------------------------------------------------------
(* The tickets *)

\* Issuing a ticket stores that one and otherwise only drops tickets.
LEMMA TicketIssueEntries ==
  ASSUME TypeOK, NEW k \in Ticket, NEW t \in Token, NEW s \in TicketIssue(k, t),
         NEW j \in Ticket
  PROVE  \/ s[j] = tickets[j]
         \/ s[j] = NoTicket
         \/ j = k /\ s[j] = [until |-> now + TicketLifetime(t), put |-> now, token |-> t,
                             late |-> t \in signedOut]
<1> DEFINE entry == [until |-> now + TicketLifetime(t), put |-> now, token |-> t,
                     late |-> t \in signedOut]
           new == [Pruned EXCEPT ![k] = entry]
<1>1. new[j] = IF j = k THEN entry ELSE Pruned[j]
  BY DEF Pruned
<1>2. Pruned[j] = tickets[j] \/ Pruned[j] = NoTicket
  BY DEF Pruned
<1>3. s = new \/ \E v \in DOMAIN new \ {k} : s = [new EXCEPT ![v] = NoTicket]
  BY CappedEntries DEF TicketIssue
<1>4. DOMAIN new = Ticket
  BY DEF Pruned
<1> HIDE DEF new
<1>5. s[j] = new[j] \/ s[j] = NoTicket
  BY <1>3, <1>4
<1>6. QED BY <1>1, <1>2, <1>5

\* Tickets, seen one by one: a step keeps one, drops it, redeems it, or mints it.
LEMMA TicketMoves ==
  ASSUME TypeOK, [Next]_vars, NEW k \in Ticket
  PROVE  \/ /\ tickets'[k] = tickets[k] \/ tickets'[k] = NoTicket
            /\ opened'[k] = opened[k] /\ minted \subseteq minted'
            /\ tickets'[k] # NoTicket => (tickets'[k].token \in signedOut' =>
                                            tickets'[k].token \in signedOut)
         \/ /\ tickets[k].until > 0 /\ tickets'[k] = NoTicket
            /\ opened'[k] = opened[k] + 1 /\ minted' = minted
         \/ /\ k \notin minted /\ k \in minted' /\ opened'[k] = opened[k]
            /\ tickets'[k].late = (tickets'[k].token \in signedOut)
            /\ signedOut' = signedOut
<1>1. ASSUME NEW kind, NEW t \in Token, Minting(kind, t), opened' = opened,
             signedOut' = signedOut
      PROVE  \/ /\ tickets'[k] = tickets[k] \/ tickets'[k] = NoTicket
                /\ opened'[k] = opened[k] /\ minted \subseteq minted'
                /\ signedOut' = signedOut
             \/ /\ k \notin minted /\ k \in minted' /\ opened'[k] = opened[k]
                /\ tickets'[k].late = (tickets'[k].token \in signedOut)
                /\ signedOut' = signedOut
  <2>1. CASE kind = "ticket"
    <3>1. PICK j \in Ticket \ minted : tickets' \in TicketIssue(j, t) /\ minted' = minted \cup {j}
      BY <1>1, <2>1 DEF Minting
    <3>2. \/ tickets'[k] = tickets[k]
          \/ tickets'[k] = NoTicket
          \/ /\ k = j
             /\ tickets'[k] = [until |-> now + TicketLifetime(t), put |-> now, token |-> t,
                               late |-> t \in signedOut]
      BY <3>1, TicketIssueEntries
    <3>3. QED BY <1>1, <3>1, <3>2
  <2>2. CASE kind # "ticket"
    BY <1>1, <2>2 DEF Minting
  <2>3. QED BY <2>1, <2>2
<1>2. ASSUME NEW kind \in {"request", "ticket"}, NEW t \in Token, ServeFromCache(kind, t)
      PROVE  \/ /\ tickets'[k] = tickets[k] \/ tickets'[k] = NoTicket
                /\ opened'[k] = opened[k] /\ minted \subseteq minted'
                /\ signedOut' = signedOut
             \/ /\ k \notin minted /\ k \in minted' /\ opened'[k] = opened[k]
                /\ tickets'[k].late = (tickets'[k].token \in signedOut)
                /\ signedOut' = signedOut
  <2>1. Minting(kind, t) /\ opened' = opened /\ signedOut' = signedOut
    BY <1>2 DEF ServeFromCache
  <2>2. QED BY <1>1, <2>1
<1>3. ASSUME NEW c \in Handler, Grant(c)
      PROVE  \/ /\ tickets'[k] = tickets[k] \/ tickets'[k] = NoTicket
                /\ opened'[k] = opened[k] /\ minted \subseteq minted'
                /\ signedOut' = signedOut
             \/ /\ k \notin minted /\ k \in minted' /\ opened'[k] = opened[k]
                /\ tickets'[k].late = (tickets'[k].token \in signedOut)
                /\ signedOut' = signedOut
  <2>1. handler[c].token \in Token
    BY <1>3 DEF Grant, TypeOK, HandlerState, Idle
  <2>2. Minting(handler[c].kind, handler[c].token) /\ opened' = opened /\ signedOut' = signedOut
    BY <1>3 DEF Grant
  <2>3. QED BY <1>1, <2>1, <2>2
<1>4. ASSUME NEW j \in Ticket, NEW c \in Handler, OpenSocket(c, j)
      PROVE  \/ /\ tickets'[k] = tickets[k] /\ opened'[k] = opened[k]
                /\ minted' = minted /\ signedOut' = signedOut
             \/ /\ tickets[k].until > 0 /\ tickets'[k] = NoTicket
                /\ opened'[k] = opened[k] + 1 /\ minted' = minted
  <2>1. CASE k = j
    <3>1. tickets[k].until > 0
      <4>1. now \in Nat /\ tickets[k].until \in Nat
        BY Blanks DEF TypeOK, TicketEntry, NoTicket
      <4>2. QED BY <1>4, <2>1, <4>1 DEF OpenSocket, TicketLive
    <3>2. QED BY <1>4, <2>1, <3>1 DEF OpenSocket, TypeOK
  <2>2. CASE k # j
    BY <1>4, <2>2 DEF OpenSocket, TypeOK
  <2>3. QED BY <2>1, <2>2
<1>5. ASSUME NEW t \in Token, Logout(t)
      PROVE  /\ tickets'[k] = tickets[k] \/ tickets'[k] = NoTicket
             /\ opened'[k] = opened[k] /\ minted' = minted
             /\ tickets'[k] # NoTicket => (tickets'[k].token \in signedOut' =>
                                           tickets'[k].token \in signedOut)
  BY <1>5 DEF Logout, Forget, TicketPurge
<1>6. ASSUME NEW t \in Token, ProxyRefused(t)
      PROVE  /\ tickets'[k] = tickets[k] \/ tickets'[k] = NoTicket
             /\ opened' = opened /\ minted' = minted /\ signedOut' = signedOut
  BY <1>6 DEF ProxyRefused, Forget, TicketPurge
<1>7. ASSUME NEW j \in Ticket, RedeemExpired(j)
      PROVE  /\ tickets'[k] = tickets[k] \/ tickets'[k] = NoTicket
             /\ opened' = opened /\ minted' = minted /\ signedOut' = signedOut
  BY <1>7 DEF RedeemExpired, TypeOK
<1>8. CASE UNCHANGED <<tickets, minted, opened, signedOut>>
  BY <1>8
<1>9. QED
  <2>1. CASE \E kind \in {"request", "ticket"}, t \in Token : ServeFromCache(kind, t)
    BY <1>2, <2>1
  <2>2. CASE \E c \in Handler : Grant(c)
    BY <1>3, <2>2
  <2>3. CASE \E j \in Ticket : RedeemExpired(j) \/ \E c \in Handler : OpenSocket(c, j)
    BY <1>4, <1>7, <2>3
  <2>4. CASE \E t \in Token : Logout(t) \/ ProxyRefused(t)
    BY <1>5, <1>6, <2>4
  <2>5. QED
    BY <1>8, <2>1, <2>2, <2>3, <2>4 DEF Next, vars, RefuseFromRecord, AskCatalog,
       CatalogAnswers, CatalogFails, RefuseInvalid, RefuseUnavailable, SendInitial,
       SocketLost, StartRecheck, Revoke, Tick

\* Tickets keep their bounds: minted by a grant, redeemed at most once.
LEMMA TicketStep ==
  ASSUME TypeOK, TypeOK', TicketInv, TicketOpensOneSocket, LogoutVoidsTickets, [Next]_vars
  PROVE  TicketInv' /\ TicketOpensOneSocket' /\ LogoutVoidsTickets'
<1>1. ASSUME NEW k \in Ticket
      PROVE  /\ tickets'[k].until > 0 => k \in minted' /\ opened'[k] = 0
             /\ k \notin minted' => opened'[k] = 0
             /\ opened'[k] <= 1
             /\ tickets'[k].token \in signedOut' => tickets'[k].late
  <2>1. /\ tickets[k].until > 0 => k \in minted /\ opened[k] = 0
        /\ k \notin minted => opened[k] = 0
        /\ opened[k] <= 1 /\ opened[k] \in Nat
        /\ tickets[k].token \in signedOut => tickets[k].late
    BY DEF TicketInv, TicketOpensOneSocket, LogoutVoidsTickets, TypeOK
  <2>2. NoTicket.until = 0 /\ NoTicket.token \notin signedOut'
    BY GateAssumption DEF NoTicket, TypeOK
  <2>3. CASE /\ tickets'[k] = tickets[k] \/ tickets'[k] = NoTicket
             /\ opened'[k] = opened[k] /\ minted \subseteq minted'
             /\ tickets'[k] # NoTicket => (tickets'[k].token \in signedOut' =>
                                           tickets'[k].token \in signedOut)
    BY <2>1, <2>2, <2>3
  <2>4. CASE /\ tickets[k].until > 0 /\ tickets'[k] = NoTicket
             /\ opened'[k] = opened[k] + 1 /\ minted' = minted
    BY <2>1, <2>2, <2>4
  <2>5. CASE /\ k \notin minted /\ k \in minted' /\ opened'[k] = opened[k]
             /\ tickets'[k].late = (tickets'[k].token \in signedOut)
             /\ signedOut' = signedOut
    BY <2>1, <2>5
  <2>6. QED BY <2>3, <2>4, <2>5, TicketMoves
<1>2. QED BY <1>1 DEF TicketInv, TicketOpensOneSocket, LogoutVoidsTickets
-----------------------------------------------------------------------------
(* The answers *)

\* What an answer of the gate promises.
AnswersInv ==
  /\ RevocationBites /\ NeverGrantedPastExpiry
  /\ LiveSessionNeverInvalid /\ SocketsSeeRevocation

\* An answer given for t in a step that moves neither the clock nor the authority.
LEMMA AnswerHolds ==
  ASSUME NEW kind, NEW t, NEW verdict, NEW via, NEW asked,
         Answer(kind, t, verdict, via, asked), UNCHANGED <<now, revokedAt, expiresAt>>,
         verdict = "granted" => /\ now <= DeadSince(t) + Timeout + CacheTTL
                                /\ now < expiresAt[t]
                                /\ kind \in {"open", "recheck"} => DeadSince(t) >= asked,
         verdict = "invalid" => ~Honoured(t)
  PROVE  AnswersInv'
<1>1. /\ reply'.kind = kind /\ reply'.token = t /\ reply'.verdict = verdict
      /\ reply'.asked = asked
  BY DEF Answer
<1>2. QED
  BY <1>1 DEF AnswersInv, RevocationBites, NeverGrantedPastExpiry, LiveSessionNeverInvalid,
     SocketsSeeRevocation, Granted, DeadSince, Honoured

\* An answer given to a caller is justified by catalog-api's record of the bearer.
LEMMA ReplyStep ==
  ASSUME TypeOK, TypeOK', CacheInv, InvalidInv, HandlerInv, AnswersInv, [Next]_vars
  PROVE  AnswersInv'
<1>1. CASE reply' = Silent
  BY <1>1 DEF Silent, AnswersInv, RevocationBites, NeverGrantedPastExpiry,
     LiveSessionNeverInvalid, SocketsSeeRevocation, Granted
<1>2. CASE UNCHANGED vars
  BY <1>2 DEF vars, AnswersInv, RevocationBites, NeverGrantedPastExpiry,
     LiveSessionNeverInvalid, SocketsSeeRevocation, Granted, DeadSince, Honoured
<1>3. ASSUME NEW kind \in {"request", "ticket"}, NEW t \in Token, ServeFromCache(kind, t)
      PROVE  AnswersInv'
  <2>1. /\ now < cache[t].until /\ cache[t].until <= expiresAt[t]
        /\ cache[t].until <= DeadSince(t) + Timeout + CacheTTL
    BY <1>3 DEF ServeFromCache, CacheHit, CacheInv
  <2>2. /\ now \in Nat /\ cache[t].until \in Nat /\ expiresAt[t] \in Nat /\ DeadSince(t) \in Nat
    BY Blanks DEF TypeOK, Entry, DeadSince, Time, Never
  <2>3. now <= DeadSince(t) + Timeout + CacheTTL /\ now < expiresAt[t]
    BY <2>1, <2>2, GateAssumption
  <2>4. /\ Answer(kind, t, "granted", "cache", now)
        /\ UNCHANGED <<now, revokedAt, expiresAt>>
    BY <1>3 DEF ServeFromCache
  <2>5. QED BY <2>3, <2>4, AnswerHolds
<1>i. ASSUME NEW t \in Token, InvalidHolds(t) PROVE ~Honoured(t)
  <2>1. now \in Nat /\ invalid[t].until \in Nat
    BY Blanks DEF TypeOK, Entry
  <2>2. QED BY <2>1, <1>i DEF InvalidHolds, InvalidInv
<1>4. ASSUME NEW kind \in {"request", "ticket"}, NEW t \in Token, RefuseFromRecord(kind, t)
      PROVE  AnswersInv'
  <2>1. /\ Answer(kind, t, "invalid", "record", now) /\ ~Honoured(t)
        /\ UNCHANGED <<now, revokedAt, expiresAt>>
    BY <1>4, <1>i DEF RefuseFromRecord
  <2>2. QED BY <2>1, AnswerHolds
<1>5. ASSUME NEW c \in Handler, NEW k \in Ticket, OpenSocket(c, k), reply' # Silent
      PROVE  AnswersInv'
  <2>1. PICK t \in Token : t = tickets[k].token
    BY <1>5, Blanks DEF OpenSocket, TicketLive, TypeOK, TicketEntry, NoTicket
  <2>2. /\ Answer("open", t, "invalid", "record", now) /\ ~Honoured(t)
        /\ UNCHANGED <<now, revokedAt, expiresAt>>
    BY <1>5, <2>1, <1>i DEF OpenSocket
  <2>3. QED BY <2>2, AnswerHolds
<1>6. ASSUME NEW c \in Handler, StartRecheck(c), reply' # Silent
      PROVE  AnswersInv'
  <2>1. PICK t \in Token : t = handler[c].token
    BY <1>6 DEF StartRecheck, RecheckDue, TypeOK, HandlerState, Idle
  <2>2. /\ Answer("recheck", t, "invalid", "record", now) /\ ~Honoured(t)
        /\ UNCHANGED <<now, revokedAt, expiresAt>>
    BY <1>6, <2>1, <1>i DEF StartRecheck
  <2>3. QED BY <2>2, AnswerHolds
<1>7. ASSUME NEW c \in Handler, Grant(c) PROVE AnswersInv'
  <2> DEFINE t == handler[c].token
  <2>1. /\ handler[c].asked <= DeadSince(t) /\ now < expiresAt[t]
        /\ now <= DeadSince(t) + Timeout /\ t \in Token
    BY <1>7, LiveAnswerRecent DEF Grant
  <2>2. now \in Nat /\ DeadSince(t) \in Nat /\ handler[c].asked \in Nat
    BY <1>7, <2>1, Blanks DEF Grant, TypeOK, HandlerState, Idle, DeadSince, Time, Never
  <2>3. now <= DeadSince(t) + Timeout + CacheTTL /\ DeadSince(t) >= handler[c].asked
    BY <2>1, <2>2, GateAssumption
  <2>4. /\ Answer(handler[c].kind, t, "granted", "catalog", handler[c].asked)
        /\ UNCHANGED <<now, revokedAt, expiresAt>>
    BY <1>7 DEF Grant
  <2> HIDE DEF t
  <2>5. QED BY <2>1, <2>3, <2>4, AnswerHolds
<1>8. ASSUME NEW c \in Handler, RefuseInvalid(c) PROVE AnswersInv'
  <2>1. ~Honoured(handler[c].token)
    BY <1>8, DeadAnswerTrue DEF RefuseInvalid
  <2>2. /\ Answer(handler[c].kind, handler[c].token, "invalid", "catalog", handler[c].asked)
        /\ UNCHANGED <<now, revokedAt, expiresAt>>
    BY <1>8 DEF RefuseInvalid
  <2>3. QED BY <2>1, <2>2, AnswerHolds
<1>9. ASSUME NEW c \in Handler, RefuseUnavailable(c) PROVE AnswersInv'
  <2>1. /\ Answer(handler[c].kind, handler[c].token, "unavailable", "catalog",
                  handler[c].asked)
        /\ UNCHANGED <<now, revokedAt, expiresAt>>
    BY <1>9 DEF RefuseUnavailable
  <2>2. QED BY <2>1, AnswerHolds
<1>10. QED
  BY <1>1, <1>2, <1>3, <1>4, <1>5, <1>6, <1>7, <1>8, <1>9 DEF Next, AskCatalog,
     RedeemExpired, CatalogAnswers, CatalogFails, SendInitial, SocketLost, Revoke, Logout,
     ProxyRefused, Forget, Tick
-----------------------------------------------------------------------------
\* The inductive invariant holds initially.
LEMMA InitInv == Init => IInv
<1> SUFFICES ASSUME Init PROVE IInv
  OBVIOUS
<1>1. TypeOK
  BY TypeInit
<1>2. AuthorityInv /\ CacheInv /\ InvalidInv
  <2>1. \A t \in Token : DeadSince(t) \in Nat /\ expiresAt[t] \in Nat /\ now = 0
    BY <1>1, Blanks DEF Init, TypeOK, DeadSince, Time, Never
  <2>2. \A t \in Token : cache[t].until = 0 /\ invalid[t].until = 0 /\ revokedAt[t] = Never
    BY DEF Init, Absent
  <2>3. QED BY <2>1, <2>2, GateAssumption DEF AuthorityInv, CacheInv, InvalidInv
<1>3. HandlerInv
  BY DEF Init, HandlerInv, CheckInv, SendingInv, OpenInv, Idle
<1>4. TicketInv /\ TicketOpensOneSocket /\ LogoutVoidsTickets
  BY DEF Init, TicketInv, TicketOpensOneSocket, LogoutVoidsTickets, NoTicket
<1>5. AnswersInv
  BY DEF Init, Silent, AnswersInv, RevocationBites, NeverGrantedPastExpiry,
     LiveSessionNeverInvalid, SocketsSeeRevocation, Granted
<1>6. QED BY <1>1, <1>2, <1>3, <1>4, <1>5 DEF IInv, AnswersInv

\* Every step keeps the inductive invariant, from the lemmas above.
LEMMA StepInv == IInv /\ [Next]_vars => IInv'
<1> SUFFICES ASSUME IInv, [Next]_vars PROVE IInv'
  OBVIOUS
<1>1. TypeOK /\ TypeOK'
  BY TypeStep DEF IInv
<1>2. AuthorityInv'
  BY AuthorityInvStep DEF IInv
<1>3. CacheInv'
  BY <1>1, CacheStep DEF IInv
<1>4. InvalidInv'
  BY <1>1, InvalidStep DEF IInv
<1>5. HandlerInv'
  BY <1>1, HandlerStep DEF IInv
<1>6. TicketInv' /\ TicketOpensOneSocket' /\ LogoutVoidsTickets'
  BY <1>1, TicketStep DEF IInv
<1>7. AnswersInv'
  BY <1>1, ReplyStep DEF IInv, AnswersInv
<1>8. QED
  BY <1>1, <1>2, <1>3, <1>4, <1>5, <1>6, <1>7 DEF IInv, AnswersInv

\* The strengthening is an invariant of the gate.
THEOREM Inductive == Spec => []IInv
BY InitInv, StepInv, PTL DEF Spec

\* No bearer is granted more than one check and one cache lifetime after it died.
THEOREM RevocationBitesAlways == Spec => []RevocationBites
BY Inductive, PTL DEF IInv

\* No session is granted past its expiry.
THEOREM NeverGrantedPastExpiryAlways == Spec => []NeverGrantedPastExpiry
BY Inductive, PTL DEF IInv

\* No live session is ever called invalid.
THEOREM LiveSessionNeverInvalidAlways == Spec => []LiveSessionNeverInvalid
BY Inductive, PTL DEF IInv

\* Sockets are admitted and kept only on an answer newer than the question.
THEOREM SocketsSeeRevocationAlways == Spec => []SocketsSeeRevocation
BY Inductive, PTL DEF IInv

\* A ticket is single use.
THEOREM TicketOpensOneSocketAlways == Spec => []TicketOpensOneSocket
BY Inductive, PTL DEF IInv

\* A logout voids the tickets issued before it.
THEOREM LogoutVoidsTicketsAlways == Spec => []LogoutVoidsTickets
BY Inductive, PTL DEF IInv

\* The bounds on the suspended callers add up to the lease of a live feed.
LEMMA FeedsEnd == IInv => RevokedSocketCloses
<1> SUFFICES ASSUME IInv, NEW c \in Handler, Feeding(c)
             PROVE  now <= DeadSince(handler[c].token) + SocketLease
  BY DEF RevokedSocketCloses
<1>1. /\ handler[c].token \in Token /\ handler[c].due \in Nat /\ handler[c].asked \in Nat
      /\ now \in Nat
  BY Blanks DEF IInv, TypeOK, Feeding, HandlerState, Idle, Time
<1>2. DeadSince(handler[c].token) \in Nat
  BY <1>1, Blanks DEF IInv, TypeOK, DeadSince, Time, Never
<1>3. CheckInv(c) /\ SendingInv(c) /\ OpenInv(c)
  BY DEF IInv, HandlerInv
<1>4. QED
  BY <1>1, <1>2, <1>3, GateAssumption DEF Feeding, SocketLease, CheckInv, SendingInv, OpenInv

\* A revoked or expired session loses its live feed within the socket lease.
THEOREM RevokedSocketClosesAlways == Spec => []RevokedSocketCloses
BY Inductive, FeedsEnd, PTL
-----------------------------------------------------------------------------
(* The gate implements the lease *)

\* The initial states of the gate are initial states of the abstract lease.
LEMMA LeaseInit == Init => Lease!Init
<1> SUFFICES ASSUME Init PROVE Lease!Init
  OBVIOUS
<1>1. expiresAt \in [Token -> Nat \ {0}]
  BY Blanks DEF Init, Never
<1>2. \A t \in Token : DeadSince(t) = expiresAt[t]
  BY Blanks DEF Init, DeadSince, Never
<1>3. expiresAt = [t \in Token |-> DeadSince(t)]
  BY <1>1, <1>2
<1>4. now = 0 /\ reply.verdict = "none"
  BY DEF Init, Silent
<1>5. QED BY <1>1, <1>3, <1>4 DEF Lease!Init

\* A step that moves neither clock nor authority and grants t, refuses t, or does neither.
LEMMA LeaseAnswer ==
  ASSUME TypeOK, TypeOK', IInv, IInv', UNCHANGED <<now, revokedAt, expiresAt>>
  PROVE  [Lease!Next]_(Lease!vars)
<1>1. [t \in Token |-> DeadSince(t)]' = [t \in Token |-> DeadSince(t)]
  BY DEF DeadSince
<1>2. CASE reply'.verdict = "granted" /\ reply'.token \in Token
  <2>1. PICK t \in Token : t = reply'.token
    BY <1>2
  <2>2. now <= DeadSince(t) + (Timeout + CacheTTL) /\ now < expiresAt[t]
    <3>1. now' <= DeadSince(t)' + Timeout + CacheTTL /\ now' < expiresAt'[t]
      BY <1>2, <2>1 DEF IInv, RevocationBites, NeverGrantedPastExpiry, Granted
    <3>2. DeadSince(t)' = DeadSince(t) /\ DeadSince(t) \in Nat /\ now \in Nat
      BY Blanks DEF DeadSince, TypeOK, Time, Never
    <3>3. QED BY <3>1, <3>2, GateAssumption
  <2>3. Lease!Grant(t)
    BY <1>1, <1>2, <2>1, <2>2 DEF Lease!Grant
  <2>4. QED BY <2>3 DEF Lease!Next
<1>3. CASE reply'.verdict = "invalid" /\ reply'.token \in Token
  <2>1. PICK t \in Token : t = reply'.token
    BY <1>3
  <2>2. now >= DeadSince(t)
    <3>1. ~Honoured(t)
      BY <1>3, <2>1 DEF IInv, LiveSessionNeverInvalid, Honoured
    <3>2. DeadSince(t) \in Nat /\ now \in Nat
      BY Blanks DEF DeadSince, TypeOK, Time, Never
    <3>3. QED BY <3>1, <3>2, HonouredMeansAlive DEF IInv
  <2>3. Lease!Refuse(t)
    BY <1>1, <1>3, <2>1, <2>2 DEF Lease!Refuse
  <2>4. QED BY <2>3 DEF Lease!Next
<1>4. CASE \/ reply'.verdict \notin {"granted", "invalid"}
           \/ reply'.token = NoToken
  <2>1. Lease!Quiet
    BY <1>1, <1>4 DEF Lease!Quiet
  <2>2. QED BY <2>1 DEF Lease!Next
<1>5. QED BY <1>2, <1>3, <1>4 DEF TypeOK, Reply

\* Every step of the gate is a step of the abstract lease or leaves it unchanged.
LEMMA LeaseStep == IInv /\ IInv' /\ [Next]_vars => [Lease!Next]_(Lease!vars)
<1> SUFFICES ASSUME IInv, IInv', [Next]_vars PROVE [Lease!Next]_(Lease!vars)
  OBVIOUS
<1>1. TypeOK /\ TypeOK'
  BY DEF IInv
<1>2. CASE UNCHANGED <<now, revokedAt, expiresAt>>
  BY <1>1, <1>2, LeaseAnswer
<1>3. CASE Tick
  <2>1. /\ now' = now + 1 /\ expiresAt' = expiresAt /\ reply'.verdict = "none"
        /\ [t \in Token |-> DeadSince(t)]' = [t \in Token |-> DeadSince(t)]
    BY <1>3 DEF Tick, Silent, DeadSince
  <2>2. Lease!Quiet
    BY <2>1 DEF Lease!Quiet
  <2>3. QED BY <2>2 DEF Lease!Next
<1>4. CASE \E t \in Token : Revoke(t)
  <2>1. PICK t \in Token : Revoke(t)
    BY <1>4
  <2>2. now' = now /\ expiresAt' = expiresAt /\ reply'.verdict = "none"
    BY <2>1 DEF Revoke, Silent
  <2>3. DeadSince(t) = expiresAt[t]
    BY <1>1, <2>1, Blanks DEF Revoke, DeadSince, TypeOK, Never
  <2>4. ASSUME NEW u \in Token
        PROVE  DeadSince(u)' = IF u = t /\ now < expiresAt[t] THEN now ELSE DeadSince(u)
    BY <1>1, <2>1, <2>3 DEF Revoke, DeadSince, TypeOK
  <2>5. [u \in Token |-> DeadSince(u)]' =
          [[u \in Token |-> DeadSince(u)] EXCEPT ![t] = IF now < expiresAt[t] THEN now ELSE @]
    BY <2>4
  <2>6. Lease!Die(t)
    BY <2>2, <2>3, <2>5 DEF Lease!Die
  <2>7. QED BY <2>6 DEF Lease!Next
<1>5. QED BY <1>2, <1>3, <1>4, AuthorityStep

\* The gate, with every store, caller and pending check, implements the session lease.
THEOREM GateImplementsLease == Spec => ImplementsLease
<1>1. Init => Lease!Init
  BY LeaseInit
<1>2. IInv /\ IInv' /\ [Next]_vars => [Lease!Next]_(Lease!vars)
  BY LeaseStep
<1>3. QED
  BY <1>1, <1>2, Inductive, PTL DEF Spec, ImplementsLease, Lease!Spec
-----------------------------------------------------------------------------
(* The limits of the stores: a check that was waiting while a store filled never leaves it *)
(* over its limit.                                                                       *)

Bounded(store, max) == IsFiniteSet(Held(store)) /\ Cardinality(Held(store)) <= max

StoresInv ==
  Bounded(cache, MaxCached) /\ Bounded(invalid, MaxInvalid) /\ Bounded(tickets, MaxTickets)

\* A store that only lost entries keeps its limit.
LEMMA BoundedShrinks ==
  ASSUME NEW store, NEW s, NEW max \in Nat, Bounded(store, max), Held(s) \subseteq Held(store)
  PROVE  Bounded(s, max)
<1>1. IsFiniteSet(Held(s)) /\ Cardinality(Held(s)) <= Cardinality(Held(store))
  BY FS_Subset DEF Bounded
<1>2. Cardinality(Held(s)) \in Nat /\ Cardinality(Held(store)) \in Nat
  BY <1>1, FS_CardinalityType DEF Bounded
<1>3. QED BY <1>1, <1>2 DEF Bounded

\* Storing one entry and evicting the oldest other one keeps a store at its limit.
LEMMA CappedBounds ==
  ASSUME NEW A, NEW store, DOMAIN store = A, NEW k \in A, NEW new, DOMAIN new = A,
         \A j \in A \ {k} : new[j] = store[j], NEW max \in Nat, Bounded(store, max),
         NEW absent, absent.until = 0, NEW s \in Capped(new, k, max, absent)
  PROVE  Bounded(s, max)
<1>1. Held(new) \subseteq Held(store) \cup {k}
  BY DEF Held
<1>2. /\ IsFiniteSet(Held(store) \cup {k})
      /\ Cardinality(Held(store) \cup {k}) <= max + 1
  <2>1. Cardinality(Held(store)) \in Nat
    BY FS_CardinalityType DEF Bounded
  <2>2. IsFiniteSet(Held(store)) /\ Cardinality(Held(store)) <= max
    BY DEF Bounded
  <2>3. /\ IsFiniteSet(Held(store) \cup {k})
        /\ Cardinality(Held(store) \cup {k}) =
             IF k \in Held(store) THEN Cardinality(Held(store)) ELSE Cardinality(Held(store)) + 1
    BY <2>2, FS_AddElement
  <2>4. QED BY <2>1, <2>2, <2>3
<1>3. /\ IsFiniteSet(Held(new)) /\ Cardinality(Held(new)) \in Nat
      /\ Cardinality(Held(new)) <= max + 1
  <2>1. /\ IsFiniteSet(Held(new))
        /\ Cardinality(Held(new)) <= Cardinality(Held(store) \cup {k})
    BY <1>1, <1>2, FS_Subset
  <2>2. Cardinality(Held(new)) \in Nat /\ Cardinality(Held(store) \cup {k}) \in Nat
    BY <1>2, <2>1, FS_CardinalityType
  <2>3. QED BY <1>2, <2>1, <2>2
<1>4. CASE Cardinality(Held(new)) <= max
  BY <1>3, <1>4 DEF Capped, Bounded
<1>5. CASE ~(Cardinality(Held(new)) <= max)
  <2>1. PICK v \in Held(new) \ {k} : s = [new EXCEPT ![v] = absent]
    BY <1>5 DEF Capped, Oldest
  <2>2. Held(s) = Held(new) \ {v}
    BY <2>1 DEF Held
  <2>3. Cardinality(Held(new) \ {v}) = Cardinality(Held(new)) - 1 /\ IsFiniteSet(Held(new) \ {v})
    BY <1>3, <2>1, FS_RemoveElement
  <2>4. QED BY <1>3, <2>2, <2>3 DEF Bounded
<1>6. QED BY <1>4, <1>5

\* A store that lost entries one by one, or was left alone.
LEMMA BoundedLoses ==
  ASSUME NEW store, NEW s, NEW max \in Nat, Bounded(store, max), DOMAIN s = DOMAIN store,
         NEW absent, absent.until = 0,
         \A j \in DOMAIN store : s[j] = store[j] \/ s[j] = absent
  PROVE  Bounded(s, max)
<1>1. Held(s) \subseteq Held(store)
  BY DEF Held
<1>2. QED BY <1>1, BoundedShrinks

\* SessionCache.put keeps the cache at its limit.
LEMMA CachePutBounded ==
  ASSUME TypeOK, Bounded(cache, MaxCached), NEW t \in Token, NEW s \in CachePut(t)
  PROVE  Bounded(s, MaxCached)
<1>1. MaxCached \in Nat /\ DOMAIN cache = Token /\ Absent.until = 0
  BY GateAssumption DEF TypeOK, Absent
<1>2. CASE Lifetime(CacheTTL, t) <= 0
  <2>1. s = [cache EXCEPT ![t] = Absent]
    BY <1>2 DEF CachePut
  <2>2. QED BY <1>1, <2>1, BoundedLoses
<1>3. CASE ~(Lifetime(CacheTTL, t) <= 0)
  <2> DEFINE new == [cache EXCEPT ![t] = [until |-> now + Lifetime(CacheTTL, t), put |-> now]]
  <2>1. s \in Capped(new, t, MaxCached, Absent)
    BY <1>3 DEF CachePut
  <2>2. DOMAIN new = Token /\ \A j \in Token \ {t} : new[j] = cache[j]
    BY <1>1
  <2> HIDE DEF new
  <2>3. QED BY <1>1, <2>1, <2>2, CappedBounds
<1>4. QED BY <1>2, <1>3

\* InvalidAnswers.add keeps the record at its limit.
LEMMA InvalidAddBounded ==
  ASSUME TypeOK, Bounded(invalid, MaxInvalid), NEW t \in Token, NEW s \in InvalidAdd(t)
  PROVE  Bounded(s, MaxInvalid)
<1> DEFINE new == [invalid EXCEPT ![t] = [until |-> now + InvalidTTL, put |-> now]]
<1>1. MaxInvalid \in Nat /\ DOMAIN invalid = Token /\ Absent.until = 0
  BY GateAssumption DEF TypeOK, Absent
<1>2. s \in Capped(new, t, MaxInvalid, Absent)
  BY DEF InvalidAdd
<1>3. DOMAIN new = Token /\ \A j \in Token \ {t} : new[j] = invalid[j]
  BY <1>1
<1> HIDE DEF new
<1>4. QED BY <1>1, <1>2, <1>3, CappedBounds

\* TicketStore.issue, which first drops what has expired, keeps the tickets at their limit.
LEMMA TicketIssueBounded ==
  ASSUME TypeOK, Bounded(tickets, MaxTickets), NEW k \in Ticket, NEW t \in Token,
         NEW s \in TicketIssue(k, t)
  PROVE  Bounded(s, MaxTickets)
<1> DEFINE new == [Pruned EXCEPT ![k] = [until |-> now + TicketLifetime(t), put |-> now,
                                         token |-> t, late |-> t \in signedOut]]
<1>1. MaxTickets \in Nat /\ DOMAIN tickets = Ticket /\ DOMAIN Pruned = Ticket
      /\ NoTicket.until = 0
  BY GateAssumption DEF TypeOK, NoTicket, Pruned
<1>2. Bounded(Pruned, MaxTickets)
  <2>1. \A j \in Ticket : Pruned[j] = tickets[j] \/ Pruned[j] = NoTicket
    BY DEF Pruned
  <2>2. QED BY <1>1, <2>1, BoundedLoses
<1>3. s \in Capped(new, k, MaxTickets, NoTicket)
  BY DEF TicketIssue
<1>4. DOMAIN new = Ticket /\ \A j \in Ticket \ {k} : new[j] = Pruned[j]
  BY <1>1
<1> HIDE DEF new
<1>5. QED BY <1>1, <1>2, <1>3, <1>4, CappedBounds

\* Whatever a caller does with a granted session keeps the tickets at their limit.
LEMMA MintingBounded ==
  ASSUME TypeOK, Bounded(tickets, MaxTickets), NEW kind, NEW t \in Token, Minting(kind, t)
  PROVE  Bounded(tickets', MaxTickets)
BY TicketIssueBounded DEF Minting
-----------------------------------------------------------------------------
\* Every step of the gate keeps its stores at their limits.
LEMMA StoresStep == TypeOK /\ TypeOK' /\ StoresInv /\ [Next]_vars => StoresInv'
<1> SUFFICES ASSUME TypeOK, TypeOK', StoresInv, [Next]_vars PROVE StoresInv'
  OBVIOUS
<1>0. /\ {MaxCached, MaxInvalid, MaxTickets} \subseteq Nat
      /\ Absent.until = 0 /\ NoTicket.until = 0
      /\ DOMAIN cache = Token /\ DOMAIN cache' = Token
      /\ DOMAIN invalid = Token /\ DOMAIN invalid' = Token
      /\ DOMAIN tickets = Ticket /\ DOMAIN tickets' = Ticket
  BY GateAssumption DEF TypeOK, Absent, NoTicket
<1>1. Bounded(cache', MaxCached)
  <2>1. CASE \E c \in Handler : Grant(c)
    <3>1. PICK c \in Handler : Grant(c)
      BY <2>1
    <3>2. handler[c].token \in Token /\ cache' \in CachePut(handler[c].token)
      BY <3>1 DEF Grant, TypeOK, HandlerState, Idle
    <3>3. QED BY <3>2, CachePutBounded DEF StoresInv
  <2>2. CASE ~\E c \in Handler : Grant(c)
    <3>1. \A u \in Token : cache'[u] = cache[u] \/ cache'[u] = Absent
      BY <2>2 DEF Next, vars, TypeOK, ServeFromCache, RefuseFromRecord, CacheGet, AskCatalog,
           RedeemExpired, OpenSocket, CatalogAnswers, CatalogFails, RefuseInvalid, CacheEvict,
           RefuseUnavailable, SendInitial, SocketLost, StartRecheck, Revoke, Logout,
           ProxyRefused, Forget, Tick
    <3>2. QED BY <1>0, <3>1, BoundedLoses DEF StoresInv
  <2>3. QED BY <2>1, <2>2
<1>2. Bounded(invalid', MaxInvalid)
  <2>1. CASE \E c \in Handler : RefuseInvalid(c)
    <3>1. PICK c \in Handler : RefuseInvalid(c)
      BY <2>1
    <3>2. handler[c].token \in Token /\ invalid' \in InvalidAdd(handler[c].token)
      BY <3>1 DEF RefuseInvalid, TypeOK, HandlerState, Idle
    <3>3. QED BY <3>2, InvalidAddBounded DEF StoresInv
  <2>2. CASE ~\E c \in Handler : RefuseInvalid(c)
    <3>1. \A u \in Token : invalid'[u] = invalid[u] \/ invalid'[u] = Absent
      BY <2>2 DEF Next, vars, TypeOK, ServeFromCache, RefuseFromRecord, AskCatalog, InvalidGet,
           RedeemExpired, OpenSocket, CatalogAnswers, CatalogFails, Grant, RefuseUnavailable,
           SendInitial, SocketLost, StartRecheck, Revoke, Logout, ProxyRefused, Forget, Tick
    <3>2. QED BY <1>0, <3>1, BoundedLoses DEF StoresInv
  <2>3. QED BY <2>1, <2>2
<1>3. Bounded(tickets', MaxTickets)
  <2>1. CASE \E kind \in {"request", "ticket"}, t \in Token : ServeFromCache(kind, t)
    <3>1. PICK kind \in {"request", "ticket"}, t \in Token : ServeFromCache(kind, t)
      BY <2>1
    <3>2. Minting(kind, t)
      BY <3>1 DEF ServeFromCache
    <3>3. QED BY <3>2, MintingBounded DEF StoresInv
  <2>2. CASE \E c \in Handler : Grant(c)
    <3>1. PICK c \in Handler : Grant(c)
      BY <2>2
    <3>2. handler[c].token \in Token /\ Minting(handler[c].kind, handler[c].token)
      BY <3>1 DEF Grant, TypeOK, HandlerState, Idle
    <3>3. QED BY <3>2, MintingBounded DEF StoresInv
  <2>3. CASE ~(\E kind \in {"request", "ticket"}, t \in Token : ServeFromCache(kind, t))
             /\ ~\E c \in Handler : Grant(c)
    <3>1. \A k \in Ticket : tickets'[k] = tickets[k] \/ tickets'[k] = NoTicket
      BY <2>3 DEF Next, vars, TypeOK, RefuseFromRecord, AskCatalog, RedeemExpired, OpenSocket,
           CatalogAnswers, CatalogFails, RefuseInvalid, RefuseUnavailable, SendInitial,
           SocketLost, StartRecheck, Revoke, Logout, ProxyRefused, Forget, TicketPurge, Tick
    <3>2. QED BY <1>0, <3>1, BoundedLoses DEF StoresInv
  <2>4. QED BY <2>1, <2>2, <2>3
<1>4. QED BY <1>1, <1>2, <1>3 DEF StoresInv

\* At first nothing is stored.
LEMMA StoresInit == Init => StoresInv
<1> SUFFICES ASSUME Init PROVE StoresInv
  OBVIOUS
<1>1. Held(cache) = {} /\ Held(invalid) = {} /\ Held(tickets) = {}
  BY DEF Init, Held, Absent, NoTicket
<1>2. QED BY <1>1, FS_EmptySet, GateAssumption DEF StoresInv, Bounded

\* The cache, the record of refusals and the tickets never exceed their limits, whichever
\* checks finish together (SessionCache.put, InvalidAnswers.add, TicketStore.issue).
THEOREM StoresBoundedAlways == Spec => []StoresBounded
<1>1. StoresInv => StoresBounded
  BY DEF StoresInv, Bounded, StoresBounded
<1>2. QED
  BY <1>1, StoresInit, StoresStep, TypeCorrect, PTL DEF Spec
=============================================================================
