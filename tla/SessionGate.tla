---------------------------- MODULE SessionGate ----------------------------
(***************************************************************************)
(* The console's session gate (dashboard/session_auth.py) with the two     *)
(* kinds of caller that wait for it: gated HTTP handlers and WebSocket     *)
(* handlers (dashboard/dashboard.py).  catalog-api is the authority: it    *)
(* alone knows whether a bearer is honoured.  The gate keeps three bounded *)
(* stores (positive cache, recent "invalid" answers, WebSocket tickets)    *)
(* and runs on one event loop, so a step here is what runs between two     *)
(* awaits.  Every await on catalog-api is a gap in which the clock moves,  *)
(* the bearer is revoked, or another handler changes the stores.           *)
(***************************************************************************)
EXTENDS Integers, FiniteSets

CONSTANTS
  Token,       \* bearers
  Handler,     \* coroutines that may be suspended in the gate at once
  Ticket,      \* ticket values that may ever be minted
  NoToken,     \* no bearer
  CacheTTL,    \* SESSION_CACHE_SECONDS, at most SESSION_CACHE_MAX_SECONDS
  TicketTTL,   \* WS_TICKET_SECONDS
  InvalidTTL,  \* INVALID_ANSWER_SECONDS
  Timeout,     \* longest a check of catalog-api takes (_VALIDATION_TIMEOUT_SECONDS)
  Recheck,     \* _WS_SESSION_RECHECK_SECONDS
  SendTime,    \* longest the first messages of a socket take (the code sets no limit)
  MaxCached,   \* _MAX_CACHED_SESSIONS
  MaxInvalid,  \* _MAX_INVALID_ANSWERS
  MaxTickets,  \* _MAX_OUTSTANDING_TICKETS
  Horizon      \* bound: the clock stops here

ASSUME GateAssumption ==
  /\ NoToken \notin Token
  /\ CacheTTL \in Nat /\ SendTime \in Nat
  /\ TicketTTL \in Nat \ {0} /\ InvalidTTL \in Nat \ {0}
  /\ Timeout \in Nat \ {0} /\ Recheck \in Nat \ {0}
  /\ MaxCached \in Nat \ {0} /\ MaxInvalid \in Nat \ {0} /\ MaxTickets \in Nat \ {0}
  /\ Horizon \in Nat \ {0}

VARIABLES
  now,        \* the console's clock (monotonic and wall agree)
  revokedAt,  \* catalog-api: when it revoked each bearer, Never if it has not
  expiresAt,  \* catalog-api: when each bearer's session expires
  cache,      \* SessionCache._entries
  invalid,    \* InvalidAnswers._entries
  tickets,    \* TicketStore._tickets
  minted,     \* tickets ever issued
  handler,    \* what each coroutine is doing
  signedOut,  \* bearers whose logout the console has finished
  opened,     \* how many sockets each ticket has opened
  reply       \* the gate's answer in the last step, Silent if it gave none

vars == <<now, revokedAt, expiresAt, cache, invalid, tickets, minted, handler,
          signedOut, opened, reply>>
-----------------------------------------------------------------------------
Never == Horizon + 1
Time  == 0 .. Never

\* catalog-api honours a bearer until it is revoked or its session expires.
Honoured(t) == revokedAt[t] = Never /\ now < expiresAt[t]

\* When catalog-api stopped, or will stop, honouring t.
DeadSince(t) == IF revokedAt[t] < expiresAt[t] THEN revokedAt[t] ELSE expiresAt[t]

Absent   == [until |-> 0, put |-> 0]
NoTicket == [until |-> 0, put |-> 0, token |-> NoToken, late |-> FALSE]
Silent   == [kind |-> "none", token |-> NoToken, verdict |-> "none",
             via |-> "none", asked |-> 0]
Idle     == [at |-> "idle", kind |-> "none", token |-> NoToken,
             asked |-> 0, answer |-> "none", due |-> 0]

Held(store) == {k \in DOMAIN store : store[k].until > 0}

\* popitem(last=False) while the store is over its limit: k was just moved to
\* the end, so one of the least recently stored others goes.
Oldest(store, k) ==
  {v \in Held(store) \ {k} : \A w \in Held(store) \ {k} : store[v].put <= store[w].put}
\* Mutant of Capped: the limit is off by one.
CappedLate(store, k, max, absent) ==
  IF Cardinality(Held(store)) <= max + 1
  THEN {store}
  ELSE {[store EXCEPT ![v] = absent] : v \in Oldest(store, k)}

Capped(store, k, max, absent) ==
  IF Cardinality(Held(store)) <= max
  THEN {store}
  ELSE {[store EXCEPT ![v] = absent] : v \in Oldest(store, k)}

\* The shorter of a store's TTL and what is left of the session.
Lifetime(ttl, t) ==
  IF ttl <= expiresAt[t] - now THEN ttl ELSE expiresAt[t] - now
-----------------------------------------------------------------------------
(* SessionCache *)

\* Mutants: an entry past its deadline still counts, and an entry that ignores what is
\* left of the session.
CacheHitForever(t) == cache[t].until > 0
CachePutFullTTL(t) ==
  Capped([cache EXCEPT ![t] = [until |-> now + CacheTTL, put |-> now]], t, MaxCached, Absent)

CacheHit(t) == now < cache[t].until
CacheGet(t) == IF CacheHit(t) THEN cache ELSE [cache EXCEPT ![t] = Absent]
CachePut(t) ==
  IF Lifetime(CacheTTL, t) <= 0
  THEN {[cache EXCEPT ![t] = Absent]}
  ELSE Capped([cache EXCEPT ![t] = [until |-> now + Lifetime(CacheTTL, t),
                                    put |-> now]],
              t, MaxCached, Absent)
CacheEvict(t) == [cache EXCEPT ![t] = Absent]

(* InvalidAnswers *)

InvalidHolds(t) == now < invalid[t].until
InvalidGet(t)   == IF InvalidHolds(t) THEN invalid ELSE [invalid EXCEPT ![t] = Absent]
InvalidAdd(t) ==
  Capped([invalid EXCEPT ![t] = [until |-> now + InvalidTTL, put |-> now]],
         t, MaxInvalid, Absent)

(* TicketStore *)

TicketLive(k) == now < tickets[k].until
Pruned        == [k \in Ticket |-> IF TicketLive(k) THEN tickets[k] ELSE NoTicket]
TicketLifetime(t) ==
  IF Lifetime(TicketTTL, t) > 0 THEN Lifetime(TicketTTL, t) ELSE 0
\* Mutants: the store has no limit, and a logout leaves its tickets alone.
TicketIssueUnbounded(k, t) ==
  {[Pruned EXCEPT ![k] = [until |-> now + TicketLifetime(t), put |-> now,
                          token |-> t, late |-> t \in signedOut]]}
TicketPurgeNothing(t) == IF t \in Token THEN tickets ELSE <<>>

TicketIssue(k, t) ==
  Capped([Pruned EXCEPT ![k] = [until |-> now + TicketLifetime(t), put |-> now,
                                token |-> t, late |-> t \in signedOut]],
         k, MaxTickets, NoTicket)
TicketPurge(t) == [k \in Ticket |-> IF tickets[k].token = t THEN NoTicket ELSE tickets[k]]

\* What the caller does with the session it was granted: a ticket request
\* mints an unused ticket, every other caller leaves the store alone.  Ticket
\* bounds how many are minted: a ticket request starts while one is left for it.
Reserved == {c \in Handler : handler[c].kind = "ticket"}
TicketsLeft == Cardinality(Reserved) < Cardinality(Ticket \ minted)
Minting(kind, t) ==
  IF kind = "ticket"
  THEN \E k \in Ticket \ minted : /\ tickets' \in TicketIssue(k, t)
                                  /\ minted' = minted \cup {k}
  ELSE UNCHANGED <<tickets, minted>>
-----------------------------------------------------------------------------
Init ==
  /\ now = 0
  /\ revokedAt = [t \in Token |-> Never]
  /\ expiresAt \in [Token -> 1 .. Never]
  /\ cache = [t \in Token |-> Absent]
  /\ invalid = [t \in Token |-> Absent]
  /\ tickets = [k \in Ticket |-> NoTicket]
  /\ minted = {}
  /\ handler = [c \in Handler |-> Idle]
  /\ signedOut = {}
  /\ opened = [k \in Ticket |-> 0]
  /\ reply = Silent

Answer(kind, t, verdict, via, asked) ==
  reply' = [kind |-> kind, token |-> t, verdict |-> verdict, via |-> via,
            asked |-> asked]

Asking(kind, t) ==
  [at |-> "checking", kind |-> kind, token |-> t, asked |-> now,
   answer |-> "none", due |-> 0]
-----------------------------------------------------------------------------
(* validate / validate_token without `fresh`: a gated request or a ticket request *)

ServeFromCache(kind, t) ==
  /\ CacheHit(t)
  /\ kind = "ticket" => TicketsLeft
  /\ Minting(kind, t)
  /\ Answer(kind, t, "granted", "cache", now)
  /\ UNCHANGED <<now, revokedAt, expiresAt, cache, invalid, handler, signedOut, opened>>

RefuseFromRecord(kind, t) ==
  /\ ~CacheHit(t)
  /\ InvalidHolds(t)
  /\ cache' = CacheGet(t)
  /\ Answer(kind, t, "invalid", "record", now)
  /\ UNCHANGED <<now, revokedAt, expiresAt, invalid, tickets, minted, handler,
                 signedOut, opened>>

AskCatalog(c, kind, t) ==
  /\ handler[c] = Idle
  /\ ~CacheHit(t)
  /\ ~InvalidHolds(t)
  /\ kind = "ticket" => TicketsLeft
  /\ cache' = CacheGet(t)
  /\ invalid' = InvalidGet(t)
  /\ handler' = [handler EXCEPT ![c] = Asking(kind, t)]
  /\ reply' = Silent
  /\ UNCHANGED <<now, revokedAt, expiresAt, tickets, minted, signedOut, opened>>

(* websocket_endpoint: redeem the ticket, then validate with `fresh` *)

RedeemExpired(k) ==
  /\ tickets[k].until > 0
  /\ ~TicketLive(k)
  /\ tickets' = [tickets EXCEPT ![k] = NoTicket]
  /\ reply' = Silent
  /\ UNCHANGED <<now, revokedAt, expiresAt, cache, invalid, minted, handler,
                 signedOut, opened>>

\* Mutants: the ticket survives the handshake, and the handshake rides the cache.
OpenSocketKeepingTicket(c, k) ==
  LET t == tickets[k].token IN
  /\ handler[c] = Idle /\ TicketLive(k) /\ ~InvalidHolds(t)
  /\ opened' = [opened EXCEPT ![k] = @ + 1]
  /\ handler' = [handler EXCEPT ![c] = Asking("open", t)]
  /\ reply' = Silent
  /\ UNCHANGED <<now, revokedAt, expiresAt, cache, invalid, tickets, minted, signedOut>>

OpenSocketFromCache(c, k) ==
  LET t == tickets[k].token IN
  /\ handler[c] = Idle /\ TicketLive(k) /\ CacheHit(t)
  /\ tickets' = [tickets EXCEPT ![k] = NoTicket]
  /\ opened' = [opened EXCEPT ![k] = @ + 1]
  /\ handler' = [handler EXCEPT ![c] = [Idle EXCEPT !.at = "sending", !.kind = "socket",
                                                    !.token = t, !.due = now + SendTime]]
  /\ Answer("open", t, "granted", "cache", now)
  /\ UNCHANGED <<now, revokedAt, expiresAt, cache, invalid, minted, signedOut>>

OpenSocket(c, k) ==
  LET t == tickets[k].token IN
  /\ handler[c] = Idle
  /\ TicketLive(k)
  /\ tickets' = [tickets EXCEPT ![k] = NoTicket]
  /\ invalid' = InvalidGet(t)
  /\ opened' = [opened EXCEPT ![k] = @ + 1]
  /\ IF InvalidHolds(t)
     THEN /\ Answer("open", t, "invalid", "record", now)
          /\ UNCHANGED handler
     ELSE /\ handler' = [handler EXCEPT ![c] = Asking("open", t)]
          /\ reply' = Silent
  /\ UNCHANGED <<now, revokedAt, expiresAt, cache, minted, signedOut>>

\* Mutant of RecheckDue: only the expiry wakes the receive loop.
RecheckDueAtExpiry(c) ==
  handler[c].at = "open" /\ now >= expiresAt[handler[c].token]

\* The socket's next re-check is at its deadline or at the session's expiry.
RecheckDue(c) ==
  /\ handler[c].at = "open"
  /\ now >= handler[c].due \/ now >= expiresAt[handler[c].token]

StartRecheck(c) ==
  LET t == handler[c].token IN
  /\ RecheckDue(c)
  /\ invalid' = InvalidGet(t)
  /\ IF InvalidHolds(t)
     THEN /\ Answer("recheck", t, "invalid", "record", now)
          /\ handler' = [handler EXCEPT ![c] = Idle]
     ELSE /\ handler' = [handler EXCEPT ![c] = Asking("recheck", t)]
          /\ reply' = Silent
  /\ UNCHANGED <<now, revokedAt, expiresAt, cache, tickets, minted, signedOut, opened>>
-----------------------------------------------------------------------------
(* catalog-api and the network *)

CatalogAnswers(c) ==
  /\ handler[c].at = "checking"
  /\ handler[c].answer = "none"
  /\ handler' = [handler EXCEPT
       ![c].answer = IF Honoured(handler[c].token) THEN "live" ELSE "dead"]
  /\ reply' = Silent
  /\ UNCHANGED <<now, revokedAt, expiresAt, cache, invalid, tickets, minted,
                 signedOut, opened>>

\* Unreachable, timed out, a status that is not 200/401/403, or a malformed body.
CatalogFails(c) ==
  /\ handler[c].at = "checking"
  /\ handler[c].answer = "none"
  /\ handler' = [handler EXCEPT ![c].answer = "down"]
  /\ reply' = Silent
  /\ UNCHANGED <<now, revokedAt, expiresAt, cache, invalid, tickets, minted,
                 signedOut, opened>>

Revoke(t) ==
  /\ revokedAt[t] = Never
  /\ revokedAt' = [revokedAt EXCEPT ![t] = now]
  /\ reply' = Silent
  /\ UNCHANGED <<now, expiresAt, cache, invalid, tickets, minted, handler,
                 signedOut, opened>>
-----------------------------------------------------------------------------
(* validate_token resumes with catalog-api's answer *)

\* Mutants of Verdict: catalog-api's silence is read as a refusal, and the expiry is not
\* read again after the answer.
VerdictFailsClosed(c) == IF handler[c].answer = "down" THEN "dead" ELSE handler[c].answer
VerdictAsAnswered(c)  == handler[c].answer

\* _fetch_session calls a session that expired on the way "invalid".
Verdict(c) ==
  IF handler[c].answer = "live" /\ now >= expiresAt[handler[c].token]
  THEN "dead"
  ELSE handler[c].answer

\* Mutant of AfterGrant: the caller's state outlives its check.
AfterGrantKeepingState(c) ==
  [handler[c] EXCEPT !.at = IF handler[c].kind \in {"open", "recheck"} THEN "open" ELSE "idle"]

\* A socket is admitted and starts sending, an open one goes on; others finish.
AfterGrant(c) ==
  CASE handler[c].kind = "open" ->
         [Idle EXCEPT !.at = "sending", !.kind = "socket", !.token = handler[c].token,
                      !.due = now + SendTime]
    [] handler[c].kind = "recheck" ->
         [Idle EXCEPT !.at = "open", !.kind = "socket", !.token = handler[c].token,
                      !.due = now + Recheck]
    [] OTHER -> Idle

Grant(c) ==
  LET t == handler[c].token IN
  /\ handler[c].at = "checking"
  /\ Verdict(c) = "live"
  /\ cache' \in CachePut(t)
  /\ Minting(handler[c].kind, t)
  /\ handler' = [handler EXCEPT ![c] = AfterGrant(c)]
  /\ Answer(handler[c].kind, t, "granted", "catalog", handler[c].asked)
  /\ UNCHANGED <<now, revokedAt, expiresAt, invalid, signedOut, opened>>

\* "invalid" drops the cached session and is remembered; a socket closes (4401).
RefuseInvalid(c) ==
  LET t == handler[c].token IN
  /\ handler[c].at = "checking"
  /\ Verdict(c) = "dead"
  /\ cache' = CacheEvict(t)
  /\ invalid' \in InvalidAdd(t)
  /\ handler' = [handler EXCEPT ![c] = Idle]
  /\ Answer(handler[c].kind, t, "invalid", "catalog", handler[c].asked)
  /\ UNCHANGED <<now, revokedAt, expiresAt, tickets, minted, signedOut, opened>>

\* "unavailable" is never remembered; a socket closes (4503).
RefuseUnavailable(c) ==
  /\ handler[c].at = "checking"
  /\ Verdict(c) = "down"
  /\ handler' = [handler EXCEPT ![c] = Idle]
  /\ Answer(handler[c].kind, handler[c].token, "unavailable", "catalog",
            handler[c].asked)
  /\ UNCHANGED <<now, revokedAt, expiresAt, cache, invalid, tickets, minted,
                 signedOut, opened>>

\* The metrics snapshot and the event backlog are sent; the receive loop starts.
SendInitial(c) ==
  /\ handler[c].at = "sending"
  /\ handler' = [handler EXCEPT ![c].at = "open", ![c].due = now + Recheck]
  /\ reply' = Silent
  /\ UNCHANGED <<now, revokedAt, expiresAt, cache, invalid, tickets, minted,
                 signedOut, opened>>

\* The browser leaves, or a send fails.
SocketLost(c) ==
  /\ handler[c].at \in {"sending", "open"}
  /\ handler' = [handler EXCEPT ![c] = Idle]
  /\ reply' = Silent
  /\ UNCHANGED <<now, revokedAt, expiresAt, cache, invalid, tickets, minted,
                 signedOut, opened>>
-----------------------------------------------------------------------------
(* forget: drop the cached session and every outstanding ticket of a bearer *)

Forget(t) ==
  /\ cache' = CacheEvict(t)
  /\ tickets' = TicketPurge(t)
  /\ reply' = Silent
  /\ UNCHANGED <<now, revokedAt, expiresAt, invalid, minted, handler, opened>>

\* proxy_logout forgets once catalog-api answered or failed; the revocation it
\* asks for, when catalog-api performs it, is a Revoke before this step.
Logout(t) ==
  /\ t \notin signedOut
  /\ signedOut' = signedOut \cup {t}
  /\ Forget(t)

\* _proxy_request: catalog-api refused a proxied admin call with 401.
ProxyRefused(t) ==
  /\ ~Honoured(t)
  /\ Forget(t)
  /\ UNCHANGED signedOut

\* Time passes only when no timer has fired: checks end within Timeout, and a
\* re-check starts when it is due.
Tick ==
  /\ now < Horizon
  /\ \A c \in Handler :
       /\ handler[c].at = "checking" => now < handler[c].asked + Timeout
       /\ handler[c].at = "sending" => now < handler[c].due
       /\ ~RecheckDue(c)
  /\ now' = now + 1
  /\ reply' = Silent
  /\ UNCHANGED <<revokedAt, expiresAt, cache, invalid, tickets, minted, handler,
                 signedOut, opened>>

Next ==
  \/ \E kind \in {"request", "ticket"}, t \in Token :
       \/ ServeFromCache(kind, t)
       \/ RefuseFromRecord(kind, t)
       \/ \E c \in Handler : AskCatalog(c, kind, t)
  \/ \E k \in Ticket : RedeemExpired(k) \/ \E c \in Handler : OpenSocket(c, k)
  \/ \E c \in Handler :
       \/ CatalogAnswers(c) \/ CatalogFails(c)
       \/ Grant(c) \/ RefuseInvalid(c) \/ RefuseUnavailable(c)
       \/ SendInitial(c) \/ SocketLost(c) \/ StartRecheck(c)
  \/ \E t \in Token : Revoke(t) \/ Logout(t) \/ ProxyRefused(t)
  \/ Tick

Spec == Init /\ [][Next]_vars
-----------------------------------------------------------------------------
(* Properties *)

Entry       == [until : Nat, put : Time]
TicketEntry ==
  {NoTicket} \cup [until : Nat, put : Time, token : Token, late : BOOLEAN]
HandlerState ==
  {Idle}
  \cup [at : {"checking"}, kind : {"request", "ticket", "open", "recheck"},
        token : Token, asked : Time, answer : {"none", "live", "dead", "down"}, due : {0}]
  \cup [at : {"sending", "open"}, kind : {"socket"},
        token : Token, asked : {0}, answer : {"none"}, due : Nat]
Reply ==
  [kind : {"none", "request", "ticket", "open", "recheck"}, token : Token \cup {NoToken},
   verdict : {"none", "granted", "invalid", "unavailable"},
   via : {"none", "cache", "record", "catalog"}, asked : Time]

\* Type invariant of the gate, its stores, its callers and its clock.
TypeOK ==
  /\ now \in 0 .. Horizon
  /\ revokedAt \in [Token -> Time]
  /\ expiresAt \in [Token -> 1 .. Never]
  /\ cache \in [Token -> Entry]
  /\ invalid \in [Token -> Entry]
  /\ tickets \in [Ticket -> TicketEntry]
  /\ minted \subseteq Ticket
  /\ handler \in [Handler -> HandlerState]
  /\ signedOut \subseteq Token
  /\ opened \in [Ticket -> Nat]
  /\ reply \in Reply

Granted == reply.verdict = "granted"

\* Every grant, whether from the cache or from catalog-api, is for a bearer that
\* was honoured at most CacheTTL plus one check ago: whatever the interleaving of
\* checks, evictions and revocations, the cache's 30 seconds are the only extension
\* (SESSION_CACHE_MAX_SECONDS; SessionCache.put/get, validate_token).
RevocationBites ==
  Granted => now <= DeadSince(reply.token) + Timeout + CacheTTL

\* No caller is granted a session that has expired, although the gate reads the
\* expiry before it waits and serves the session from the cache later
\* (SessionCache.put takes min(ttl, seconds_left); _fetch_session re-reads it).
NeverGrantedPastExpiry ==
  Granted => now < expiresAt[reply.token]

\* Nobody is told that a session is invalid while catalog-api honours it: neither a
\* recorded answer nor a late one can sign out a live bearer (InvalidAnswers, which
\* is consulted before catalog-api is asked).
LiveSessionNeverInvalid ==
  reply.verdict = "invalid" => ~Honoured(reply.token)

\* A socket is admitted, or kept at a re-check, only for a bearer catalog-api still
\* honoured after the ticket was redeemed or the re-check began: it never rides the
\* 30-second cache (validate_token(fresh=True) in websocket_endpoint).
SocketsSeeRevocation ==
  Granted /\ reply.kind \in {"open", "recheck"} => DeadSince(reply.token) >= reply.asked

\* The longest a live feed outlives its session: a check, the first messages, one
\* re-check interval and the check that closes it.
SocketLease == Timeout + SendTime + Recheck + Timeout

\* The handler is in the connection set, so broadcasts reach its socket.
Feeding(c) ==
  \/ handler[c].at \in {"sending", "open"}
  \/ handler[c].at = "checking" /\ handler[c].kind = "recheck"

\* A revoked or expired session loses its live feed within SocketLease, even with no
\* browser tab left to notice ("within about a minute", dashboard.py:118-121).
RevokedSocketCloses ==
  \A c \in Handler : Feeding(c) => now <= DeadSince(handler[c].token) + SocketLease

\* A ticket opens at most one socket, however many handshakes present it
\* (TicketStore.redeem pops it before anything is awaited).
TicketOpensOneSocket ==
  \A k \in Ticket : opened[k] <= 1

\* After a logout no ticket issued before it is still redeemable; only a check that
\* was under way may mint one after it, and that one meets a fresh check
\* (SessionGate.forget, TicketStore.purge).
LogoutVoidsTickets ==
  \A k \in Ticket : tickets[k].token \in signedOut => tickets[k].late

\* The stores never exceed their limits, whichever checks finish together.
StoresBounded ==
  /\ Cardinality(Held(cache)) <= MaxCached
  /\ Cardinality(Held(invalid)) <= MaxInvalid
  /\ Cardinality(Held(tickets)) <= MaxTickets

Lease == INSTANCE SessionLease WITH
  Window    <- Timeout + CacheTTL,
  deadSince <- [t \in Token |-> DeadSince(t)],
  granted   <- IF reply.verdict = "granted" THEN reply.token ELSE NoToken,
  refused   <- IF reply.verdict = "invalid" THEN reply.token ELSE NoToken

\* The gate with its stores, callers and pending checks implements the lease: every
\* answer it gives is one SessionLease allows (SessionGate.validate_token, forget).
ImplementsLease == Lease!Spec

\* What proxy_logout's documentation promises (admin_proxy.py:231-233): after a
\* logout the next gated request re-validates instead of riding the cache.
LogoutEndsCacheRides ==
  Granted /\ reply.via = "cache" => reply.token \notin signedOut
-----------------------------------------------------------------------------
(* The inductive invariant behind the properties above: how old each store and *)
(* each suspended caller may be, measured against catalog-api's own record.    *)

CacheInv ==
  \A t \in Token : /\ cache[t].until <= expiresAt[t]
                   /\ cache[t].until <= now + CacheTTL
                   /\ cache[t].until <= DeadSince(t) + Timeout + CacheTTL

InvalidInv == \A t \in Token : invalid[t].until > 0 => ~Honoured(t)

\* A check is at most Timeout old, and an answer that came back was true when given.
CheckInv(c) ==
  handler[c].at = "checking" =>
    /\ handler[c].asked <= now
    /\ now <= handler[c].asked + Timeout
    /\ handler[c].answer = "live" => handler[c].asked <= DeadSince(handler[c].token)
    /\ handler[c].answer = "dead" => ~Honoured(handler[c].token)
    /\ handler[c].kind = "recheck" =>
         handler[c].asked <= DeadSince(handler[c].token) + Timeout + SendTime + Recheck

SendingInv(c) ==
  handler[c].at = "sending" =>
    /\ now <= handler[c].due /\ handler[c].due <= now + SendTime
    /\ handler[c].due <= DeadSince(handler[c].token) + Timeout + SendTime

OpenInv(c) ==
  handler[c].at = "open" =>
    /\ now <= handler[c].due /\ handler[c].due <= now + Recheck
    /\ handler[c].due <= DeadSince(handler[c].token) + Timeout + SendTime + Recheck

HandlerInv == \A c \in Handler : CheckInv(c) /\ SendingInv(c) /\ OpenInv(c)

TicketInv ==
  \A k \in Ticket : /\ tickets[k].until > 0 =>
                         k \in minted /\ opened[k] = 0
                    /\ k \notin minted => opened[k] = 0

\* A revocation is never dated in the future.
AuthorityInv == \A t \in Token : revokedAt[t] = Never \/ revokedAt[t] <= now

\* The strengthening that every step preserves; the safety properties follow from it
\* (it relates the gate's stores and suspended checks to what catalog-api knows).
IInv ==
  /\ TypeOK
  /\ AuthorityInv /\ CacheInv /\ InvalidInv /\ HandlerInv /\ TicketInv
  /\ RevocationBites /\ NeverGrantedPastExpiry /\ LiveSessionNeverInvalid
  /\ SocketsSeeRevocation /\ TicketOpensOneSocket /\ LogoutVoidsTickets
=============================================================================
