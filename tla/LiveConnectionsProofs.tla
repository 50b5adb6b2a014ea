----------------------- MODULE LiveConnectionsProofs -----------------------
(***************************************************************************)
(* Proofs about the connection set and the feed that runs on it, for any   *)
(* finite number of sockets, any browsers, any capacity of the ring and    *)
(* every bound.  The feed implements the connection set, so what is proved *)
(* of the set holds of the feed; what arrives at a browser follows from    *)
(* the chain of events on its socket.                                      *)
(***************************************************************************)
EXTENDS EventFeed, FiniteSetTheorems, SequenceTheorems, TLAPS

\* The initial state is well typed (WebSocketConnections.__init__).
LEMMA ConnTypeInit == ConnInit => ConnTypeOK
BY DEF ConnInit, ConnTypeOK, Quiet

\* Every step of a handler, of the broadcast or of the console keeps the types.
LEMMA ConnTypeStep == ConnTypeOK /\ [ConnNext]_connVars => ConnTypeOK'
<1> SUFFICES ASSUME ConnTypeOK, [ConnNext]_connVars PROVE ConnTypeOK'
  OBVIOUS
<1> USE DEF ConnTypeOK, Serving
<1>1. Quiet \in [at : {"quiet", "sending", "closing"},
                 waiting : SUBSET Socket, failed : SUBSET Socket]
      /\ Cast(connections) \in [at : {"quiet", "sending", "closing"},
                                waiting : SUBSET Socket, failed : SUBSET Socket]
  BY DEF Quiet, Cast
<1>2. ASSUME NEW s \in Socket,
             Handshake(s) \/ Refuse(s) \/ Join(s) \/ Advance(s) \/ Leave(s)
      PROVE  ConnTypeOK'
  <2>1. CASE Handshake(s) \/ Refuse(s)
    BY <2>1 DEF Handshake, Refuse
  <2>2. CASE Join(s)
    BY <2>2 DEF Join
  <2>3. CASE Advance(s)
    BY <2>3 DEF Advance
  <2>4. CASE Leave(s)
    BY <2>4 DEF Leave
  <2>5. QED BY <1>2, <2>1, <2>2, <2>3, <2>4
<1>3. ASSUME NEW s \in Socket, Sent(s) \/ SendFailed(s) PROVE ConnTypeOK'
  <2>1. CASE Sent(s)
    BY <2>1 DEF Sent
  <2>2. CASE SendFailed(s)
    BY <2>2 DEF SendFailed
  <2>3. QED BY <1>3, <2>1, <2>2
<1>4. ASSUME NEW s \in Socket, NEW more \in BOOLEAN, CloseFailed(s, more) PROVE ConnTypeOK'
  BY <1>1, <1>4 DEF CloseFailed
<1>5. CASE StartCast
  BY <1>1, <1>5 DEF StartCast
<1>6. ASSUME NEW more \in BOOLEAN, EndCast(more) PROVE ConnTypeOK'
  <2>1. Cardinality(cast.failed) \in Int
    BY SocketAssumption, FS_Subset, FS_CardinalityType
  <2>2. gauge' \in Int /\ connections' \subseteq Socket
    BY <1>6, <2>1 DEF EndCast
  <2>3. QED BY <1>1, <1>6, <2>2 DEF EndCast
<1>7. CASE Shutdown
  <2>1. Cardinality(connections) \in Int
    BY SocketAssumption, FS_Subset, FS_CardinalityType
  <2>2. gauge' \in Int
    BY <1>7, <2>1 DEF Shutdown
  <2>3. QED BY <1>1, <1>7, <2>2 DEF Shutdown
<1>8. CASE Boot
  BY <1>8 DEF Boot
<1>9. CASE UNCHANGED connVars
  BY <1>9 DEF connVars
<1>10. QED
  BY <1>2, <1>3, <1>4, <1>5, <1>6, <1>7, <1>8, <1>9 DEF ConnNext

\* The connection set, its gauge and the broadcast are well typed in every reachable state.
THEOREM ConnTypeCorrect == ConnSpec => []ConnTypeOK
BY ConnTypeInit, ConnTypeStep, PTL DEF ConnSpec
-----------------------------------------------------------------------------
\* Every socket in the set keeps a handler that will take it out: a socket enters with its
\* handler (Join) and leaves at the latest with it (Leave).
LEMMA GhostStep == ConnTypeOK /\ NoGhosts /\ [ConnNext]_connVars => NoGhosts'
<1> SUFFICES ASSUME ConnTypeOK, NoGhosts, [ConnNext]_connVars,
                    NEW u \in connections'
             PROVE  handler'[u] \in Serving
  BY DEF NoGhosts
<1>1. CASE u \notin connections
  \* Only the handler that joins adds a socket.
  <2>1. ASSUME NEW s \in Socket, Join(s) PROVE handler'[u] \in Serving
    BY <1>1, <2>1 DEF Join, ConnTypeOK, Serving
  <2>2. ASSUME ~\E s \in Socket : Join(s) PROVE connections' \subseteq connections
    BY <2>2 DEF ConnNext, connVars, Handshake, Refuse, Advance, Leave, Sent, SendFailed,
       StartCast, EndCast, CloseFailed, Shutdown, Boot
  <2>3. QED BY <1>1, <2>1, <2>2
<1>2. CASE u \in connections
  <2>1. u \in Socket /\ handler[u] \in Serving
    BY <1>2 DEF NoGhosts, ConnTypeOK
  <2>2. ASSUME NEW s \in Socket, Handshake(s) \/ Refuse(s) \/ Join(s) \/ Advance(s)
        PROVE  handler'[u] \in Serving
    BY <2>1, <2>2 DEF Handshake, Refuse, Join, Advance, Serving, ConnTypeOK
  <2>3. ASSUME NEW s \in Socket, Leave(s)
        PROVE  handler'[u] \in Serving
    BY <2>1, <2>3 DEF Leave, ConnTypeOK
  <2>4. CASE handler' = handler
    BY <2>1, <2>4
  <2>5. ~Shutdown
    BY DEF Shutdown
  <2>6. QED
    BY <2>2, <2>3, <2>4, <2>5 DEF ConnNext, connVars, Sent, SendFailed, StartCast, EndCast,
       CloseFailed, Boot
<1>3. QED BY <1>1, <1>2

\* Every socket in the set has a live handler that will take it out again.
THEOREM NoGhostsAlways == ConnSpec => []NoGhosts
<1>1. ConnInit => NoGhosts
  BY DEF ConnInit, NoGhosts
<1>2. QED
  BY <1>1, GhostStep, ConnTypeCorrect, PTL DEF ConnSpec
-----------------------------------------------------------------------------
\* Taking n sockets, present or not, out of a set removes at most n.
LEMMA RemovalBound ==
  ASSUME NEW S \in SUBSET Socket, NEW T \in SUBSET Socket
  PROVE  /\ Cardinality(S) \in Nat /\ Cardinality(T) \in Nat /\ Cardinality(S \ T) \in Nat
         /\ Cardinality(S) - Cardinality(T) <= Cardinality(S \ T)
<1>1. IsFiniteSet(S) /\ IsFiniteSet(T)
  BY SocketAssumption, FS_Subset
<1>2. IsFiniteSet(S \cap T) /\ Cardinality(S \cap T) <= Cardinality(T)
  <2>1. S \cap T \in SUBSET T
    OBVIOUS
  <2>2. QED BY <1>1, <2>1, FS_Subset
<1>3. /\ IsFiniteSet(S \ T)
      /\ Cardinality(S \ T) = Cardinality(S) - Cardinality(S \cap T)
  BY <1>1, FS_Difference
<1>4. QED BY <1>1, <1>2, <1>3, FS_CardinalityType

\* A socket joins once, so adding it raises the count by the one the gauge adds.
LEMMA GaugeStep ==
  ASSUME ConnTypeOK, NoGhosts, GaugeNeverOvercounts, [ConnNext]_connVars
  PROVE  GaugeNeverOvercounts'
<1> DEFINE count == Cardinality(connections)
<1> SUFFICES gauge' <= Cardinality(connections')
  BY DEF GaugeNeverOvercounts
<1>1. /\ IsFiniteSet(connections) /\ count \in Nat /\ gauge \in Int /\ gauge <= count
      /\ connections \in SUBSET Socket /\ cast.failed \in SUBSET Socket
  BY SocketAssumption, FS_Subset, FS_CardinalityType DEF ConnTypeOK, GaugeNeverOvercounts
<1>2. ASSUME NEW s \in Socket, Join(s)
      PROVE  gauge' <= Cardinality(connections')
  <2>1. s \notin connections
    BY <1>2 DEF Join, NoGhosts, Serving
  <2>2. Cardinality(connections') = count + 1
    BY <1>1, <1>2, <2>1, FS_AddElement DEF Join
  <2>3. QED BY <1>1, <1>2, <2>2 DEF Join
<1>3. ASSUME NEW s \in Socket, Leave(s)
      PROVE  gauge' <= Cardinality(connections')
  <2>1. Cardinality(connections') = IF s \in connections THEN count - 1 ELSE count
    BY <1>1, <1>3, FS_RemoveElement DEF Leave
  <2>2. QED BY <1>1, <1>3, <2>1 DEF Leave
<1>4. ASSUME NEW more \in BOOLEAN, EndCast(more)
      PROVE  gauge' <= Cardinality(connections')
  <2>1. /\ Cardinality(cast.failed) \in Nat
        /\ Cardinality(connections \ cast.failed) \in Nat
        /\ count - Cardinality(cast.failed) <= Cardinality(connections \ cast.failed)
    BY <1>1, RemovalBound
  <2>2. QED BY <1>1, <1>4, <2>1 DEF EndCast
<1>5. CASE Shutdown
  <2>1. gauge' = gauge - count /\ Cardinality(connections') = 0
    BY <1>5, FS_EmptySet DEF Shutdown
  <2>2. QED BY <1>1, <2>1
<1>6. CASE Boot
  BY <1>1, <1>6 DEF Boot
<1>7. CASE UNCHANGED <<connections, gauge>>
  BY <1>1, <1>7
<1>8. QED
  BY <1>2, <1>3, <1>4, <1>5, <1>6, <1>7 DEF ConnNext, connVars, Handshake, Refuse, Advance,
     Sent, SendFailed, StartCast, CloseFailed

\* The gauge never counts a socket the set does not hold.
THEOREM GaugeNeverOvercountsAlways == ConnSpec => []GaugeNeverOvercounts
<1>1. ConnInit => GaugeNeverOvercounts
  BY FS_EmptySet DEF ConnInit, GaugeNeverOvercounts
<1>2. ConnTypeOK /\ NoGhosts /\ GaugeNeverOvercounts /\ [ConnNext]_connVars
        => GaugeNeverOvercounts'
  BY GaugeStep
<1>3. QED
  BY <1>1, <1>2, ConnTypeCorrect, NoGhostsAlways, PTL DEF ConnSpec
-----------------------------------------------------------------------------
(* The feed: its invariant *)

\* What the console sends: a reading, an event, or the ids of a backlog, none if none was given out.
Frame ==
  {f \in [kind : {"metrics", "event", "backlog"}, first : Nat, last : Nat] :
     /\ f.kind = "event" => f.last > 0
     /\ f.kind = "backlog" => /\ f.first > 0 /\ f.first <= f.last + 1
                              /\ f.last > 0 => f.first <= f.last}

\* The types of the feed.
FeedTypes ==
  /\ ConnTypeOK
  /\ nextId \in Nat \ {0} /\ latest \in Nat /\ polls \in Nat /\ queue \in Seq(Frame)
  /\ wire \in [Socket -> {"none", "open", "closed"}] /\ chan \in [Socket -> Seq(Frame)]
  /\ current \in [Client -> Socket \cup {NoSocket}] /\ settled \in [Client -> BOOLEAN]
  /\ log \in [Client -> Seq(Nat)] /\ lastId \in [Client -> Nat] /\ reading \in [Client -> Nat]

\* A broadcast waits only for sockets whose handler is past the handshake; the sockets it closes
\* are out of the set; and a stopped console has neither sockets nor a broadcast.
CastInv ==
  /\ cast.at = "quiet" => cast = Quiet
  /\ cast.at = "closing" => cast.waiting = {} /\ cast.failed \cap connections = {}
  /\ cast.waiting \cap cast.failed = {}
  /\ \A s \in cast.waiting \cup cast.failed \cup connections :
       handler[s] \notin {"free", "handshake"}
  /\ NoGhosts
  /\ ~up => /\ connections = {} /\ cast = Quiet
            /\ \A s \in Socket : handler[s] \in {"free", "done"}

\* The loop has messages exactly while it broadcasts: at most the newest reading, then the newest
\* events, whose ids run up to the last one given out.
QueueInv ==
  /\ cast.at = "quiet" <=> queue = <<>>
  /\ Len(queue) <= nextId
  /\ \A i \in 1 .. Len(queue) :
       /\ queue[i].kind \in {"metrics", "event"}
       /\ i > 1 => queue[i].kind = "event"
       /\ queue[i].kind = "event" => queue[i].last = nextId - 1 - Len(queue) + i
       /\ queue[i].kind = "metrics" => queue[i].last = polls

\* The handler has sent the backlog.
Past(s) == handler[s] \in {"open", "recheck", "done"}

\* A backlog is on its way.
HasBacklog(c) == \E i \in 1 .. Len(c) : c[i].kind = "backlog"

\* At most one backlog is on its way.
OneBacklog(c) ==
  \A i, j \in 1 .. Len(c) : c[i].kind = "backlog" /\ c[j].kind = "backlog" => i = j

\* The browser has a socket, and got its backlog on it.
Settled(b) == current[b] # NoSocket /\ settled[b]

\* A socket carries one backlog, sent by its handler and handled by its browser once; no two
\* browsers share a socket; and one that was closed left the set before.
SocketInv ==
  /\ \A s \in Socket :
       /\ handler[s] = "free" <=> wire[s] = "none"
       /\ handler[s] = "free" => chan[s] = <<>>
       /\ HasBacklog(chan[s]) => Past(s)
       /\ OneBacklog(chan[s])
  /\ \A b \in Client : current[b] # NoSocket =>
       /\ handler[current[b]] # "free"
       /\ \A c \in Client : current[c] = current[b] => c = b
       /\ wire[current[b]] # "open" =>
            current[b] \notin connections /\ handler[current[b]] # "handshake"
       /\ settled[b] => Past(current[b]) /\ ~HasBacklog(chan[current[b]])

\* Id n is shown at last id l, or comes as an event among the frames k + 1 to m of c.
Covered(c, k, m, l, n) ==
  n <= l \/ \E i \in k + 1 .. m : c[i].kind = "event" /\ c[i].last = n

\* Each event after frame k finds its predecessor covered: shown, or ahead of it on the socket.
Chained(c, k, l) ==
  \A j \in k + 1 .. Len(c) : c[j].kind = "event" => Covered(c, k, j - 1, l, c[j].last - 1)

\* Neither the last id nor an event after frame k is newer than the id n allows.
Bounded(c, k, l, n) ==
  l < n /\ \A j \in k + 1 .. Len(c) : c[j].kind = "event" => c[j].last < n

\* The next event will be sent to this socket, unless it fails.
Served(s) == wire[s] = "open" /\ (s \in cast.waiting \/ s \in connections \ cast.failed)

\* The id of the next event that will be broadcast to the socket.
Coming(s) ==
  IF queue = <<>> THEN nextId
  ELSE IF s \in cast.waiting /\ queue[1].kind = "event" THEN nextId - Len(queue)
  ELSE nextId - Len(queue) + 1

\* From last id l on, the frames after the k-th continue the log without a gap, and so will the
\* next broadcast to a served socket.
FollowsOn(s, k, l) ==
  /\ Chained(chan[s], k, l)
  /\ Served(s) => /\ Covered(chan[s], k, Len(chan[s]), l, Coming(s) - 1)
                  /\ Bounded(chan[s], k, l, nextId)

\* The log has no gap and ends with lastServerEventId.
LogEnds(b) ==
  /\ \A i \in 1 .. Len(log[b]) - 1 : log[b][i + 1] = log[b][i] + 1
  /\ Len(log[b]) > 0 => log[b][Len(log[b])] = lastId[b]
  /\ lastId[b] > 0 => Len(log[b]) > 0

\* The events on a socket continue the log: from the backlog on that is still on its way, or else
\* from what the browser shows.  Before the backlog events may come in any order.
ChainInv ==
  /\ \A s \in Socket : \A k \in 1 .. Len(chan[s]) :
       chan[s][k].kind = "backlog" => FollowsOn(s, k, chan[s][k].last)
  /\ \A b \in Client : Settled(b) => FollowsOn(current[b], 0, lastId[b]) /\ LogEnds(b)

\* Readings arrive in order: those on a socket do not decrease, none is newer than the last one
\* taken nor older than the one its browser shows, and the loop keeps the newest.
ReadingInv ==
  /\ latest \in {0, polls}
  /\ \A b \in Client : reading[b] <= polls
  /\ \A s \in Socket : \A i \in 1 .. Len(chan[s]) : chan[s][i].kind = "metrics" =>
       /\ chan[s][i].last <= polls
       /\ \A j \in 1 .. i : chan[s][j].kind = "metrics" => chan[s][j].last <= chan[s][i].last
       /\ \A b \in Client : current[b] = s => reading[b] <= chan[s][i].last

\* The inductive invariant of the feed.
FeedInv == FeedTypes /\ CastInv /\ QueueInv /\ SocketInv /\ ChainInv /\ ReadingInv

-----------------------------------------------------------------------------
(* Frames on a socket *)

\* What appending a frame does.
LEMMA PushIs ==
  ASSUME NEW c \in Seq(Frame), NEW f \in Frame
  PROVE  /\ Append(c, f) \in Seq(Frame) /\ Len(Append(c, f)) = Len(c) + 1 /\ Len(c) \in Nat
         /\ \A i \in 1 .. Len(c) : Append(c, f)[i] = c[i]
         /\ Append(c, f)[Len(c) + 1] = f
OBVIOUS

\* What taking the first frame does.
LEMMA PopIs ==
  ASSUME NEW c \in Seq(Frame), c # <<>>
  PROVE  /\ Tail(c) \in Seq(Frame) /\ Len(Tail(c)) = Len(c) - 1 /\ Len(c) \in Nat \ {0}
         /\ \A i \in 1 .. Len(c) - 1 : Tail(c)[i] = c[i + 1]
         /\ Head(c) = c[1] /\ c[1] \in Frame
OBVIOUS

\* A sequence is empty exactly if its length is 0.
LEMMA EmptyIs ==
  ASSUME NEW c \in Seq(Frame)
  PROVE  Len(c) \in Nat /\ (c = <<>> <=> Len(c) = 0)
BY EmptySeq

\* A frame sent last keeps the chain if what it follows is covered, and then covers itself.
LEMMA ChainPushed ==
  ASSUME NEW c \in Seq(Frame), NEW f \in Frame, NEW k \in 0 .. Len(c), NEW l \in Int,
         Chained(c, k, l),
         f.kind = "event" => Covered(c, k, Len(c), l, f.last - 1)
  PROVE  /\ Chained(Append(c, f), k, l)
         /\ \A n \in Int : Covered(c, k, Len(c), l, n)
                             => Covered(Append(c, f), k, Len(Append(c, f)), l, n)
         /\ f.kind = "event" => Covered(Append(c, f), k, Len(Append(c, f)), l, f.last)
         /\ \A n \in Int : Bounded(c, k, l, n) /\ (f.kind = "event" => f.last < n)
                             => Bounded(Append(c, f), k, l, n)
<1> DEFINE d == Append(c, f)
<1>1. /\ Len(c) \in Nat /\ Len(d) = Len(c) + 1 /\ d[Len(c) + 1] = f
      /\ \A i \in 1 .. Len(c) : d[i] = c[i]
  BY PushIs
<1> HIDE DEF d
<1>2. \A m \in 0 .. Len(c), n \in Int : Covered(c, k, m, l, n) => Covered(d, k, m, l, n)
  BY <1>1 DEF Covered
<1>3. \A n \in Int : Covered(c, k, Len(c), l, n) => Covered(d, k, Len(d), l, n)
  BY <1>1 DEF Covered
<1>4. f.kind = "event" => Covered(d, k, Len(d), l, f.last)
  BY <1>1 DEF Covered
<1>5. Chained(d, k, l)
  <2>1. SUFFICES ASSUME NEW j \in k + 1 .. Len(d), d[j].kind = "event"
                 PROVE  Covered(d, k, j - 1, l, d[j].last - 1)
    BY DEF Chained
  <2>2. CASE j = Len(c) + 1
    <3>1. Len(c) \in 0 .. Len(c) /\ f.last - 1 \in Int /\ j - 1 = Len(c)
      BY <1>1, <2>2 DEF Frame
    <3>2. QED BY <1>1, <1>2, <2>1, <2>2, <3>1
  <2>3. CASE j # Len(c) + 1
    <3>1. j \in k + 1 .. Len(c) /\ j \in 1 .. Len(c) /\ d[j] = c[j] /\ j - 1 \in 0 .. Len(c)
      BY <1>1, <2>3
    <3>2. c[j] \in Frame
      BY <3>1
    <3>3. c[j].last - 1 \in Int
      BY <3>2 DEF Frame
    <3>4. QED BY <1>2, <2>1, <3>1, <3>3 DEF Chained
  <2>4. QED BY <2>2, <2>3
<1>6. \A n \in Int : Bounded(c, k, l, n) /\ (f.kind = "event" => f.last < n) => Bounded(d, k, l, n)
  BY <1>1 DEF Bounded
<1>7. QED BY <1>3, <1>4, <1>5, <1>6 DEF d

\* Taking the first frame moves a later backlog forward, and its chain with it.
LEMMA ChainShifted ==
  ASSUME NEW c \in Seq(Frame), c # <<>>, NEW k \in 1 .. Len(c), NEW l \in Int
  PROVE  /\ Chained(c, k, l) => Chained(Tail(c), k - 1, l)
         /\ \A n \in Int : Covered(c, k, Len(c), l, n)
                             => Covered(Tail(c), k - 1, Len(Tail(c)), l, n)
         /\ \A n \in Int : Bounded(c, k, l, n) => Bounded(Tail(c), k - 1, l, n)
<1> DEFINE d == Tail(c)
<1>1. /\ Len(c) \in Nat /\ Len(d) = Len(c) - 1
      /\ \A i \in 1 .. Len(c) - 1 : d[i] = c[i + 1]
  BY PopIs
<1> HIDE DEF d
<1>2. \A m \in k .. Len(c), n \in Int : Covered(c, k, m, l, n) => Covered(d, k - 1, m - 1, l, n)
  <2>1. SUFFICES ASSUME NEW m \in k .. Len(c), NEW n \in Int, ~(n <= l),
                        NEW i \in k + 1 .. m, c[i].kind = "event" /\ c[i].last = n
                 PROVE  \E h \in (k - 1) + 1 .. m - 1 : d[h].kind = "event" /\ d[h].last = n
    BY DEF Covered
  <2>2. i - 1 \in (k - 1) + 1 .. m - 1 /\ i - 1 \in 1 .. Len(c) - 1 /\ (i - 1) + 1 = i
    BY <1>1
  <2>3. d[i - 1] = c[i]
    BY <1>1, <2>2
  <2>4. QED BY <2>1, <2>2, <2>3
<1>3. ASSUME Chained(c, k, l) PROVE Chained(d, k - 1, l)
  <2>1. SUFFICES ASSUME NEW j \in (k - 1) + 1 .. Len(d), d[j].kind = "event"
                 PROVE  Covered(d, k - 1, j - 1, l, d[j].last - 1)
    BY DEF Chained
  <2>2. /\ j + 1 \in k + 1 .. Len(c) /\ j \in 1 .. Len(c) - 1 /\ j \in k .. Len(c)
        /\ (j + 1) - 1 = j /\ j + 1 \in 1 .. Len(c)
    BY <1>1
  <2>3. d[j] = c[j + 1] /\ c[j + 1] \in Frame
    BY <1>1, <2>2
  <2>4. Covered(c, k, j, l, c[j + 1].last - 1)
    BY <1>3, <2>1, <2>2, <2>3 DEF Chained
  <2>5. c[j + 1].last - 1 \in Int
    BY <2>3 DEF Frame
  <2>6. QED BY <1>2, <2>2, <2>3, <2>4, <2>5
<1>4. \A n \in Int : Bounded(c, k, l, n) => Bounded(d, k - 1, l, n)
  BY <1>1 DEF Bounded
<1>5. \A n \in Int : Covered(c, k, Len(c), l, n) => Covered(d, k - 1, Len(d), l, n)
  BY <1>1, <1>2
<1>6. QED BY <1>3, <1>4, <1>5 DEF d

\* Taking the first frame keeps the chain of a browser that shows it, or had it shown before.
LEMMA ChainPopped ==
  ASSUME NEW c \in Seq(Frame), c # <<>>, NEW l \in Int, NEW m \in Int, l <= m,
         c[1].kind = "event" => c[1].last <= m
  PROVE  /\ Chained(c, 0, l) => Chained(Tail(c), 0, m)
         /\ \A n \in Int : Covered(c, 0, Len(c), l, n) => Covered(Tail(c), 0, Len(Tail(c)), m, n)
         /\ \A n \in Int : Bounded(c, 0, l, n) /\ m < n => Bounded(Tail(c), 0, m, n)
<1> DEFINE d == Tail(c)
<1>1. /\ Len(c) \in Nat /\ Len(d) = Len(c) - 1
      /\ \A i \in 1 .. Len(c) - 1 : d[i] = c[i + 1]
  BY PopIs
<1> HIDE DEF d
<1>2. \A u \in 1 .. Len(c), n \in Int : Covered(c, 0, u, l, n) => Covered(d, 0, u - 1, m, n)
  <2>1. SUFFICES ASSUME NEW u \in 1 .. Len(c), NEW n \in Int, ~(n <= m),
                        NEW i \in 0 + 1 .. u, c[i].kind = "event" /\ c[i].last = n
                 PROVE  \E h \in 0 + 1 .. u - 1 : d[h].kind = "event" /\ d[h].last = n
    BY DEF Covered
  <2>2. i # 1
    BY <2>1
  <2>3. i - 1 \in 0 + 1 .. u - 1 /\ i - 1 \in 1 .. Len(c) - 1 /\ (i - 1) + 1 = i
    BY <1>1, <2>2
  <2>4. d[i - 1] = c[i]
    BY <1>1, <2>3
  <2>5. QED BY <2>1, <2>3, <2>4
<1>3. ASSUME Chained(c, 0, l) PROVE Chained(d, 0, m)
  <2>1. SUFFICES ASSUME NEW j \in 0 + 1 .. Len(d), d[j].kind = "event"
                 PROVE  Covered(d, 0, j - 1, m, d[j].last - 1)
    BY DEF Chained
  <2>2. /\ j + 1 \in 0 + 1 .. Len(c) /\ j \in 1 .. Len(c) - 1 /\ j \in 1 .. Len(c)
        /\ (j + 1) - 1 = j /\ j + 1 \in 1 .. Len(c)
    BY <1>1
  <2>3. d[j] = c[j + 1] /\ c[j + 1] \in Frame
    BY <1>1, <2>2
  <2>4. Covered(c, 0, j, l, c[j + 1].last - 1)
    BY <1>3, <2>1, <2>2, <2>3 DEF Chained
  <2>5. c[j + 1].last - 1 \in Int
    BY <2>3 DEF Frame
  <2>6. QED BY <1>2, <2>2, <2>3, <2>4, <2>5
<1>4. \A n \in Int : Bounded(c, 0, l, n) /\ m < n => Bounded(d, 0, m, n)
  BY <1>1 DEF Bounded
<1>5. \A n \in Int : Covered(c, 0, Len(c), l, n) => Covered(d, 0, Len(d), m, n)
  <2>1. Len(c) \in 1 .. Len(c)
    BY PopIs
  <2>2. QED BY <1>1, <1>2, <2>1
<1>6. QED BY <1>3, <1>4, <1>5 DEF d

-----------------------------------------------------------------------------
(* Types, broadcasts and sockets *)

\* Every step of the feed is a step of the connection set, or leaves it alone.
LEMMA FeedConnects == [FeedNext]_feedVars => [ConnNext]_connVars
<1> SUFFICES ASSUME [FeedNext]_feedVars PROVE [ConnNext]_connVars
  OBVIOUS
<1>1. ASSUME NEW n \in 0 .. 2, Poll(n) PROVE [ConnNext]_connVars
  BY <1>1 DEF Poll, ConnNext
<1>2. ASSUME NEW s \in Socket,
             \/ SendOne(s) \/ SendTimesOut(s) \/ CloseOne(s)
             \/ Admit(s) \/ Reject(s) \/ SendSnapshot(s) \/ SendBacklog(s) \/ Recheck(s)
             \/ Depart(s) \/ HangUp(s)
      PROVE  [ConnNext]_connVars
  <2>1. More \in BOOLEAN
    BY DEF More
  <2>2. QED
    BY <1>2, <2>1 DEF SendOne, SendTimesOut, CloseOne, Admit, Reject, SendSnapshot,
       SendBacklog, Recheck, Depart, HangUp, ConnNext
<1>3. CASE FinishCast
  <2>1. More \in BOOLEAN
    BY DEF More
  <2>2. QED BY <1>3, <2>1 DEF FinishCast, ConnNext
<1>4. ASSUME NEW b \in Client,
             \/ \E s \in Socket : Connect(b, s)
             \/ Deliver(b) \/ SeeClose(b) \/ LoseSocket(b)
      PROVE  [ConnNext]_connVars
  BY <1>4 DEF Connect, Deliver, SeeClose, LoseSocket, ConnNext
<1>5. CASE Stop \/ Restart
  BY <1>5 DEF Stop, Restart, ConnNext
<1>6. CASE UNCHANGED feedVars
  BY <1>6 DEF feedVars
<1>7. QED BY <1>1, <1>2, <1>3, <1>4, <1>5, <1>6 DEF FeedNext

\* The feed implements the connection set: whatever the ring, the loop and the browsers do,
\* handlers, broadcasts and the gauge behave as in LiveConnections (websocket_endpoint,
\* WebSocketConnections.broadcast).
THEOREM FeedRunsOnConnections == FeedSpec => ConnSpec
<1>1. FeedInit => ConnInit
  BY DEF FeedInit
<1>2. QED BY <1>1, FeedConnects, PTL DEF FeedSpec, ConnSpec

\* Every step of the connection set keeps what CastInv says of the broadcast.
LEMMA CastInvStep ==
  ASSUME ConnTypeOK, CastInv, [ConnNext]_connVars PROVE CastInv'
<1>1. NoGhosts'
  BY GhostStep DEF CastInv
<1> USE DEF ConnTypeOK, CastInv, Quiet, Serving
<1>2. /\ connections \subseteq Socket
      /\ Cast(connections).waiting = connections /\ Cast(connections).failed = {}
      /\ Cast(connections).at # "closing"
      /\ Cast(connections).at = "quiet" => Cast(connections) = Quiet
  BY DEF Cast
<1>3. ASSUME NEW s \in Socket, Handshake(s) \/ Refuse(s) \/ Join(s) \/ Advance(s) \/ Leave(s)
      PROVE  CastInv'
  <2>1. cast' = cast /\ up' = up
    BY <1>3 DEF Handshake, Refuse, Join, Advance, Leave
  <2>2. \A t \in Socket : handler'[t] \in {"free", "handshake"}
                          => handler[t] \in {"free", "handshake"}
    BY <1>3 DEF Handshake, Refuse, Join, Advance, Leave
  <2>3. connections' \subseteq connections \/ (Join(s) /\ connections' = connections \cup {s})
    BY <1>3 DEF Handshake, Refuse, Join, Advance, Leave
  <2>4. ~up => connections' = {} /\ \A t \in Socket : handler'[t] \in {"free", "done"}
    BY <1>3 DEF Handshake, Refuse, Join, Advance, Leave
  <2>5. Join(s) => handler[s] = "handshake" /\ handler'[s] = "snapshot"
    BY DEF Join
  <2>6. QED
    BY <1>1, <2>1, <2>2, <2>3, <2>4, <2>5
<1>4. ASSUME NEW s \in Socket, Sent(s) \/ SendFailed(s) PROVE CastInv'
  <2>1. /\ cast'.at = cast.at /\ cast'.waiting = cast.waiting \ {s} /\ s \in cast.waiting
        /\ cast'.failed \in {cast.failed, cast.failed \cup {s}}
        /\ UNCHANGED <<up, connections, handler>>
    BY <1>4 DEF Sent, SendFailed
  <2>2. cast # Quiet /\ cast.at \notin {"quiet", "closing"}
    BY <2>1
  <2>3. cast'.waiting \cap cast'.failed = {}
    BY <2>1
  <2>4. \A t \in cast'.waiting \cup cast'.failed \cup connections' :
          handler'[t] \notin {"free", "handshake"}
    BY <2>1
  <2>5. up
    BY <2>2
  <2>6. QED BY <1>1, <2>1, <2>2, <2>3, <2>4, <2>5
<1>5. ASSUME NEW s \in Socket, NEW more \in BOOLEAN, CloseFailed(s, more) PROVE CastInv'
  BY <1>1, <1>2, <1>5 DEF CloseFailed
<1>6. CASE StartCast
  BY <1>1, <1>2, <1>6 DEF StartCast
<1>7. ASSUME NEW more \in BOOLEAN, EndCast(more) PROVE CastInv'
  <2>1. CASE cast.failed = {}
    BY <1>1, <1>2, <1>7, <2>1 DEF EndCast
  <2>2. CASE cast.failed # {}
    BY <1>1, <1>7, <2>2 DEF EndCast
  <2>3. QED BY <2>1, <2>2
<1>8. CASE Shutdown
  BY <1>1, <1>8 DEF Shutdown
<1>9. CASE Boot
  BY <1>1, <1>9 DEF Boot
<1>10. CASE UNCHANGED connVars
  BY <1>1, <1>10 DEF connVars
<1>11. QED
  BY <1>3, <1>4, <1>5, <1>6, <1>7, <1>8, <1>9, <1>10 DEF ConnNext

\* What is sent is a frame.
LEMMA FramesAre ==
  /\ \A n \in Nat : Metrics(n) \in Frame
  /\ \A i \in Nat \ {0} : Event(i) \in Frame
  /\ nextId \in Nat \ {0} => Backlog \in Frame
<1>1. \A n \in Nat : Metrics(n) \in Frame
  BY DEF Metrics, Frame
<1>2. \A i \in Nat \ {0} : Event(i) \in Frame
  BY DEF Event, Frame
<1>3. nextId \in Nat \ {0} => Backlog \in Frame
  <2>1. SUFFICES ASSUME nextId \in Nat \ {0} PROVE Backlog \in Frame
    OBVIOUS
  <2>2. Capacity \in Nat \ {0}
    BY FeedAssumption
  <2>3. CASE nextId > Capacity
    BY <2>1, <2>2, <2>3 DEF Backlog, Frame
  <2>4. CASE ~(nextId > Capacity)
    BY <2>1, <2>2, <2>4 DEF Backlog, Frame
  <2>5. QED BY <2>3, <2>4
<1>4. QED BY <1>1, <1>2, <1>3

\* Sending a frame keeps the type of the channels and touches no other.
LEMMA PushTypes ==
  ASSUME FeedTypes, NEW s \in Socket, NEW f \in Frame, Push(s, f)
  PROVE  /\ chan' \in [Socket -> Seq(Frame)]
         /\ chan'[s] = Append(chan[s], f)
         /\ \A t \in Socket \ {s} : chan'[t] = chan[t]
<1>1. chan[s] \in Seq(Frame) /\ chan' = [chan EXCEPT ![s] = Append(@, f)]
  BY DEF FeedTypes, Push
<1>2. Append(chan[s], f) \in Seq(Frame)
  BY <1>1, PushIs
<1>3. QED BY <1>1, <1>2 DEF FeedTypes

\* What follows one frame.
LEMMA ConcatIs ==
  ASSUME NEW a \in Seq(Frame), NEW b \in Seq(Frame), Len(a) = 1
  PROVE  /\ a \o b \in Seq(Frame) /\ Len(a \o b) = Len(b) + 1 /\ (a \o b)[1] = a[1]
         /\ \A i \in 2 .. Len(b) + 1 : (a \o b)[i] = b[i - 1]
<1> DEFINE c == a \o b
<1>1. /\ c \in Seq(Frame) /\ Len(c) = Len(a) + Len(b)
      /\ \A i \in 1 .. Len(a) + Len(b) : c[i] = IF i <= Len(a) THEN a[i] ELSE b[i - Len(a)]
  BY ConcatProperties
<1>2. Len(b) \in Nat
  OBVIOUS
<1> HIDE DEF c
<1>3. QED BY <1>1, <1>2 DEF c

\* The messages of a poll: the reading, then its events (collect_metrics_loop).
LEMMA BatchIs ==
  ASSUME FeedTypes, NEW n \in 0 .. 2
  PROVE  LET q == <<Metrics(polls + 1)>> \o [i \in 1 .. n |-> Event(nextId + i - 1)]
         IN  /\ q \in Seq(Frame) /\ Len(q) = n + 1 /\ q[1] = Metrics(polls + 1)
             /\ \A i \in 2 .. n + 1 : q[i] = Event(nextId + i - 2)
<1> DEFINE e == [i \in 1 .. n |-> Event(nextId + i - 1)]
           m == <<Metrics(polls + 1)>>
<1>1. \A i \in 1 .. n : nextId + i - 1 \in Nat \ {0}
  BY DEF FeedTypes
<1>2. e \in Seq(Frame) /\ Len(e) = n
  BY <1>1, FramesAre
<1>3. m \in Seq(Frame) /\ Len(m) = 1 /\ m[1] = Metrics(polls + 1)
  BY FramesAre DEF FeedTypes
<1>4. /\ m \o e \in Seq(Frame) /\ Len(m \o e) = n + 1 /\ (m \o e)[1] = m[1]
      /\ \A i \in 2 .. n + 1 : (m \o e)[i] = e[i - 1]
  <2> HIDE DEF m, e
  <2>1. QED BY <1>2, <1>3, ConcatIs
<1>5. \A i \in 2 .. n + 1 : e[i - 1] = Event(nextId + i - 2)
  <2>1. SUFFICES ASSUME NEW i \in 2 .. n + 1 PROVE e[i - 1] = Event(nextId + i - 2)
    OBVIOUS
  <2>2. i - 1 \in 1 .. n /\ nextId + (i - 1) - 1 = nextId + i - 2
    BY DEF FeedTypes
  <2>3. QED BY <2>2
<1>6. QED BY <1>3, <1>4, <1>5

\* While a broadcast is under way, there is a message.
LEMMA HeadIs ==
  ASSUME FeedTypes, CastInv, QueueInv, cast # Quiet
  PROVE  queue # <<>> /\ Head(queue) = queue[1] /\ queue[1] \in Frame
<1>1. queue # <<>> /\ queue \in Seq(Frame)
  BY DEF CastInv, QueueInv, FeedTypes
<1>2. QED BY <1>1, PopIs

\* What is sent is the message being broadcast.
LEMMA SendPushes ==
  ASSUME FeedTypes, CastInv, QueueInv, NEW s \in Socket, s \in cast.waiting
  PROVE  cast # Quiet /\ Head(queue) = queue[1] /\ queue[1] \in Frame
<1>1. cast # Quiet
  BY DEF Quiet
<1>2. QED BY <1>1, HeadIs

\* Every step keeps the types.
LEMMA FeedTypesStep ==
  ASSUME FeedTypes, CastInv, QueueInv, [FeedNext]_feedVars PROVE FeedTypes'
<1>1. ConnTypeOK'
  BY ConnTypeStep, FeedConnects DEF FeedTypes
<1> USE DEF FeedTypes
<1>2. ASSUME NEW n \in 0 .. 2, Poll(n) PROVE FeedTypes'
  <2>1. nextId + n \in Nat \ {0} /\ polls + 1 \in Nat
    OBVIOUS
  <2>2. queue' \in Seq(Frame)
    <3>1. \/ queue' = queue
          \/ queue' = <<Metrics(polls + 1)>> \o [i \in 1 .. n |-> Event(nextId + i - 1)]
      BY <1>2 DEF Poll
    <3>2. QED BY <3>1, BatchIs
  <2>3. QED BY <1>1, <1>2, <2>1, <2>2 DEF Poll, browserVars
<1>3. ASSUME NEW s \in Socket, SendOne(s) \/ SendTimesOut(s) PROVE FeedTypes'
  <2>1. s \in cast.waiting
    BY <1>3 DEF SendOne, SendTimesOut, Sent, SendFailed
  <2>2. chan' = chan \/ Push(s, queue[1])
    BY <1>3, <2>1, SendPushes DEF SendOne, SendTimesOut
  <2>3. chan' \in [Socket -> Seq(Frame)]
    BY <2>1, <2>2, SendPushes, PushTypes
  <2>4. UNCHANGED <<ringVars, queue, wire, browserVars>>
    BY <1>3 DEF SendOne, SendTimesOut
  <2>5. QED BY <1>1, <2>3, <2>4 DEF ringVars, browserVars
<1>4. ASSUME NEW s \in Socket, CloseOne(s) PROVE FeedTypes'
  <2>1. queue' = queue \/ queue' = <<>> \/ (queue' = Tail(queue) /\ cast # Quiet)
    BY <1>4 DEF CloseOne, NextMessage, CloseFailed, Quiet
  <2>2. queue' \in Seq(Frame)
    <3>1. cast # Quiet => Tail(queue) \in Seq(Frame)
      BY HeadIs, PopIs
    <3>2. queue \in Seq(Frame) /\ <<>> \in Seq(Frame)
      OBVIOUS
    <3>3. QED BY ONLY <2>1, <3>1, <3>2
  <2>3. wire' \in [Socket -> {"none", "open", "closed"}]
    BY <1>4 DEF CloseOne
  <2>4. UNCHANGED <<ringVars, chan, browserVars>>
    BY <1>4 DEF CloseOne
  <2>5. QED BY <1>1, <2>2, <2>3, <2>4 DEF ringVars, browserVars
<1>5. ASSUME NEW s \in Socket, Admit(s) \/ Reject(s) \/ Recheck(s) \/ Depart(s) \/ HangUp(s)
      PROVE  FeedTypes'
  <2>1. wire' \in [Socket -> {"none", "open", "closed"}]
    BY <1>5 DEF Admit, Reject, Recheck, Depart, HangUp
  <2>2. UNCHANGED <<ringVars, queue, chan, browserVars>>
    BY <1>5 DEF Admit, Reject, Recheck, Depart, HangUp
  <2>3. QED BY <1>1, <2>1, <2>2 DEF ringVars, browserVars
<1>6. ASSUME NEW s \in Socket, SendSnapshot(s) \/ SendBacklog(s) PROVE FeedTypes'
  <2>1. chan' = chan \/ Push(s, Metrics(latest)) \/ Push(s, Backlog)
    BY <1>6 DEF SendSnapshot, SendBacklog
  <2>2. chan' \in [Socket -> Seq(Frame)]
    BY <2>1, FramesAre, PushTypes
  <2>3. UNCHANGED <<ringVars, queue, wire, browserVars>>
    BY <1>6 DEF SendSnapshot, SendBacklog
  <2>4. QED BY <1>1, <2>2, <2>3 DEF ringVars, browserVars
<1>7. ASSUME NEW b \in Client, NEW s \in Socket, Connect(b, s) PROVE FeedTypes'
  BY <1>1, <1>7 DEF Connect, ringVars
<1>8. ASSUME NEW b \in Client, Deliver(b) PROVE FeedTypes'
  <2> DEFINE s == current[b]
  <2>1. /\ s \in Socket /\ chan[s] # <<>> /\ chan[s] \in Seq(Frame)
        /\ chan' = [chan EXCEPT ![s] = Tail(@)]
    BY <1>8 DEF Deliver
  <2>2. Tail(chan[s]) \in Seq(Frame) /\ Head(chan[s]) \in Frame
    BY <2>1, PopIs
  <2> DEFINE f == Head(chan[s])
  <2>3. chan' \in [Socket -> Seq(Frame)]
    BY <2>1, <2>2
  <2>4. f.first \in Nat /\ f.last \in Nat
    BY <2>2 DEF Frame
  <2>5. Ids(f.first, f.last) \in Seq(Nat) \/ f.kind # "backlog"
    <3>1. SUFFICES ASSUME f.kind = "backlog" PROVE Ids(f.first, f.last) \in Seq(Nat)
      OBVIOUS
    <3>2. f.first > 0 /\ f.last - f.first + 1 \in Nat
      BY <2>2, <3>1 DEF Frame
    <3>3. \A i \in 1 .. f.last - f.first + 1 : f.first + i - 1 \in Nat
      BY ONLY <2>4, <3>2
    <3>4. Ids(f.first, f.last) = [i \in 1 .. f.last - f.first + 1 |-> f.first + i - 1]
      BY DEF Ids
    <3>5. QED BY ONLY <3>2, <3>3, <3>4
  <2>6. ShowReading(b, f) \/ ShowEvent(b, f) \/ ShowBacklog(b, f)
    BY <1>8 DEF Deliver
  <2>7. UNCHANGED <<connVars, ringVars, queue, wire, current>>
    BY <1>8 DEF Deliver
  <2> HIDE DEF f, s
  <2>8. /\ log' \in [Client -> Seq(Nat)] /\ lastId' \in [Client -> Nat]
        /\ settled' \in [Client -> BOOLEAN] /\ reading' \in [Client -> Nat]
    <3>1. CASE ShowReading(b, f)
      BY <2>4, <3>1 DEF ShowReading
    <3>2. CASE ShowEvent(b, f)
      <4>1. log[b] \in Seq(Nat) /\ Append(log[b], f.last) \in Seq(Nat)
        BY <2>4
      <4>2. log' = log \/ log' = [log EXCEPT ![b] = Append(@, f.last)]
        BY <3>2 DEF ShowEvent
      <4>3. lastId' = lastId \/ lastId' = [lastId EXCEPT ![b] = f.last]
        BY <3>2 DEF ShowEvent
      <4>4. UNCHANGED <<settled, reading>>
        BY <3>2 DEF ShowEvent
      <4>5. QED BY <2>4, <4>1, <4>2, <4>3, <4>4
    <3>3. CASE ShowBacklog(b, f)
      BY <2>4, <2>5, <3>3 DEF ShowBacklog
    <3>4. QED BY <2>6, <3>1, <3>2, <3>3
  <2>9. QED BY <1>1, <2>3, <2>7, <2>8 DEF ringVars
<1>9. ASSUME NEW b \in Client, SeeClose(b) \/ LoseSocket(b) PROVE FeedTypes'
  <2>1. CASE SeeClose(b)
    BY <1>1, <2>1 DEF SeeClose, ringVars
  <2>2. CASE LoseSocket(b)
    BY <1>1, <2>2 DEF LoseSocket, ringVars
  <2>3. QED BY <1>9, <2>1, <2>2
<1>10. CASE Stop
  BY <1>1, <1>10 DEF Stop, ringVars, browserVars
<1>11. CASE Restart
  BY <1>1, <1>11 DEF Restart, browserVars
<1>12. CASE UNCHANGED feedVars
  BY <1>1, <1>12 DEF feedVars
<1>13. CASE FinishCast
  <2>1. queue' = queue \/ queue' = <<>> \/ (queue' = Tail(queue) /\ cast # Quiet)
    BY <1>13 DEF FinishCast, NextMessage, EndCast, Quiet
  <2>2. queue' \in Seq(Frame)
    <3>1. cast # Quiet => Tail(queue) \in Seq(Frame)
      BY HeadIs, PopIs
    <3>2. queue \in Seq(Frame) /\ <<>> \in Seq(Frame)
      OBVIOUS
    <3>3. QED BY ONLY <2>1, <3>1, <3>2
  <2>3. QED BY <1>1, <1>13, <2>2 DEF FinishCast, ringVars, browserVars
<1>14. QED
  BY <1>2, <1>3, <1>4, <1>5, <1>6, <1>7, <1>8, <1>9, <1>10, <1>11, <1>12, <1>13 DEF FeedNext

\* Taking up the next message leaves the newest events.
LEMMA QueueShrinks ==
  ASSUME FeedTypes, QueueInv, queue # <<>>, queue' = Tail(queue), UNCHANGED <<nextId, polls>>
  PROVE  /\ Len(queue') = Len(queue) - 1 /\ Len(queue) \in Nat \ {0}
         /\ Len(queue') <= nextId'
         /\ \A i \in 1 .. Len(queue') :
              /\ queue'[i].kind = "event"
              /\ queue'[i].last = nextId' - 1 - Len(queue') + i
<1>1. queue \in Seq(Frame) /\ nextId \in Nat
  BY DEF FeedTypes
<1>2. /\ Len(queue') = Len(queue) - 1 /\ Len(queue) \in Nat \ {0}
      /\ \A i \in 1 .. Len(queue) - 1 : queue'[i] = queue[i + 1]
  BY <1>1, PopIs
<1>3. ASSUME NEW i \in 1 .. Len(queue')
      PROVE  /\ queue'[i].kind = "event"
             /\ queue'[i].last = nextId' - 1 - Len(queue') + i
  <2>1. i + 1 \in 1 .. Len(queue) /\ i + 1 > 1 /\ queue'[i] = queue[i + 1]
    BY <1>2
  <2>2. queue'[i].kind = "event" /\ queue'[i].last = nextId - 1 - Len(queue) + (i + 1)
    BY <2>1 DEF QueueInv
  <2>3. nextId - 1 - Len(queue) + (i + 1) = nextId - 1 - (Len(queue) - 1) + i
    BY <1>1, <1>2
  <2>4. QED BY <1>2, <2>2, <2>3
<1>4. Len(queue) <= nextId
  BY DEF QueueInv
<1>5. QED BY <1>1, <1>2, <1>3, <1>4

\* A broadcast that ends goes on to the next message, or drops what is left for an empty set.
LEMMA NextMessageIs ==
  ASSUME FeedTypes, CastInv, QueueInv, cast # Quiet, NextMessage,
         cast' = IF More THEN Cast(connections') ELSE Quiet
  PROVE  /\ cast'.at = "quiet" <=> queue' = <<>>
         /\ queue' # <<>> => queue' = Tail(queue) /\ cast' = Cast(connections')
         /\ queue' = <<>> => cast' = Quiet /\ (connections' = {} \/ Len(queue) = 1)
<1>1. queue # <<>> /\ queue \in Seq(Frame)
  BY HeadIs DEF FeedTypes
<1>2. Len(Tail(queue)) = Len(queue) - 1 /\ Len(queue) \in Nat \ {0} /\ Tail(queue) \in Seq(Frame)
  BY <1>1, PopIs
<1>3. Tail(queue) = <<>> <=> Len(queue) = 1
  <2>1. Tail(queue) = <<>> <=> Len(Tail(queue)) = 0
    BY ONLY <1>2, EmptyIs
  <2>2. QED BY ONLY <1>2, <2>1
<1>4. More <=> Len(queue) # 1
  <2>1. \A n \in Nat \ {0} : n > 1 <=> n # 1
    OBVIOUS
  <2>2. QED BY <1>2, <2>1, Zenon DEF More
<1>5. connections' = {} => queue' = <<>> /\ cast' = Quiet
  BY DEF NextMessage, Cast
<1>6. connections' # {} => queue' = Tail(queue) /\ Cast(connections').at = "sending"
  BY DEF NextMessage, Cast
<1>7. Quiet.at = "quiet"
  BY DEF Quiet
<1>8. QED BY <1>3, <1>4, <1>5, <1>6, <1>7

\* Every step keeps what QueueInv says of the messages.
LEMMA QueueInvStep ==
  ASSUME FeedTypes, CastInv, QueueInv, [FeedNext]_feedVars PROVE QueueInv'
<1>1. ASSUME NEW n \in 0 .. 2, Poll(n) PROVE QueueInv'
  <2>1. cast = Quiet /\ queue = <<>> /\ Quiet.at = "quiet"
    BY <1>1 DEF Poll, QueueInv, Quiet
  <2>2. nextId' = nextId + n /\ polls' = polls + 1 /\ nextId \in Nat \ {0} /\ polls \in Nat
    BY <1>1 DEF Poll, FeedTypes
  <2>3. CASE connections = {}
    <3>1. queue' = <<>> /\ cast' = cast
      BY <1>1, <2>1, <2>3 DEF Poll, connVars
    <3>2. Len(queue') = 0
      BY <3>1
    <3>3. QED BY <2>1, <2>2, <3>1, <3>2 DEF QueueInv
  <2>4. CASE connections # {}
    <3>1. /\ cast' = Cast(connections)
          /\ queue' = <<Metrics(polls + 1)>> \o [i \in 1 .. n |-> Event(nextId + i - 1)]
      BY <1>1, <2>4 DEF Poll, StartCast
    <3>2. /\ Len(queue') = n + 1 /\ queue'[1] = Metrics(polls + 1)
          /\ \A i \in 2 .. n + 1 : queue'[i] = Event(nextId + i - 2)
      BY <3>1, BatchIs
    <3>3. cast'.at = "sending" /\ queue' # <<>>
      BY <2>4, <3>1, <3>2 DEF Cast
    <3>4. ASSUME NEW i \in 1 .. Len(queue')
          PROVE  /\ queue'[i].kind \in {"metrics", "event"}
                 /\ i > 1 => queue'[i].kind = "event"
                 /\ queue'[i].kind = "event" => queue'[i].last = nextId' - 1 - Len(queue') + i
                 /\ queue'[i].kind = "metrics" => queue'[i].last = polls'
      <4>1. CASE i = 1
        BY <2>2, <3>2, <4>1 DEF Metrics
      <4>2. CASE i # 1
        <5>1. i \in 2 .. n + 1
          BY <3>2, <4>2
        <5>2. queue'[i].kind = "event" /\ queue'[i].last = nextId + i - 2
          <6>1. queue'[i] = Event(nextId + i - 2)
            BY <3>2, <5>1
          <6>2. QED BY ONLY <6>1 DEF Event
        <5>3. nextId + i - 2 = (nextId + n) - 1 - (n + 1) + i
          BY <2>2, <5>1
        <5>4. QED BY <2>2, <3>2, <5>2, <5>3
      <4>3. QED BY <4>1, <4>2
    <3>5. Len(queue') <= nextId'
      BY <2>2, <3>2
    <3>6. QED BY <3>3, <3>4, <3>5 DEF QueueInv
  <2>5. QED BY <2>3, <2>4
<1>2. ASSUME cast # Quiet, NextMessage, UNCHANGED <<nextId, polls>>,
             cast' = IF More THEN Cast(connections') ELSE Quiet
      PROVE  QueueInv'
  <2>1. /\ cast'.at = "quiet" <=> queue' = <<>>
        /\ queue' # <<>> => queue' = Tail(queue) /\ queue # <<>>
    BY <1>2, NextMessageIs, HeadIs
  <2>2. CASE queue' = <<>>
    <3>1. Len(queue') = 0 /\ nextId' \in Nat
      BY <1>2, <2>2 DEF FeedTypes
    <3>2. QED BY <2>1, <2>2, <3>1 DEF QueueInv
  <2>3. CASE queue' # <<>>
    BY <1>2, <2>1, <2>3, QueueShrinks DEF QueueInv
  <2>4. QED BY <2>2, <2>3
<1>3. ASSUME UNCHANGED <<queue, nextId, polls>>, cast'.at = "quiet" <=> cast.at = "quiet"
      PROVE  QueueInv'
  BY <1>3 DEF QueueInv
<1>4. CASE FinishCast
  <2>1. CASE cast.failed = {}
    <3>1. cast' = (IF More THEN Cast(connections) ELSE Quiet) /\ connections' = connections
          /\ cast # Quiet
      BY <1>4, <2>1 DEF FinishCast, EndCast, Quiet, CastInv
    <3>2. QED BY <1>2, <1>4, <2>1, <3>1 DEF FinishCast, ringVars
  <2>2. CASE cast.failed # {}
    <3>1. cast' = [cast EXCEPT !.at = "closing"] /\ cast.at = "sending"
      BY <1>4, <2>2 DEF FinishCast, EndCast
    <3>2. cast'.at = "closing"
      BY <3>1 DEF FeedTypes, ConnTypeOK
    <3>3. QED BY <1>3, <1>4, <2>2, <3>1, <3>2 DEF FinishCast, ringVars
  <2>3. QED BY <2>1, <2>2
<1>5. ASSUME NEW s \in Socket, CloseOne(s) PROVE QueueInv'
  <2>1. cast # Quiet /\ cast.at = "closing" /\ UNCHANGED <<nextId, polls, connections>>
    BY <1>5 DEF CloseOne, CloseFailed, Quiet, ringVars
  <2>2. CASE cast.failed = {s}
    BY <1>2, <1>5, <2>1, <2>2 DEF CloseOne, CloseFailed
  <2>3. CASE cast.failed # {s}
    <3>1. cast' = [cast EXCEPT !.failed = @ \ {s}] /\ queue' = queue
      BY <1>5, <2>3 DEF CloseOne, CloseFailed
    <3>2. cast'.at = cast.at
      BY <3>1 DEF FeedTypes, ConnTypeOK
    <3>3. QED BY <1>3, <2>1, <3>1, <3>2
  <2>4. QED BY <2>2, <2>3
<1>6. ASSUME NEW s \in Socket, SendOne(s) \/ SendTimesOut(s) PROVE QueueInv'
  <2>1. cast'.at = cast.at
    BY <1>6 DEF SendOne, SendTimesOut, Sent, SendFailed, FeedTypes, ConnTypeOK
  <2>2. UNCHANGED <<queue, nextId, polls>>
    BY <1>6 DEF SendOne, SendTimesOut, ringVars
  <2>3. QED BY <1>3, <2>1, <2>2
<1>7. ASSUME NEW s \in Socket,
             \/ Admit(s) \/ Reject(s) \/ SendSnapshot(s) \/ SendBacklog(s) \/ Recheck(s)
             \/ Depart(s) \/ HangUp(s)
      PROVE  QueueInv'
  <2>1. cast' = cast /\ UNCHANGED <<queue, nextId, polls>>
    BY <1>7 DEF Admit, Reject, SendSnapshot, SendBacklog, Recheck, Depart, HangUp,
       Join, Refuse, Advance, Leave, connVars, ringVars
  <2>2. QED BY <1>3, <2>1
<1>8. ASSUME NEW b \in Client,
             \/ \E s \in Socket : Connect(b, s)
             \/ Deliver(b) \/ SeeClose(b) \/ LoseSocket(b)
      PROVE  QueueInv'
  <2>1. cast' = cast /\ UNCHANGED <<queue, nextId, polls>>
    BY <1>8 DEF Connect, Deliver, SeeClose, LoseSocket, Handshake, connVars, ringVars
  <2>2. QED BY <1>3, <2>1
<1>9. ASSUME Stop \/ Restart PROVE QueueInv'
  <2>1. queue' = <<>> /\ cast' = Quiet /\ Quiet.at = "quiet" /\ nextId' \in Nat
    BY <1>9 DEF Stop, Restart, Shutdown, Boot, ringVars, CastInv, QueueInv, Quiet, FeedTypes
  <2>2. Len(queue') = 0
    BY <2>1
  <2>3. QED BY <2>1, <2>2 DEF QueueInv
<1>10. CASE UNCHANGED feedVars
  BY <1>3, <1>10 DEF feedVars, connVars
<1>11. QED
  BY <1>1, <1>4, <1>5, <1>6, <1>7, <1>8, <1>9, <1>10 DEF FeedNext

\* A second backlog is not sent while one is on its way.
LEMMA BacklogPushed ==
  ASSUME NEW c \in Seq(Frame), NEW f \in Frame
  PROVE  /\ HasBacklog(Append(c, f)) => HasBacklog(c) \/ f.kind = "backlog"
         /\ OneBacklog(c) /\ (f.kind = "backlog" => ~HasBacklog(c)) => OneBacklog(Append(c, f))
<1> DEFINE d == Append(c, f)
<1>1. /\ Len(c) \in Nat /\ Len(d) = Len(c) + 1 /\ d[Len(c) + 1] = f
      /\ \A i \in 1 .. Len(c) : d[i] = c[i]
  BY PushIs
<1> HIDE DEF d
<1>2. \A i \in 1 .. Len(d) : i \in 1 .. Len(c) \/ i = Len(c) + 1
  BY <1>1
<1>3. HasBacklog(d) => HasBacklog(c) \/ f.kind = "backlog"
  BY <1>1, <1>2 DEF HasBacklog
<1>4. ASSUME OneBacklog(c), f.kind = "backlog" => ~HasBacklog(c),
             NEW i \in 1 .. Len(d), NEW j \in 1 .. Len(d),
             d[i].kind = "backlog", d[j].kind = "backlog"
      PROVE  i = j
  BY <1>1, <1>2, <1>4 DEF OneBacklog, HasBacklog
<1>5. QED BY <1>3, <1>4 DEF OneBacklog, d

\* Once the backlog is handled, none is on its way.
LEMMA BacklogPopped ==
  ASSUME NEW c \in Seq(Frame), c # <<>>
  PROVE  /\ HasBacklog(Tail(c)) => HasBacklog(c)
         /\ OneBacklog(c) => /\ OneBacklog(Tail(c))
                             /\ Head(c).kind = "backlog" => ~HasBacklog(Tail(c))
<1> DEFINE d == Tail(c)
<1>1. /\ Len(c) \in Nat \ {0} /\ Len(d) = Len(c) - 1 /\ Head(c) = c[1]
      /\ \A i \in 1 .. Len(c) - 1 : d[i] = c[i + 1]
  BY PopIs
<1> HIDE DEF d
<1>2. \A i \in 1 .. Len(d) : i + 1 \in 1 .. Len(c) /\ i + 1 # 1 /\ d[i] = c[i + 1]
  BY <1>1
<1>3. HasBacklog(d) => HasBacklog(c)
  BY <1>2 DEF HasBacklog
<1>4. ASSUME OneBacklog(c), NEW i \in 1 .. Len(d), NEW j \in 1 .. Len(d),
             d[i].kind = "backlog", d[j].kind = "backlog"
      PROVE  i = j
  <2>1. i + 1 = j + 1
    BY <1>2, <1>4 DEF OneBacklog
  <2>2. QED BY <2>1
<1>5. ASSUME OneBacklog(c), Head(c).kind = "backlog" PROVE ~HasBacklog(d)
  <2>1. 1 \in 1 .. Len(c)
    BY <1>1
  <2>2. QED BY <1>1, <1>2, <1>5, <2>1 DEF OneBacklog, HasBacklog
<1>6. QED BY <1>3, <1>4, <1>5 DEF OneBacklog, d

\* A step that sends nothing keeps what SocketInv says, if handlers only go forward.
LEMMA SocketsKept ==
  ASSUME FeedTypes, SocketInv, UNCHANGED <<current, settled>>, chan' = chan,
         \A s \in Socket :
           /\ handler'[s] = "free" <=> handler[s] = "free"
           /\ wire'[s] = "none" <=> wire[s] = "none"
           /\ Past(s) => Past(s)'
           /\ handler'[s] = "handshake" => handler[s] = "handshake"
           /\ s \in connections' => s \in connections \/ handler[s] = "handshake"
           /\ wire'[s] # "open" =>
                wire[s] # "open" \/ (s \notin connections' /\ handler'[s] # "handshake")
  PROVE  SocketInv'
<1>1. ASSUME NEW s \in Socket
      PROVE  /\ handler'[s] = "free" <=> wire'[s] = "none"
             /\ handler'[s] = "free" => chan'[s] = <<>>
             /\ HasBacklog(chan'[s]) => Past(s)'
             /\ OneBacklog(chan'[s])
  BY DEF SocketInv
<1>2. ASSUME NEW b \in Client, current'[b] # NoSocket
      PROVE  /\ handler'[current'[b]] # "free"
             /\ \A c \in Client : current'[c] = current'[b] => c = b
             /\ wire'[current'[b]] # "open" =>
                  current'[b] \notin connections' /\ handler'[current'[b]] # "handshake"
             /\ settled'[b] => Past(current[b])' /\ ~HasBacklog(chan'[current'[b]])
  <2>1. current[b] \in Socket /\ current[b] # NoSocket
    BY <1>2 DEF FeedTypes
  <2>2. QED BY <1>2, <2>1 DEF SocketInv
<1>3. QED BY <1>1, <1>2 DEF SocketInv

\* So does a frame that is sent, if a backlog is sent by its handler once.
LEMMA SocketsPushed ==
  ASSUME FeedTypes, SocketInv, UNCHANGED <<current, settled, wire>>,
         NEW s \in Socket, NEW f \in Frame, Push(s, f), wire[s] = "open",
         f.kind = "backlog" => handler[s] = "backlog" /\ handler'[s] = "open",
         connections' \subseteq connections,
         \A t \in Socket : /\ handler'[t] = "free" <=> handler[t] = "free"
                           /\ Past(t) => Past(t)'
                           /\ handler'[t] = "handshake" => handler[t] = "handshake"
  PROVE  SocketInv'
<1>1. /\ chan'[s] = Append(chan[s], f) /\ chan[s] \in Seq(Frame)
      /\ \A t \in Socket \ {s} : chan'[t] = chan[t]
  BY PushTypes DEF FeedTypes
<1>2. f.kind = "backlog" => ~HasBacklog(chan[s]) /\ Past(s)'
                            /\ \A b \in Client : current[b] = s => ~settled[b]
  BY SocketAssumption, FeedAssumption DEF SocketInv, Past
<1>3. handler[s] # "free"
  BY DEF SocketInv
<1>4. ASSUME NEW t \in Socket
      PROVE  /\ handler'[t] = "free" <=> wire'[t] = "none"
             /\ handler'[t] = "free" => chan'[t] = <<>>
             /\ HasBacklog(chan'[t]) => Past(t)'
             /\ OneBacklog(chan'[t])
  <2>1. CASE t = s
    <3>1. HasBacklog(chan'[s]) => HasBacklog(chan[s]) \/ f.kind = "backlog"
      BY <1>1, BacklogPushed
    <3>2. OneBacklog(chan'[s])
      <4>1. OneBacklog(chan[s])
        BY DEF SocketInv
      <4>2. QED BY <1>1, <1>2, <4>1, BacklogPushed
    <3>3. QED BY <1>2, <1>3, <2>1, <3>1, <3>2 DEF SocketInv
  <2>2. CASE t # s
    BY <1>1, <2>2 DEF SocketInv
  <2>3. QED BY <2>1, <2>2
<1>5. ASSUME NEW b \in Client, current'[b] # NoSocket
      PROVE  /\ handler'[current'[b]] # "free"
             /\ \A c \in Client : current'[c] = current'[b] => c = b
             /\ wire'[current'[b]] # "open" =>
                  current'[b] \notin connections' /\ handler'[current'[b]] # "handshake"
             /\ settled'[b] => Past(current[b])' /\ ~HasBacklog(chan'[current'[b]])
  <2>1. current[b] \in Socket /\ current[b] # NoSocket
    BY <1>5 DEF FeedTypes
  <2>2. settled[b] => ~HasBacklog(chan'[current[b]])
    <3>1. SUFFICES ASSUME settled[b] PROVE ~HasBacklog(chan'[current[b]])
      OBVIOUS
    <3>2. ~HasBacklog(chan[current[b]])
      BY <2>1, <3>1 DEF SocketInv
    <3>3. CASE current[b] = s
      <4>1. HasBacklog(chan'[s]) => HasBacklog(chan[s]) \/ f.kind = "backlog"
        BY <1>1, BacklogPushed
      <4>2. QED BY <1>2, <3>1, <3>2, <3>3, <4>1
    <3>4. CASE current[b] # s
      BY <1>1, <2>1, <3>2, <3>4
    <3>5. QED BY <3>3, <3>4
  <2>3. QED BY <1>5, <2>1, <2>2 DEF SocketInv
<1>6. QED BY <1>4, <1>5 DEF SocketInv

\* Every step keeps what SocketInv says of the sockets.
LEMMA SocketInvStep ==
  ASSUME FeedTypes, CastInv, QueueInv, SocketInv, [FeedNext]_feedVars PROVE SocketInv'
<1> USE DEF FeedTypes, ConnTypeOK
<1>1. ASSUME UNCHANGED <<chan, current, settled>>, UNCHANGED <<connections, handler, wire>>
      PROVE  SocketInv'
  BY <1>1, SocketsKept DEF Past
<1>2. ASSUME NEW n \in 0 .. 2, Poll(n) PROVE SocketInv'
  BY <1>1, <1>2 DEF Poll, StartCast, connVars, browserVars
<1>3. ASSUME NEW s \in Socket, SendOne(s) \/ SendTimesOut(s) PROVE SocketInv'
  <2>1. s \in cast.waiting /\ UNCHANGED <<connections, handler, wire, current, settled>>
    BY <1>3 DEF SendOne, SendTimesOut, Sent, SendFailed, browserVars
  <2>2. Head(queue) = queue[1] /\ queue[1] \in Frame /\ queue[1].kind # "backlog"
    <3>1. Head(queue) = queue[1] /\ queue[1] \in Frame /\ queue # <<>>
      BY <2>1, SendPushes, HeadIs
    <3>2. 1 \in 1 .. Len(queue)
      BY <3>1, EmptyIs
    <3>3. QED BY <3>1, <3>2 DEF QueueInv
  <2>3. chan' = chan \/ (Push(s, queue[1]) /\ wire[s] = "open")
    BY <1>3, <2>2 DEF SendOne, SendTimesOut
  <2>4. CASE chan' = chan
    BY <1>1, <2>1, <2>4
  <2>5. CASE Push(s, queue[1]) /\ wire[s] = "open"
    BY <2>1, <2>2, <2>5, SocketsPushed DEF Past
  <2>6. QED BY <2>3, <2>4, <2>5
<1>4. ASSUME NEW s \in Socket, SendSnapshot(s) \/ SendBacklog(s) PROVE SocketInv'
  <2>1. /\ UNCHANGED <<connections, wire, current, settled>>
        /\ \/ handler[s] = "snapshot" /\ handler' = [handler EXCEPT ![s] = "backlog"]
           \/ handler[s] = "backlog" /\ handler' = [handler EXCEPT ![s] = "open"]
    <3>1. CASE SendSnapshot(s)
      BY <3>1 DEF SendSnapshot, Advance, browserVars
    <3>2. CASE SendBacklog(s)
      BY <3>2 DEF SendBacklog, Advance, browserVars
    <3>3. QED BY <1>4, <3>1, <3>2
  <2>2. \/ chan' = chan
        \/ Push(s, Metrics(latest)) /\ wire[s] = "open"
        \/ Push(s, Backlog) /\ wire[s] = "open" /\ handler[s] = "backlog"
    BY <1>4 DEF SendSnapshot, SendBacklog
  <2>3. \A t \in Socket : /\ handler'[t] = "free" <=> handler[t] = "free"
                          /\ Past(t) => Past(t)'
                          /\ handler'[t] = "handshake" => handler[t] = "handshake"
    BY <2>1 DEF Past
  <2>4. CASE chan' = chan
    BY <2>1, <2>3, <2>4, SocketsKept
  <2>5. CASE Push(s, Metrics(latest)) /\ wire[s] = "open"
    <3>1. Metrics(latest) \in Frame /\ Metrics(latest).kind # "backlog"
      BY FramesAre DEF Metrics
    <3>2. QED BY <2>1, <2>3, <2>5, <3>1, SocketsPushed
  <2>6. CASE Push(s, Backlog) /\ wire[s] = "open" /\ handler[s] = "backlog"
    <3>1. Backlog \in Frame /\ handler'[s] = "open"
      BY <2>1, <2>6, FramesAre
    <3>2. QED BY <2>1, <2>3, <2>6, <3>1, SocketsPushed
  <2>7. QED BY <2>2, <2>4, <2>5, <2>6
<1>5. CASE FinishCast
  <2>1. /\ UNCHANGED <<chan, current, settled, handler, wire>>
        /\ connections' \subseteq connections
    BY <1>5 DEF FinishCast, EndCast, browserVars
  <2>2. QED BY <2>1, SocketsKept DEF Past
<1>6. ASSUME NEW s \in Socket, CloseOne(s) PROVE SocketInv'
  <2>1. /\ UNCHANGED <<chan, current, settled, handler, connections>>
        /\ wire' = [wire EXCEPT ![s] = "closed"]
        /\ s \in cast.failed /\ cast.at = "closing"
    BY <1>6 DEF CloseOne, CloseFailed, browserVars
  <2>2. handler[s] \notin {"free", "handshake"} /\ s \notin connections
    BY <2>1 DEF CastInv
  <2>3. wire[s] # "none"
    BY <2>2 DEF SocketInv
  <2>4. QED BY <2>1, <2>2, <2>3, SocketsKept DEF Past
<1>7. ASSUME NEW s \in Socket, Admit(s) \/ Reject(s) \/ Recheck(s) \/ Depart(s) PROVE SocketInv'
  <2>1. UNCHANGED <<chan, current, settled, wire>>
    BY <1>7 DEF Admit, Reject, Recheck, Depart, browserVars
  <2>2. \A t \in Socket : /\ handler'[t] = "free" <=> handler[t] = "free"
                          /\ Past(t) => Past(t)'
                          /\ handler'[t] = "handshake" => handler[t] = "handshake"
                          /\ t \in connections' => t \in connections \/ handler[t] = "handshake"
    <3>1. CASE Admit(s)
      BY <3>1 DEF Admit, Join, Past
    <3>2. CASE Reject(s)
      BY <3>2 DEF Reject, Refuse, Past
    <3>3. CASE Recheck(s)
      BY <3>3 DEF Recheck, Advance, Past
    <3>4. CASE Depart(s)
      BY <3>4 DEF Depart, Leave, Past, Serving
    <3>5. QED BY <1>7, <3>1, <3>2, <3>3, <3>4
  <2>3. QED BY <2>1, <2>2, SocketsKept
<1>8. ASSUME NEW s \in Socket, HangUp(s) PROVE SocketInv'
  <2>1. /\ UNCHANGED <<chan, current, settled, handler, connections>>
        /\ wire' = [wire EXCEPT ![s] = "closed"] /\ handler[s] = "done" /\ wire[s] = "open"
    BY <1>8 DEF HangUp, connVars, browserVars
  <2>2. s \notin connections
    BY <2>1 DEF CastInv, NoGhosts, Serving
  <2>3. QED BY <2>1, <2>2, SocketsKept DEF Past
<1>9. CASE Stop
  <2>1. /\ UNCHANGED <<chan, current, settled>> /\ connections' = {}
        /\ handler' = [t \in Socket |-> IF handler[t] = "free" THEN "free" ELSE "done"]
        /\ wire' = [t \in Socket |-> IF wire[t] = "none" THEN "none" ELSE "closed"]
    BY <1>9 DEF Stop, Shutdown, browserVars
  <2>2. QED BY <2>1, SocketsKept DEF Past
<1>10. CASE Restart
  BY <1>1, <1>10 DEF Restart, Boot, browserVars
<1>11. CASE UNCHANGED feedVars
  BY <1>1, <1>11 DEF feedVars, connVars
<1>12. ASSUME NEW b \in Client, NEW s \in Socket, Connect(b, s) PROVE SocketInv'
  <2>1. /\ handler[s] = "free" /\ handler' = [handler EXCEPT ![s] = "handshake"]
        /\ UNCHANGED <<connections, chan>> /\ current[b] = NoSocket
        /\ current' = [current EXCEPT ![b] = s] /\ settled' = [settled EXCEPT ![b] = FALSE]
        /\ wire' = [wire EXCEPT ![s] = "open"]
    BY <1>12 DEF Connect, Handshake
  <2>2. \A c \in Client : current[c] # s
    BY <2>1, FeedAssumption DEF SocketInv
  <2>3. s # NoSocket
    BY FeedAssumption
  <2>4. ASSUME NEW t \in Socket
        PROVE  /\ handler'[t] = "free" <=> wire'[t] = "none"
               /\ handler'[t] = "free" => chan'[t] = <<>>
               /\ HasBacklog(chan'[t]) => Past(t)'
               /\ OneBacklog(chan'[t])
    <3>1. handler[s] = "free" => ~HasBacklog(chan[s])
      BY DEF SocketInv, Past
    <3>2. QED BY <2>1, <3>1 DEF SocketInv, Past
  <2>5. ASSUME NEW c \in Client, current'[c] # NoSocket
        PROVE  /\ handler'[current'[c]] # "free"
               /\ \A d \in Client : current'[d] = current'[c] => d = c
               /\ wire'[current'[c]] # "open" =>
                    current'[c] \notin connections' /\ handler'[current'[c]] # "handshake"
               /\ settled'[c] => Past(current[c])' /\ ~HasBacklog(chan'[current'[c]])
    <3>1. CASE c = b
      BY <2>1, <2>2, <3>1
    <3>2. CASE c # b
      <4>1. current'[c] = current[c] /\ settled'[c] = settled[c] /\ current[c] # s
            /\ current[c] \in Socket
        BY <2>1, <2>2, <2>5, <3>2
      <4>2. handler'[current[c]] = handler[current[c]] /\ wire'[current[c]] = wire[current[c]]
        BY <2>1, <4>1
      <4>3. \A d \in Client : current'[d] = current[c] => d = c
        BY <2>1, <2>5, <4>1 DEF SocketInv
      <4>4. QED BY <2>1, <2>5, <4>1, <4>2, <4>3 DEF SocketInv, Past
    <3>3. QED BY <3>1, <3>2
  <2>6. QED BY <2>4, <2>5 DEF SocketInv
<1>13. ASSUME NEW b \in Client, SeeClose(b) \/ LoseSocket(b) PROVE SocketInv'
  <2> DEFINE s == current[b]
  <2>1. /\ s \in Socket /\ current' = [current EXCEPT ![b] = NoSocket]
        /\ wire' = wire \/ wire' = [wire EXCEPT ![s] = "closed"]
        /\ chan' = chan \/ chan' = [chan EXCEPT ![s] = <<>>]
        /\ UNCHANGED <<connections, handler, settled>>
    BY <1>13 DEF SeeClose, LoseSocket, connVars
  <2>2. handler[s] # "free" /\ s # NoSocket /\ \A c \in Client : current[c] = s => c = b
    BY <2>1, FeedAssumption DEF SocketInv
  <2>3. ~HasBacklog(<<>>) /\ OneBacklog(<<>>)
    BY DEF HasBacklog, OneBacklog
  <2> HIDE DEF s
  <2>4. ASSUME NEW t \in Socket
        PROVE  /\ handler'[t] = "free" <=> wire'[t] = "none"
               /\ handler'[t] = "free" => chan'[t] = <<>>
               /\ HasBacklog(chan'[t]) => Past(t)'
               /\ OneBacklog(chan'[t])
    <3>1. CASE t = s
      <4>1. chan'[s] = chan[s] \/ chan'[s] = <<>>
        BY <2>1
      <4>2. wire'[s] = wire[s] \/ wire'[s] = "closed"
        BY <2>1
      <4>3. QED BY <2>1, <2>2, <2>3, <3>1, <4>1, <4>2 DEF SocketInv, Past
    <3>2. CASE t # s
      <4>1. chan'[t] = chan[t] /\ wire'[t] = wire[t]
        BY <2>1, <3>2
      <4>2. QED BY <2>1, <4>1 DEF SocketInv, Past
    <3>3. QED BY <3>1, <3>2
  <2>5. ASSUME NEW c \in Client, current'[c] # NoSocket
        PROVE  /\ handler'[current'[c]] # "free"
               /\ \A d \in Client : current'[d] = current'[c] => d = c
               /\ wire'[current'[c]] # "open" =>
                    current'[c] \notin connections' /\ handler'[current'[c]] # "handshake"
               /\ settled'[c] => Past(current[c])' /\ ~HasBacklog(chan'[current'[c]])
    <3>1. c # b /\ current'[c] = current[c] /\ current[c] # s /\ current[c] \in Socket
      BY <2>1, <2>2, <2>5 DEF s
    <3>2. wire'[current[c]] = wire[current[c]] /\ chan'[current[c]] = chan[current[c]]
      BY <2>1, <3>1
    <3>3. \A d \in Client : current'[d] = current[c] => d = c
      BY <2>1, <2>5, <3>1 DEF SocketInv
    <3>4. QED BY <2>1, <2>5, <3>1, <3>2, <3>3 DEF SocketInv, Past
  <2>6. QED BY <2>4, <2>5 DEF SocketInv
<1>14. ASSUME NEW b \in Client, Deliver(b) PROVE SocketInv'
  <2> DEFINE s == current[b]
             f == Head(chan[s])
  <2>1. /\ s \in Socket /\ s # NoSocket /\ chan[s] # <<>> /\ chan[s] \in Seq(Frame)
        /\ chan' = [chan EXCEPT ![s] = Tail(@)]
        /\ UNCHANGED <<connections, handler, wire, current>>
    BY <1>14, FeedAssumption DEF Deliver, connVars
  <2>2. /\ HasBacklog(Tail(chan[s])) => HasBacklog(chan[s])
        /\ OneBacklog(Tail(chan[s]))
        /\ f.kind = "backlog" => ~HasBacklog(Tail(chan[s])) /\ HasBacklog(chan[s])
    <3>1. OneBacklog(chan[s])
      BY <2>1 DEF SocketInv
    <3>2. f = chan[s][1] /\ 1 \in 1 .. Len(chan[s])
      BY <2>1, PopIs
    <3>3. f.kind = "backlog" => HasBacklog(chan[s])
      BY <3>2 DEF HasBacklog
    <3>4. QED BY <2>1, <3>1, <3>3, BacklogPopped
  <2>3. /\ \A c \in Client \ {b} : settled'[c] = settled[c]
        /\ settled'[b] = settled[b] \/ f.kind = "backlog"
    BY <1>14 DEF Deliver, ShowReading, ShowEvent, ShowBacklog
  <2>4. \A c \in Client : current[c] = s => c = b
    BY <2>1 DEF SocketInv
  <2>5. chan'[s] = Tail(chan[s]) /\ \A t \in Socket \ {s} : chan'[t] = chan[t]
    BY <2>1
  <2> HIDE DEF f, s
  <2>6. ASSUME NEW t \in Socket
        PROVE  /\ handler'[t] = "free" <=> wire'[t] = "none"
               /\ handler'[t] = "free" => chan'[t] = <<>>
               /\ HasBacklog(chan'[t]) => Past(t)'
               /\ OneBacklog(chan'[t])
    <3>1. handler[t] = "free" => t # s
      BY <2>1 DEF SocketInv
    <3>2. QED BY <2>1, <2>2, <2>5, <3>1 DEF SocketInv, Past
  <2>7. ASSUME NEW c \in Client, current'[c] # NoSocket
        PROVE  /\ handler'[current'[c]] # "free"
               /\ \A d \in Client : current'[d] = current'[c] => d = c
               /\ wire'[current'[c]] # "open" =>
                    current'[c] \notin connections' /\ handler'[current'[c]] # "handshake"
               /\ settled'[c] => Past(current[c])' /\ ~HasBacklog(chan'[current'[c]])
    <3>1. current[c] \in Socket /\ current'[c] = current[c]
      BY <2>1, <2>7
    <3>2. settled'[c] => Past(current[c])' /\ ~HasBacklog(chan'[current[c]])
      <4>1. CASE c = b
        <5>1. current[c] = s
          BY <4>1 DEF s
        <5>2. f.kind = "backlog" => Past(s)
          BY <2>1, <2>2 DEF SocketInv
        <5>3. settled[b] => Past(s) /\ ~HasBacklog(chan[s])
          BY <2>1 DEF SocketInv, s
        <5>4. QED BY <2>1, <2>2, <2>3, <2>5, <4>1, <5>1, <5>2, <5>3 DEF Past
      <4>2. CASE c # b
        <5>1. current[c] # s /\ settled'[c] = settled[c]
          BY <2>3, <2>4, <4>2
        <5>2. chan'[current[c]] = chan[current[c]]
          BY <2>5, <3>1, <5>1
        <5>3. settled[c] => Past(current[c]) /\ ~HasBacklog(chan[current[c]])
          BY <2>7, <3>1 DEF SocketInv
        <5>4. QED BY <2>1, <5>1, <5>2, <5>3 DEF Past
      <4>3. QED BY <4>1, <4>2
    <3>3. QED BY <2>1, <2>7, <3>1, <3>2 DEF SocketInv
  <2>8. QED BY <2>6, <2>7 DEF SocketInv
<1>15. QED
  BY <1>2, <1>3, <1>4, <1>5, <1>6, <1>7, <1>8, <1>9, <1>10, <1>11, <1>12, <1>13, <1>14
     DEF FeedNext

-----------------------------------------------------------------------------
(* The log *)

\* A step that touches neither frames nor logs keeps the chains, if the sockets served were
\* served before and the next event to come is the same.
LEMMA ChainsKept ==
  ASSUME FeedTypes, ChainInv, UNCHANGED <<chan, current, settled, log, lastId>>,
         \A s \in Socket :
           /\ HasBacklog(chan[s]) \/ \E b \in Client : current[b] = s /\ settled[b]
           /\ Served(s)'
           => Served(s) /\ Coming(s)' = Coming(s) /\ nextId' >= nextId,
         nextId' \in Nat
  PROVE  ChainInv'
<1> USE DEF FeedTypes
<1>1. ASSUME NEW s \in Socket, NEW k, NEW l, FollowsOn(s, k, l),
             k \in 0 .. Len(chan[s]), l \in Int,
             HasBacklog(chan[s]) \/ \E b \in Client : current[b] = s /\ settled[b]
      PROVE  FollowsOn(s, k, l)'
  <2>1. Chained(chan'[s], k, l)
    BY <1>1 DEF FollowsOn
  <2>2. ASSUME Served(s)'
        PROVE  /\ Covered(chan'[s], k, Len(chan'[s]), l, Coming(s)' - 1)
               /\ Bounded(chan'[s], k, l, nextId')
    <3>1. Served(s) /\ Coming(s)' = Coming(s) /\ nextId' >= nextId
      BY <1>1, <2>2
    <3>2. Covered(chan[s], k, Len(chan[s]), l, Coming(s) - 1) /\ Bounded(chan[s], k, l, nextId)
      BY <1>1, <3>1 DEF FollowsOn
    <3>3. \A j \in 1 .. Len(chan[s]) : chan[s][j].last \in Nat
      BY DEF Frame
    <3>4. Bounded(chan[s], k, l, nextId')
      BY <1>1, <3>1, <3>2, <3>3 DEF Bounded
    <3>5. QED BY <3>1, <3>2, <3>4
  <2>3. QED BY <2>1, <2>2 DEF FollowsOn
<1>2. ASSUME NEW s \in Socket, NEW k \in 1 .. Len(chan[s]), chan[s][k].kind = "backlog"
      PROVE  FollowsOn(s, k, chan[s][k].last)'
  <2>1. HasBacklog(chan[s]) /\ k \in 0 .. Len(chan[s])
    BY <1>2 DEF HasBacklog
  <2>2. chan[s][k].last \in Int
    BY DEF Frame
  <2>3. FollowsOn(s, k, chan[s][k].last)
    BY <1>2 DEF ChainInv
  <2> DEFINE l == chan[s][k].last
  <2>4. FollowsOn(s, k, l) /\ l \in Int /\ l' = l
    BY <2>2, <2>3
  <2> HIDE DEF l
  <2>5. FollowsOn(s, k, l)'
    BY <1>1, <2>1, <2>4
  <2>6. QED BY <2>5 DEF l
<1>3. ASSUME NEW b \in Client, Settled(b)' PROVE FollowsOn(current[b], 0, lastId[b])' /\ LogEnds(b)'
  <2>1. Settled(b) /\ current[b] \in Socket /\ settled[b]
    BY <1>3 DEF Settled
  <2>2. FollowsOn(current[b], 0, lastId[b]) /\ LogEnds(b)
    BY <2>1 DEF ChainInv
  <2>3. 0 \in 0 .. Len(chan[current[b]]) /\ lastId[b] \in Int
    BY <2>1, EmptyIs
  <2>4. LogEnds(b)'
    BY <2>2 DEF LogEnds
  <2>5. QED BY <1>1, <2>1, <2>2, <2>3, <2>4
<1>4. QED BY <1>2, <1>3 DEF ChainInv

\* A frame sent to a socket continues its chains: a reading always, an event if it is the one
\* that comes next.
LEMMA ChainsPushed ==
  ASSUME FeedTypes, ChainInv, UNCHANGED <<current, settled, log, lastId, nextId, wire>>,
         NEW s \in Socket, NEW f \in Frame, Push(s, f), wire[s] = "open",
         f.kind # "backlog",
         f.kind = "event" => Served(s) /\ f.last = Coming(s) /\ f.last < nextId,
         Served(s)' => /\ Served(s)
                       /\ IF f.kind = "event" THEN Coming(s)' - 1 = f.last
                          ELSE Coming(s)' = Coming(s),
         \A t \in Socket \ {s} : Served(t)' => Served(t) /\ Coming(t)' = Coming(t)
  PROVE  ChainInv'
<1> USE DEF FeedTypes
<1> DEFINE c == chan[s]
           d == Append(chan[s], f)
<1>1. c \in Seq(Frame) /\ chan'[s] = d /\ \A t \in Socket \ {s} : chan'[t] = chan[t]
  BY PushTypes
<1>2. /\ d \in Seq(Frame) /\ Len(d) = Len(c) + 1 /\ Len(c) \in Nat
      /\ \A i \in 1 .. Len(c) : d[i] = c[i]
      /\ d[Len(c) + 1] = f
  BY <1>1, PushIs
<1> HIDE DEF c, d
<1>3. ASSUME NEW k \in 0 .. Len(c), NEW l \in Int, FollowsOn(s, k, l)
      PROVE  FollowsOn(s, k, l)'
  <2>1. Chained(c, k, l) /\ (Served(s) => /\ Covered(c, k, Len(c), l, Coming(s) - 1)
                                          /\ Bounded(c, k, l, nextId))
    BY <1>3 DEF FollowsOn, c
  <2>2. f.kind = "event" => Covered(c, k, Len(c), l, f.last - 1)
    BY <2>1
  <2>3. /\ Chained(d, k, l)
        /\ \A n \in Int : Covered(c, k, Len(c), l, n) => Covered(d, k, Len(d), l, n)
        /\ f.kind = "event" => Covered(d, k, Len(d), l, f.last)
        /\ \A n \in Int : Bounded(c, k, l, n) /\ (f.kind = "event" => f.last < n)
                            => Bounded(d, k, l, n)
    BY <1>1, <1>3, <2>1, <2>2, ChainPushed DEF c, d
  <2>4. ASSUME Served(s)'
        PROVE  Covered(d, k, Len(d), l, Coming(s)' - 1) /\ Bounded(d, k, l, nextId)
    <3>1. Served(s) /\ Covered(c, k, Len(c), l, Coming(s) - 1) /\ Bounded(c, k, l, nextId)
      BY <2>1, <2>4
    <3>2. Bounded(d, k, l, nextId)
      BY <2>3, <3>1
    <3>3. CASE f.kind = "event"
      BY <2>3, <2>4, <3>2, <3>3
    <3>4. CASE f.kind # "event"
      <4>1. Coming(s)' = Coming(s)
        BY <2>4, <3>4
      <4>2. Coming(s) - 1 \in Int
        BY EmptyIs DEF Coming
      <4>3. QED BY <2>3, <3>1, <3>2, <4>1, <4>2
    <3>5. QED BY <3>3, <3>4
  <2>5. QED BY <1>1, <2>3, <2>4 DEF FollowsOn
<1>4. ASSUME NEW t \in Socket \ {s}, NEW k, NEW l, FollowsOn(t, k, l)
      PROVE  FollowsOn(t, k, l)'
  BY <1>1, <1>4 DEF FollowsOn
<1>5. ASSUME NEW t \in Socket, NEW k \in 1 .. Len(chan'[t]), chan'[t][k].kind = "backlog"
      PROVE  FollowsOn(t, k, chan[t][k].last)'
  <2>1. k \in 1 .. Len(chan[t]) /\ chan'[t][k] = chan[t][k]
    <3>1. CASE t = s
      <4>1. k # Len(c) + 1
        BY <1>1, <1>2, <1>5, <3>1
      <4>2. k \in 1 .. Len(c)
        BY <1>1, <1>2, <3>1, <4>1
      <4>3. QED BY <1>1, <1>2, <3>1, <4>2 DEF c
    <3>2. CASE t # s
      BY <1>1, <3>2
    <3>3. QED BY <3>1, <3>2
  <2> DEFINE l == chan[t][k].last
  <2>2. FollowsOn(t, k, l) /\ l \in Int /\ l' = l
    <3>1. chan[t][k] \in Frame
      BY <2>1
    <3>2. FollowsOn(t, k, l)
      <4>1. chan[t][k].kind = "backlog"
        BY <1>5, <2>1
      <4>2. QED BY <2>1, <4>1 DEF ChainInv
    <3>3. l \in Int
      BY <3>1 DEF Frame
    <3>4. l' = l
      BY <2>1
    <3>5. QED BY <3>2, <3>3, <3>4
  <2>3. t = s => k \in 0 .. Len(c)
    BY <2>1 DEF c
  <2> HIDE DEF l
  <2>4. FollowsOn(t, k, l)'
    BY <1>3, <1>4, <2>2, <2>3
  <2>5. QED BY <2>2, <2>4 DEF l
<1>6. ASSUME NEW b \in Client, Settled(b)' PROVE FollowsOn(current[b], 0, lastId[b])' /\ LogEnds(b)'
  <2>1. Settled(b) /\ current[b] \in Socket
    BY <1>6 DEF Settled
  <2>2. FollowsOn(current[b], 0, lastId[b]) /\ LogEnds(b)
    BY <2>1 DEF ChainInv
  <2>3. LogEnds(b)'
    BY <2>2 DEF LogEnds
  <2>4. 0 \in 0 .. Len(c) /\ lastId[b] \in Int
    BY <1>2
  <2>5. QED BY <1>3, <1>4, <2>1, <2>2, <2>3, <2>4
<1>7. QED BY <1>5, <1>6 DEF ChainInv

\* A backlog begins a chain of its own: it ends with the newest event, so whatever is broadcast
\* next is covered (backlog, websocket_endpoint).
LEMMA BacklogKeeps ==
  ASSUME FeedTypes, CastInv, QueueInv, SocketInv, ChainInv, NEW s \in Socket, SendBacklog(s)
  PROVE  ChainInv'
<1> USE DEF FeedTypes
<1>1. /\ UNCHANGED <<current, settled, log, lastId, nextId, wire, queue, connections, cast>>
      /\ Push(s, Backlog) /\ handler[s] = "backlog"
  BY DEF SendBacklog, Advance, browserVars, ringVars
<1> DEFINE c == chan[s]
           d == Append(chan[s], Backlog)
<1>2. /\ Backlog \in Frame /\ Backlog.kind = "backlog" /\ Backlog.last = nextId - 1
      /\ c \in Seq(Frame) /\ chan'[s] = d /\ \A t \in Socket \ {s} : chan'[t] = chan[t]
  <2>1. Backlog \in Frame
    BY FramesAre
  <2>2. QED BY <1>1, <2>1, PushTypes DEF Backlog
<1>3. /\ d \in Seq(Frame) /\ Len(d) = Len(c) + 1 /\ Len(c) \in Nat
      /\ \A i \in 1 .. Len(c) : d[i] = c[i]
      /\ d[Len(c) + 1] = Backlog
  BY <1>2, PushIs
<1> HIDE DEF c, d
<1>4. ~HasBacklog(c) /\ \A b \in Client : Settled(b) => current[b] # s
  BY <1>1 DEF SocketInv, Past, Settled, c
<1>5. \A t \in Socket : Served(t)' = Served(t) /\ Coming(t)' = Coming(t)
  BY <1>1 DEF Served, Coming
<1>6. ASSUME NEW k \in 1 .. Len(chan'[s]), chan'[s][k].kind = "backlog"
      PROVE  FollowsOn(s, k, chan[s][k].last)'
  <2>1. k = Len(d) /\ d[k] = Backlog
    <3>1. k \in 1 .. Len(d) /\ d[k].kind = "backlog"
      BY <1>2, <1>6
    <3>2. k \notin 1 .. Len(c)
      BY <1>3, <1>4, <3>1 DEF HasBacklog
    <3>3. QED BY <1>3, <3>1, <3>2
  <2>2. Coming(s) <= nextId /\ Coming(s) \in Int /\ nextId \in Int
    <3>1. CASE queue = <<>>
      BY <3>1 DEF Coming
    <3>2. CASE queue # <<>>
      <4>1. Len(queue) \in Nat \ {0}
        BY <3>2, EmptyIs
      <4>2. QED BY <3>2, <4>1 DEF Coming
    <3>3. QED BY <3>1, <3>2
  <2>3. Chained(d, k, nextId - 1) /\ Bounded(d, k, nextId - 1, nextId)
        /\ Covered(d, k, Len(d), nextId - 1, Coming(s) - 1)
    <3>1. \A j \in k + 1 .. Len(d) : FALSE
      BY <1>3, <2>1
    <3>2. QED BY <2>2, <3>1 DEF Chained, Bounded, Covered
  <2>4. chan'[s][k].last = nextId - 1
    BY <1>2, <2>1
  <2>5. QED BY <1>1, <1>2, <1>5, <2>3, <2>4 DEF FollowsOn
<1>7. ASSUME NEW t \in Socket, NEW k \in 1 .. Len(chan'[t]), chan'[t][k].kind = "backlog"
      PROVE  FollowsOn(t, k, chan[t][k].last)'
  <2>1. CASE t = s
    BY <1>6, <1>7, <2>1
  <2>2. CASE t # s
    <3>1. chan'[t] = chan[t] /\ FollowsOn(t, k, chan[t][k].last)
      BY <1>2, <1>7, <2>2 DEF ChainInv
    <3>2. QED BY <1>1, <1>5, <3>1 DEF FollowsOn
  <2>3. QED BY <2>1, <2>2
<1>8. ASSUME NEW b \in Client, Settled(b)' PROVE FollowsOn(current[b], 0, lastId[b])' /\ LogEnds(b)'
  <2>1. Settled(b) /\ current[b] \in Socket \ {s} /\ current'[b] = current[b]
    BY <1>1, <1>4, <1>8 DEF Settled
  <2>2. FollowsOn(current[b], 0, lastId[b]) /\ LogEnds(b)
    BY <2>1 DEF ChainInv
  <2>3. LogEnds(b)'
    BY <1>1, <2>2 DEF LogEnds
  <2>4. chan'[current[b]] = chan[current[b]] /\ lastId' = lastId
    BY <1>1, <1>2, <2>1
  <2>5. QED BY <1>1, <1>5, <2>1, <2>2, <2>3, <2>4 DEF FollowsOn
<1>9. QED BY <1>7, <1>8 DEF ChainInv

\* Appending the next id keeps the log without a gap.
LEMMA LogGrows ==
  ASSUME NEW b \in Client, FeedTypes, LogEnds(b), NEW n \in Nat, n = lastId[b] + 1,
         log' = [log EXCEPT ![b] = Append(@, n)], lastId' = [lastId EXCEPT ![b] = n]
  PROVE  LogEnds(b)'
<1> DEFINE g == log[b]
           h == Append(log[b], n)
<1>1. g \in Seq(Nat) /\ log'[b] = h /\ lastId'[b] = n /\ lastId[b] \in Nat
  BY DEF FeedTypes
<1>2. /\ Len(h) = Len(g) + 1 /\ Len(g) \in Nat /\ h[Len(g) + 1] = n
      /\ \A i \in 1 .. Len(g) : h[i] = g[i]
  BY <1>1
<1>3. /\ \A i \in 1 .. Len(g) - 1 : g[i + 1] = g[i] + 1
      /\ Len(g) > 0 => g[Len(g)] = lastId[b]
  BY DEF LogEnds
<1> HIDE DEF g, h
<1>4. ASSUME NEW i \in 1 .. Len(h) - 1 PROVE h[i + 1] = h[i] + 1
  <2>1. CASE i = Len(g)
    BY <1>2, <1>3, <2>1
  <2>2. CASE i # Len(g)
    <3>1. i \in 1 .. Len(g) - 1 /\ i \in 1 .. Len(g) /\ i + 1 \in 1 .. Len(g)
      BY <1>2, <2>2
    <3>2. QED BY <1>2, <1>3, <3>1
  <2>3. QED BY <2>1, <2>2
<1>5. Len(h) > 0 /\ h[Len(h)] = n
  BY <1>2
<1>6. QED BY <1>1, <1>4, <1>5 DEF LogEnds

\* A backlog is a log without a gap.
LEMMA LogReplaced ==
  ASSUME NEW b \in Client, FeedTypes, NEW f \in Frame, f.kind = "backlog",
         log' = [log EXCEPT ![b] = Ids(f.first, f.last)],
         lastId' = [lastId EXCEPT ![b] = f.last]
  PROVE  LogEnds(b)'
<1> DEFINE n == f.last - f.first + 1
<1>1. /\ f.first \in Nat \ {0} /\ f.last \in Nat /\ n \in Nat
      /\ f.last > 0 => n > 0
  BY DEF Frame
<1>2. log'[b] = Ids(f.first, f.last) /\ lastId'[b] = f.last
  BY DEF FeedTypes
<1> DEFINE g == Ids(f.first, f.last)
<1>3. Len(g) = n /\ \A i \in 1 .. n : g[i] = f.first + i - 1
  <2>1. g = [i \in 1 .. n |-> f.first + i - 1]
    BY DEF Ids
  <2> HIDE DEF g, n
  <2>2. QED BY <1>1, <2>1
<1> HIDE DEF g
<1>4. /\ \A i \in 1 .. n - 1 : g[i + 1] = g[i] + 1
      /\ n > 0 => g[n] = f.last
  <2>1. ASSUME NEW i \in 1 .. n - 1 PROVE g[i + 1] = g[i] + 1
    <3>1. i \in 1 .. n /\ i + 1 \in 1 .. n
      BY <1>1
    <3>2. g[i + 1] = f.first + (i + 1) - 1 /\ g[i] = f.first + i - 1
      BY <1>3, <3>1
    <3>3. QED BY <1>1, <3>2
  <2>2. ASSUME n > 0 PROVE g[n] = f.last
    <3>1. g[n] = f.first + n - 1
      BY <1>1, <1>3, <2>2
    <3>2. QED BY <1>1, <3>1
  <2>3. QED BY <2>1, <2>2
<1> HIDE DEF n
<1>5. QED BY <1>1, <1>2, <1>3, <1>4 DEF LogEnds, g

\* The browser shows an event that continues its log, skips one it has, and starts over with a
\* backlog (applyServerEvent, applyEventBacklog).
LEMMA DeliverChains ==
  ASSUME FeedTypes, SocketInv, ChainInv, NEW b \in Client, Deliver(b)
  PROVE  ChainInv'
<1> DEFINE s == current[b]
           c == chan[s]
           d == Tail(c)
<1>1. /\ s \in Socket /\ s # NoSocket /\ c # <<>> /\ c \in Seq(Frame)
      /\ chan' = [chan EXCEPT ![s] = Tail(@)]
      /\ UNCHANGED <<connVars, ringVars, queue, wire, current>>
  BY FeedAssumption DEF Deliver, FeedTypes
<1>2. /\ chan'[s] = d /\ \A t \in Socket \ {s} : chan'[t] = chan[t]
      /\ \A t \in Socket : chan'[t] \in Seq(Frame)
  BY <1>1, PopIs DEF FeedTypes
<1>3. /\ d \in Seq(Frame) /\ Len(d) = Len(c) - 1 /\ Len(c) \in Nat \ {0}
      /\ \A i \in 1 .. Len(c) - 1 : d[i] = c[i + 1]
      /\ Head(c) = c[1] /\ c[1] \in Frame
  BY <1>1, PopIs
<1>4. \A t \in Socket : Served(t)' = Served(t) /\ Coming(t)' = Coming(t)
  BY <1>1 DEF Served, Coming, connVars, ringVars
<1>5. nextId' = nextId /\ nextId \in Nat /\ \A t \in Socket : Coming(t) - 1 \in Int
  <2>1. \A t \in Socket : Coming(t) \in Int
    BY EmptyIs DEF Coming, FeedTypes
  <2>2. QED BY <1>1, <2>1 DEF ringVars, FeedTypes
<1>6. \/ /\ c[1].kind = "metrics" /\ UNCHANGED <<settled, log, lastId>>
      \/ /\ c[1].kind = "event" /\ settled' = settled
         /\ IF c[1].last <= lastId[b] THEN UNCHANGED <<log, lastId>>
            ELSE /\ log' = [log EXCEPT ![b] = Append(@, c[1].last)]
                 /\ lastId' = [lastId EXCEPT ![b] = c[1].last]
      \/ /\ c[1].kind = "backlog" /\ settled' = [settled EXCEPT ![b] = TRUE]
         /\ log' = [log EXCEPT ![b] = Ids(c[1].first, c[1].last)]
         /\ lastId' = [lastId EXCEPT ![b] = c[1].last]
  <2>1. ShowReading(b, Head(c)) \/ ShowEvent(b, Head(c)) \/ ShowBacklog(b, Head(c))
    BY DEF Deliver
  <2>2. QED BY <1>3, <2>1 DEF ShowReading, ShowEvent, ShowBacklog
<1>7. \A a \in Client \ {b} :
        lastId'[a] = lastId[a] /\ log'[a] = log[a] /\ settled'[a] = settled[a]
  BY <1>6 DEF FeedTypes
<1>8. \A a \in Client : current[a] = s => a = b
  BY <1>1 DEF SocketInv
<1>9. Settled(b) <=> settled[b]
  BY <1>1 DEF Settled
<1>10. settled[b] => FollowsOn(s, 0, lastId[b]) /\ LogEnds(b)
  BY <1>9 DEF ChainInv
<1>11. \A k \in 1 .. Len(c) : c[k].kind = "backlog" => FollowsOn(s, k, c[k].last)
  BY <1>1 DEF ChainInv
<1> HIDE DEF c, d
<1>12. ASSUME NEW k \in 1 .. Len(c), NEW l \in Int, FollowsOn(s, k, l)
       PROVE  /\ Chained(d, k - 1, l)
              /\ Served(s)' => /\ Covered(d, k - 1, Len(d), l, Coming(s)' - 1)
                               /\ Bounded(d, k - 1, l, nextId')
  <2>1. Chained(c, k, l) /\ (Served(s) => /\ Covered(c, k, Len(c), l, Coming(s) - 1)
                                          /\ Bounded(c, k, l, nextId))
    BY <1>12 DEF FollowsOn, c
  <2>2. /\ Chained(c, k, l) => Chained(d, k - 1, l)
        /\ \A n \in Int : Covered(c, k, Len(c), l, n) => Covered(d, k - 1, Len(d), l, n)
        /\ \A n \in Int : Bounded(c, k, l, n) => Bounded(d, k - 1, l, n)
    BY <1>1, ChainShifted DEF d
  <2>3. QED BY <1>1, <1>4, <1>5, <2>1, <2>2
<1>13. ASSUME NEW t \in Socket, NEW k \in 1 .. Len(chan'[t]), chan'[t][k].kind = "backlog"
       PROVE  FollowsOn(t, k, chan[t][k].last)'
  <2>1. CASE t = s
    <3>1. k \in 1 .. Len(c) - 1 /\ k + 1 \in 1 .. Len(c) /\ (k + 1) - 1 = k
          /\ chan'[s][k] = c[k + 1]
      BY <1>2, <1>3, <1>13, <2>1
    <3>2. c[k + 1].last \in Int
      BY <1>1, <3>1 DEF Frame
    <3>3. FollowsOn(s, k + 1, c[k + 1].last)
      BY <1>11, <1>13, <2>1, <3>1
    <3>4. /\ Chained(d, k, c[k + 1].last)
          /\ Served(s)' => /\ Covered(d, k, Len(d), c[k + 1].last, Coming(s)' - 1)
                           /\ Bounded(d, k, c[k + 1].last, nextId')
      BY <1>12, <3>1, <3>2, <3>3
    <3>5. chan'[t] = d /\ chan'[t][k].last = c[k + 1].last
      BY <1>2, <2>1, <3>1
    <3>6. QED BY <1>1, <2>1, <3>4, <3>5 DEF FollowsOn
  <2>2. CASE t # s
    <3>1. chan'[t] = chan[t] /\ FollowsOn(t, k, chan[t][k].last)
      BY <1>2, <1>13, <2>2 DEF ChainInv
    <3>2. QED BY <1>4, <1>5, <3>1 DEF FollowsOn
  <2>3. QED BY <2>1, <2>2
<1>14. ASSUME settled'[b]
       PROVE  /\ Chained(d, 0, lastId'[b])
              /\ Served(s)' => /\ Covered(d, 0, Len(d), lastId'[b], Coming(s)' - 1)
                               /\ Bounded(d, 0, lastId'[b], nextId')
              /\ LogEnds(b)'
  <2>1. CASE c[1].kind = "backlog"
    <3>1. lastId'[b] = c[1].last /\ 1 \in 1 .. Len(c) /\ c[1].last \in Int
      BY <1>3, <1>6, <2>1 DEF FeedTypes, Frame
    <3>2. FollowsOn(s, 1, c[1].last) /\ 1 - 1 = 0
      BY <1>11, <2>1, <3>1
    <3>3. /\ Chained(d, 0, c[1].last)
          /\ Served(s)' => /\ Covered(d, 0, Len(d), c[1].last, Coming(s)' - 1)
                           /\ Bounded(d, 0, c[1].last, nextId')
      BY <1>12, <3>1, <3>2
    <3>4. LogEnds(b)'
      BY <1>3, <1>6, <2>1, LogReplaced
    <3>5. QED BY <3>1, <3>3, <3>4
  <2>2. CASE c[1].kind # "backlog"
    <3>1. settled[b] /\ lastId[b] \in Nat /\ c[1].last \in Nat
      BY <1>3, <1>6, <1>14, <2>2 DEF FeedTypes, Frame
    <3>2. Chained(c, 0, lastId[b]) /\ LogEnds(b)
          /\ (Served(s) => /\ Covered(c, 0, Len(c), lastId[b], Coming(s) - 1)
                           /\ Bounded(c, 0, lastId[b], nextId))
      BY <1>10, <3>1 DEF FollowsOn, c
    <3>3. c[1].kind = "event" => c[1].last - 1 <= lastId[b]
      <4>1. 1 \in 0 + 1 .. Len(c) /\ \A i \in 0 + 1 .. 1 - 1 : FALSE
        BY <1>3
      <4>2. QED BY <3>2, <4>1 DEF Chained, Covered
    <3>4. /\ lastId'[b] \in Int /\ lastId[b] <= lastId'[b]
          /\ c[1].kind = "event" => c[1].last <= lastId'[b]
          /\ lastId'[b] = lastId[b] \/ (c[1].kind = "event" /\ lastId'[b] = c[1].last)
      BY <1>6, <2>2, <3>1 DEF FeedTypes
    <3>5. Served(s) => lastId'[b] < nextId
      <4>1. 1 \in 0 + 1 .. Len(c)
        BY <1>3
      <4>2. Served(s) => lastId[b] < nextId /\ (c[1].kind = "event" => c[1].last < nextId)
        BY <3>2, <4>1 DEF Bounded
      <4>3. QED BY <3>4, <4>2
    <3> DEFINE m == lastId'[b]
    <3>6. /\ Chained(c, 0, lastId[b]) => Chained(d, 0, m)
          /\ \A n \in Int : Covered(c, 0, Len(c), lastId[b], n) => Covered(d, 0, Len(d), m, n)
          /\ \A n \in Int : Bounded(c, 0, lastId[b], n) /\ m < n => Bounded(d, 0, m, n)
      <4>1. m \in Int /\ lastId[b] \in Int /\ lastId[b] <= m
            /\ (c[1].kind = "event" => c[1].last <= m)
        BY <3>1, <3>4
      <4> HIDE DEF m
      <4>2. QED BY <1>1, <4>1, ChainPopped DEF d
    <3>7. LogEnds(b)'
      <4>1. CASE UNCHANGED <<log, lastId>>
        BY <3>2, <4>1 DEF LogEnds
      <4>2. CASE ~UNCHANGED <<log, lastId>>
        <5>1. /\ log' = [log EXCEPT ![b] = Append(@, c[1].last)]
              /\ lastId' = [lastId EXCEPT ![b] = c[1].last]
              /\ c[1].kind = "event" /\ ~(c[1].last <= lastId[b])
          BY <1>6, <2>2, <4>2
        <5>2. c[1].last = lastId[b] + 1
          BY <3>1, <3>3, <5>1
        <5>3. QED BY <3>1, <3>2, <5>1, <5>2, LogGrows
      <4>3. QED BY <4>1, <4>2
    <3>8. Chained(d, 0, m)
      BY <3>2, <3>6
    <3>9. ASSUME Served(s)'
          PROVE  Covered(d, 0, Len(d), m, Coming(s)' - 1) /\ Bounded(d, 0, m, nextId')
      <4>1. Served(s) /\ Coming(s)' = Coming(s) /\ Coming(s) - 1 \in Int /\ nextId' = nextId
            /\ nextId \in Int
        BY <1>1, <1>4, <1>5, <3>9
      <4>2. /\ Covered(c, 0, Len(c), lastId[b], Coming(s) - 1)
            /\ Bounded(c, 0, lastId[b], nextId) /\ m < nextId
        BY <3>2, <3>5, <4>1
      <4> HIDE DEF m
      <4>3. QED BY <3>6, <4>1, <4>2
    <3>10. QED BY <3>7, <3>8, <3>9
  <2>3. QED BY <2>1, <2>2
<1>15. ASSUME NEW a \in Client, Settled(a)'
       PROVE  FollowsOn(current[a], 0, lastId[a])' /\ LogEnds(a)'
  <2>1. current'[a] = current[a] /\ current[a] \in Socket /\ settled'[a]
    BY <1>1, <1>15 DEF Settled, FeedTypes
  <2>2. CASE a = b
    BY <1>2, <1>14, <2>1, <2>2 DEF FollowsOn
  <2>3. CASE a # b
    <3>1. Settled(a) /\ current[a] # s /\ lastId'[a] = lastId[a] /\ log'[a] = log[a]
      BY <1>1, <1>7, <1>8, <1>15, <2>1, <2>3 DEF Settled
    <3>2. FollowsOn(current[a], 0, lastId[a]) /\ LogEnds(a)
      BY <3>1 DEF ChainInv
    <3>3. LogEnds(a)'
      BY <3>1, <3>2 DEF LogEnds
    <3>4. chan'[current[a]] = chan[current[a]]
      BY <1>2, <2>1, <3>1
    <3>5. QED BY <1>4, <1>5, <2>1, <3>1, <3>2, <3>3, <3>4 DEF FollowsOn
  <2>4. QED BY <2>2, <2>3
<1>16. QED BY <1>13, <1>15 DEF ChainInv

\* When a message is done, the event to come next stays the same for every socket that stays:
\* what a broadcast sent to it, the next broadcast continues.
LEMMA FinishKeepsComing ==
  ASSUME FeedTypes, CastInv, QueueInv, cast # Quiet, cast.waiting = {}, NextMessage,
         cast' = IF More THEN Cast(connections') ELSE Quiet,
         connections' \subseteq connections, UNCHANGED <<nextId, polls>>,
         NEW s \in Socket, s \in cast'.waiting \/ s \in connections'
  PROVE  s \in connections' /\ Coming(s)' = Coming(s)
<1>1. /\ cast'.at = "quiet" <=> queue' = <<>>
      /\ queue' # <<>> => queue' = Tail(queue) /\ cast' = Cast(connections')
      /\ queue' = <<>> => cast' = Quiet /\ (connections' = {} \/ Len(queue) = 1)
  BY NextMessageIs
<1>2. queue # <<>> /\ nextId \in Nat /\ Len(queue) \in Nat \ {0}
  BY HeadIs, EmptyIs DEF FeedTypes
<1>3. Coming(s) = nextId - Len(queue) + 1
  BY <1>2 DEF Coming
<1>4. CASE queue' = <<>>
  <2>1. s \in connections' /\ Len(queue) = 1
    BY <1>1, <1>4 DEF Quiet
  <2>2. Coming(s)' = nextId'
    BY <1>4 DEF Coming
  <2>3. QED BY <1>2, <1>3, <2>1, <2>2
<1>5. CASE queue' # <<>>
  <2>1. /\ Len(queue') = Len(queue) - 1
        /\ \A i \in 1 .. Len(queue') : queue'[i].kind = "event"
    BY <1>1, <1>2, <1>5, QueueShrinks
  <2>2. queue' \in Seq(Frame)
    BY <1>1, <1>2, <1>5, PopIs DEF FeedTypes
  <2>3. Len(queue') \in Nat \ {0}
    BY <1>5, <2>2, EmptyIs
  <2>4. queue'[1].kind = "event"
    BY <2>1, <2>3
  <2>5. s \in connections' /\ s \in cast'.waiting
    <3>1. cast'.waiting = connections'
      BY <1>1, <1>5 DEF Cast, Quiet
    <3>2. QED BY <3>1
  <2>6. Coming(s)' = nextId' - Len(queue')
    BY <1>5, <2>4, <2>5 DEF Coming
  <2>7. QED BY <1>2, <1>3, <2>1, <2>5, <2>6
<1>6. QED BY <1>4, <1>5

\* The end of a broadcast keeps the chains.
LEMMA CastChains ==
  ASSUME FeedTypes, CastInv, QueueInv, SocketInv, ChainInv,
         FinishCast \/ \E s \in Socket : CloseOne(s)
  PROVE  ChainInv'
<1> USE DEF FeedTypes, ConnTypeOK
<1>1. UNCHANGED <<chan, current, settled, log, lastId, nextId, polls>> /\ nextId \in Nat
  BY DEF FinishCast, CloseOne, browserVars, ringVars
<1>2. ASSUME cast # Quiet, cast.waiting = {}, NextMessage,
             cast' = IF More THEN Cast(connections') ELSE Quiet,
             connections' \subseteq connections \ cast.failed,
             \A s \in Socket : wire'[s] = "open" => wire[s] = "open"
      PROVE  ChainInv'
  <2>1. ASSUME NEW s \in Socket, Served(s)' PROVE Served(s) /\ Coming(s)' = Coming(s)
    <3>1. s \in connections' /\ Coming(s)' = Coming(s)
      BY <1>1, <1>2, <2>1, FinishKeepsComing DEF Served
    <3>2. QED BY <1>2, <2>1, <3>1 DEF Served
  <2>2. QED BY <1>1, <2>1, ChainsKept
<1>3. ASSUME UNCHANGED queue, cast'.waiting = cast.waiting,
             \A s \in Socket : Served(s)' => Served(s)
      PROVE  ChainInv'
  <2>1. \A s \in Socket : Coming(s)' = Coming(s)
    BY <1>1, <1>3 DEF Coming
  <2>2. QED BY <1>1, <1>3, <2>1, ChainsKept
<1>4. CASE FinishCast
  <2>1. /\ cast.at = "sending" /\ cast.waiting = {} /\ connections' = connections \ cast.failed
        /\ wire' = wire /\ cast # Quiet
        /\ cast' = IF cast.failed # {} THEN [cast EXCEPT !.at = "closing"]
                   ELSE IF More THEN Cast(connections) ELSE Quiet
        /\ IF cast.failed = {} THEN NextMessage ELSE UNCHANGED queue
    BY <1>4 DEF FinishCast, EndCast, Quiet
  <2>2. CASE cast.failed = {}
    <3>1. connections' = connections /\ NextMessage
      BY <2>1, <2>2
    <3>2. QED BY <1>2, <2>1, <2>2, <3>1
  <2>3. CASE cast.failed # {}
    <3>1. cast'.waiting = cast.waiting /\ cast'.failed = cast.failed /\ UNCHANGED queue
      BY <2>1, <2>3
    <3>2. \A s \in Socket : Served(s)' => Served(s)
      BY <2>1, <3>1 DEF Served
    <3>3. QED BY <1>3, <3>1, <3>2
  <2>4. QED BY <2>2, <2>3
<1>5. ASSUME NEW s \in Socket, CloseOne(s) PROVE ChainInv'
  <2>1. /\ cast.at = "closing" /\ s \in cast.failed /\ connections' = connections
        /\ wire' = [wire EXCEPT ![s] = "closed"] /\ cast # Quiet
        /\ cast' = IF cast.failed # {s} THEN [cast EXCEPT !.failed = @ \ {s}]
                   ELSE IF More THEN Cast(connections) ELSE Quiet
        /\ IF cast.failed = {s} THEN NextMessage ELSE UNCHANGED queue
    BY <1>5 DEF CloseOne, CloseFailed, Quiet
  <2>2. cast.waiting = {} /\ cast.failed \cap connections = {}
    BY <2>1 DEF CastInv
  <2>3. \A t \in Socket : wire'[t] = "open" => wire[t] = "open"
    BY <2>1
  <2>4. CASE cast.failed = {s}
    <3>1. connections' \subseteq connections \ cast.failed /\ NextMessage
      BY <2>1, <2>2, <2>4
    <3>2. QED BY <1>2, <2>1, <2>2, <2>3, <2>4, <3>1
  <2>5. CASE cast.failed # {s}
    <3>1. cast'.waiting = cast.waiting /\ UNCHANGED queue
      BY <2>1, <2>5
    <3>2. \A t \in Socket : Served(t)' => Served(t)
      BY <2>1, <2>2, <2>3, <3>1 DEF Served
    <3>3. QED BY <1>3, <3>1, <3>2
  <2>6. QED BY <2>4, <2>5
<1>6. QED BY <1>4, <1>5

\* A send that succeeds continues the chain; one that fails takes the socket out of the served.
LEMMA SendChains ==
  ASSUME FeedTypes, CastInv, QueueInv, SocketInv, ChainInv,
         NEW s \in Socket, SendOne(s) \/ SendTimesOut(s)
  PROVE  ChainInv'
<1> USE DEF FeedTypes, ConnTypeOK
<1>1. /\ UNCHANGED <<connections, wire, current, settled, log, lastId, nextId, queue>>
      /\ s \in cast.waiting /\ s \notin cast'.waiting
      /\ cast'.waiting = cast.waiting \ {s}
      /\ \/ cast'.failed = cast.failed /\ Push(s, Head(queue)) /\ wire[s] = "open"
         \/ cast'.failed = cast.failed \cup {s}
            /\ IF wire[s] = "open" THEN Push(s, Head(queue)) ELSE chan' = chan
  <2>1. CASE SendOne(s)
    BY <2>1 DEF SendOne, Sent, browserVars, ringVars
  <2>2. CASE SendTimesOut(s)
    BY <2>2 DEF SendTimesOut, SendFailed, browserVars, ringVars
  <2>3. QED BY <2>1, <2>2
<1>2. cast # Quiet /\ Head(queue) = queue[1] /\ queue[1] \in Frame /\ queue # <<>>
  BY <1>1, SendPushes, HeadIs
<1>3. Len(queue) \in Nat \ {0} /\ nextId \in Nat
  BY <1>2, EmptyIs
<1>4. /\ queue[1].kind \in {"metrics", "event"}
      /\ queue[1].kind = "event" => queue[1].last = nextId - 1 - Len(queue) + 1
  BY <1>3 DEF QueueInv
<1>5. \A t \in Socket \ {s} : Served(t)' => Served(t) /\ Coming(t)' = Coming(t)
  BY <1>1 DEF Served, Coming
<1>6. CASE wire[s] = "open"
  <2>1. Push(s, queue[1]) /\ Served(s)
    BY <1>1, <1>2, <1>6 DEF Served
  <2>2. queue[1].kind = "event" => queue[1].last = Coming(s) /\ queue[1].last < nextId
    BY <1>1, <1>2, <1>3, <1>4 DEF Coming
  <2>3. Coming(s)' = nextId - Len(queue) + 1
    BY <1>1, <1>2 DEF Coming
  <2>4. IF queue[1].kind = "event" THEN Coming(s)' - 1 = queue[1].last
        ELSE Coming(s)' = Coming(s)
    BY <1>1, <1>2, <1>3, <1>4, <2>3 DEF Coming
  <2>5. QED BY <1>1, <1>2, <1>4, <1>5, <1>6, <2>1, <2>2, <2>4, ChainsPushed
<1>7. CASE wire[s] # "open"
  <2>1. chan' = chan /\ ~Served(s)'
    BY <1>1, <1>7 DEF Served
  <2>2. \A t \in Socket : Served(t)' => Served(t) /\ Coming(t)' = Coming(t)
    BY <1>5, <2>1
  <2>3. QED BY <1>1, <1>3, <2>1, <2>2, ChainsKept
<1>8. QED BY <1>6, <1>7

\* New events come after everything before them, for every socket in the set.
LEMMA PollChains ==
  ASSUME FeedTypes, CastInv, QueueInv, ChainInv, NEW n \in 0 .. 2, Poll(n)
  PROVE  ChainInv'
<1> USE DEF FeedTypes, ConnTypeOK
<1>1. /\ UNCHANGED <<chan, current, settled, log, lastId, wire, connections>>
      /\ cast = Quiet /\ nextId' = nextId + n
  BY DEF Poll, StartCast, browserVars, connVars
<1>2. queue = <<>> /\ cast.waiting = {} /\ cast.failed = {}
  BY <1>1 DEF QueueInv, Quiet
<1>3. ASSUME NEW s \in Socket, Served(s)' PROVE Served(s) /\ Coming(s)' = Coming(s)
  <2>1. CASE connections = {}
    <3>1. cast' = cast
      BY <2>1 DEF Poll, connVars
    <3>2. QED BY <1>1, <1>2, <1>3, <2>1, <3>1 DEF Served
  <2>2. CASE connections # {}
    <3>1. /\ cast' = Cast(connections)
          /\ queue' = <<Metrics(polls + 1)>> \o [i \in 1 .. n |-> Event(nextId + i - 1)]
      BY <2>2 DEF Poll, StartCast
    <3>2. cast'.waiting = connections /\ s \in connections
      BY <1>1, <1>3, <2>2, <3>1 DEF Cast, Served
    <3>3. Served(s)
      BY <1>1, <1>2, <1>3, <3>2 DEF Served
    <3>4. queue' \in Seq(Frame) /\ Len(queue') = n + 1 /\ queue'[1] = Metrics(polls + 1)
      BY <3>1, BatchIs
    <3>5. queue' # <<>> /\ queue'[1].kind = "metrics"
      BY <3>4, EmptyIs DEF Metrics
    <3>6. Coming(s)' = (nextId + n) - (n + 1) + 1
      BY <1>1, <3>4, <3>5 DEF Coming
    <3>7. Coming(s) = nextId
      BY <1>2 DEF Coming
    <3>8. QED BY <3>3, <3>6, <3>7
  <2>3. QED BY <2>1, <2>2
<1>4. nextId' >= nextId /\ nextId' \in Nat
  BY <1>1
<1>5. QED BY <1>1, <1>3, <1>4, ChainsKept

\* Every step keeps the chains.
LEMMA ChainInvStep ==
  ASSUME FeedTypes, CastInv, QueueInv, SocketInv, ChainInv, [FeedNext]_feedVars
  PROVE  ChainInv'
<1> USE DEF FeedTypes, ConnTypeOK
<1>1. ASSUME UNCHANGED <<chan, current, settled, log, lastId, nextId, queue, cast>>,
             \A s \in Socket : Served(s)' => Served(s)
      PROVE  ChainInv'
  <2>1. \A s \in Socket : Coming(s)' = Coming(s)
    BY <1>1 DEF Coming
  <2>2. QED BY <1>1, <2>1, ChainsKept
<1>2. ASSUME NEW s \in Socket, Reject(s) \/ Recheck(s) \/ Depart(s) \/ HangUp(s) PROVE ChainInv'
  <2>1. /\ UNCHANGED <<chan, current, settled, log, lastId, nextId, queue, cast>>
        /\ connections' \subseteq connections
        /\ wire' = wire \/ wire' = [wire EXCEPT ![s] = "closed"]
    BY <1>2 DEF Reject, Recheck, Depart, HangUp, Refuse, Advance, Leave, connVars, ringVars,
       browserVars
  <2>2. \A t \in Socket : Served(t)' => Served(t)
    BY <2>1 DEF Served
  <2>3. QED BY <1>1, <2>1, <2>2
<1>3. ASSUME NEW s \in Socket, Admit(s) PROVE ChainInv'
  <2>1. /\ UNCHANGED <<chan, current, settled, log, lastId, nextId, queue, cast, wire>>
        /\ connections' = connections \cup {s} /\ handler[s] = "handshake"
    BY <1>3 DEF Admit, Join, ringVars, browserVars
  <2>2. ~HasBacklog(chan[s]) /\ \A b \in Client : current[b] = s => ~settled[b]
    <3>1. ~Past(s) /\ s # NoSocket
      BY <2>1, FeedAssumption DEF Past
    <3>2. ~HasBacklog(chan[s])
      BY <3>1 DEF SocketInv
    <3>3. ASSUME NEW b \in Client, current[b] = s PROVE ~settled[b]
      BY <3>1, <3>3 DEF SocketInv
    <3>4. QED BY <3>2, <3>3
  <2>3. \A t \in Socket \ {s} : Served(t)' => Served(t)
    BY <2>1 DEF Served
  <2>4. \A t \in Socket : Coming(t)' = Coming(t)
    BY <2>1 DEF Coming
  <2>5. QED BY <2>1, <2>2, <2>3, <2>4, ChainsKept
<1>4. ASSUME NEW s \in Socket, SendSnapshot(s) PROVE ChainInv'
  <2>1. /\ UNCHANGED <<current, settled, log, lastId, nextId, queue, cast, wire, connections>>
        /\ chan' = chan \/ (Push(s, Metrics(latest)) /\ wire[s] = "open")
    BY <1>4 DEF SendSnapshot, Advance, ringVars, browserVars
  <2>2. \A t \in Socket : Served(t)' = Served(t) /\ Coming(t)' = Coming(t)
    BY <2>1 DEF Served, Coming
  <2>3. CASE chan' = chan
    BY <1>1, <2>1, <2>2, <2>3
  <2>4. CASE Push(s, Metrics(latest)) /\ wire[s] = "open"
    <3>1. Metrics(latest) \in Frame /\ Metrics(latest).kind = "metrics"
      BY FramesAre DEF Metrics
    <3>2. QED BY <2>1, <2>2, <2>4, <3>1, ChainsPushed
  <2>5. QED BY <2>1, <2>3, <2>4
<1>5. CASE Stop \/ Restart
  <2>1. /\ UNCHANGED <<chan, current, settled, log, lastId>>
        /\ connections' = {} /\ cast' = Quiet /\ nextId' \in Nat
    BY <1>5 DEF Stop, Restart, Shutdown, Boot, ringVars, browserVars, CastInv
  <2>2. \A s \in Socket : ~Served(s)'
    BY <2>1 DEF Served, Quiet
  <2>3. QED BY <2>1, <2>2, ChainsKept
<1>6. CASE UNCHANGED feedVars
  BY <1>1, <1>6 DEF feedVars, connVars, Served
<1>7. ASSUME NEW b \in Client, NEW s \in Socket, Connect(b, s) PROVE ChainInv'
  <2>1. /\ UNCHANGED <<chan, log, lastId, nextId, queue, cast, connections>>
        /\ current[b] = NoSocket /\ handler[s] = "free"
        /\ current' = [current EXCEPT ![b] = s] /\ settled' = [settled EXCEPT ![b] = FALSE]
        /\ wire' = [wire EXCEPT ![s] = "open"]
    BY <1>7 DEF Connect, Handshake, ringVars
  <2>2. \A t \in Socket : Coming(t)' = Coming(t)
    BY <2>1 DEF Coming
  <2>3. ~Served(s)'
    BY <2>1 DEF CastInv, Served
  <2>4. \A t \in Socket : Served(t)' => Served(t)
    BY <2>1, <2>3 DEF Served
  <2>5. ASSUME NEW t \in Socket, NEW k, NEW l, FollowsOn(t, k, l) PROVE FollowsOn(t, k, l)'
    BY <2>1, <2>2, <2>4, <2>5 DEF FollowsOn
  <2>6. ASSUME NEW t \in Socket, NEW k \in 1 .. Len(chan[t]), chan[t][k].kind = "backlog"
        PROVE  FollowsOn(t, k, chan[t][k].last)'
    <3>1. FollowsOn(t, k, chan[t][k].last)
      BY <2>6 DEF ChainInv
    <3>2. QED BY <2>1, <2>2, <2>4, <3>1 DEF FollowsOn
  <2>7. ASSUME NEW a \in Client, Settled(a)'
        PROVE  FollowsOn(current[a], 0, lastId[a])' /\ LogEnds(a)'
    <3>1. a # b /\ current'[a] = current[a] /\ current[a] \in Socket /\ Settled(a)
      BY <2>1, <2>7 DEF Settled
    <3>2. FollowsOn(current[a], 0, lastId[a]) /\ LogEnds(a)
      BY <3>1 DEF ChainInv
    <3>3. LogEnds(a)'
      BY <2>1, <3>2 DEF LogEnds
    <3>4. QED BY <2>1, <2>2, <2>4, <3>1, <3>2, <3>3 DEF FollowsOn
  <2>8. QED BY <2>1, <2>6, <2>7 DEF ChainInv
<1>8. ASSUME NEW b \in Client, SeeClose(b) \/ LoseSocket(b) PROVE ChainInv'
  <2> DEFINE s == current[b]
  <2>1. /\ s \in Socket /\ current' = [current EXCEPT ![b] = NoSocket]
        /\ wire' = wire \/ wire' = [wire EXCEPT ![s] = "closed"]
        /\ chan' = chan \/ (chan' = [chan EXCEPT ![s] = <<>>]
                            /\ wire' = [wire EXCEPT ![s] = "closed"])
        /\ UNCHANGED <<connections, handler, settled, log, lastId, nextId, queue, cast>>
    BY <1>8 DEF SeeClose, LoseSocket, connVars, ringVars
  <2>2. s # NoSocket /\ \A c \in Client : current[c] = s => c = b
    BY <2>1, FeedAssumption DEF SocketInv
  <2> HIDE DEF s
  <2>3. \A t \in Socket : Coming(t)' = Coming(t) /\ (Served(t)' => Served(t))
    BY <2>1 DEF Coming, Served
  <2>4. \A t \in Socket : chan'[t] = chan[t] \/ chan'[t] = <<>>
    BY <2>1
  <2>5. ASSUME NEW t \in Socket, NEW k \in 1 .. Len(chan'[t]), chan'[t][k].kind = "backlog"
        PROVE  FollowsOn(t, k, chan[t][k].last)'
    <3>1. chan'[t] = chan[t]
      BY <2>4, <2>5
    <3>2. FollowsOn(t, k, chan[t][k].last)
      BY <2>5, <3>1 DEF ChainInv
    <3>3. QED BY <2>1, <2>3, <3>1, <3>2 DEF FollowsOn
  <2>6. ASSUME NEW a \in Client, Settled(a)'
        PROVE  FollowsOn(current[a], 0, lastId[a])' /\ LogEnds(a)'
    <3>1. a # b /\ current'[a] = current[a] /\ current[a] \in Socket /\ current[a] # s /\ Settled(a)
      BY <2>1, <2>2, <2>6 DEF Settled
    <3>2. chan'[current[a]] = chan[current[a]]
      BY <2>1, <3>1
    <3>3. FollowsOn(current[a], 0, lastId[a]) /\ LogEnds(a)
      BY <3>1 DEF ChainInv
    <3>4. LogEnds(a)'
      BY <2>1, <3>3 DEF LogEnds
    <3>5. QED BY <2>1, <2>3, <3>1, <3>2, <3>3, <3>4 DEF FollowsOn
  <2>7. QED BY <2>5, <2>6 DEF ChainInv
<1>9. QED
  BY <1>2, <1>3, <1>4, <1>5, <1>6, <1>7, <1>8, PollChains, CastChains, SendChains, BacklogKeeps,
     DeliverChains DEF FeedNext

-----------------------------------------------------------------------------
(* The readings *)

\* A step that sends no reading and shows none keeps the order of the readings, if who gets a new
\* socket gets an empty one.
LEMMA ReadingsKept ==
  ASSUME FeedTypes, ReadingInv, UNCHANGED reading, polls' \in {polls, polls + 1},
         latest' \in {0, polls'},
         \A t \in Socket : chan'[t] = chan[t] \/ chan'[t] = <<>>,
         \A b \in Client : current'[b] = current[b] \/ current'[b] = NoSocket
                                                    \/ chan'[current'[b]] = <<>>
  PROVE  ReadingInv'
<1> USE DEF FeedTypes
<1>1. \A b \in Client : reading'[b] <= polls'
  BY DEF ReadingInv
<1>2. ASSUME NEW s \in Socket, NEW i \in 1 .. Len(chan'[s]), chan'[s][i].kind = "metrics"
      PROVE  /\ chan'[s][i].last <= polls'
             /\ \A j \in 1 .. i : chan'[s][j].kind = "metrics"
                              => chan'[s][j].last <= chan'[s][i].last
             /\ \A b \in Client : current'[b] = s => reading'[b] <= chan'[s][i].last
  <2>1. chan'[s] = chan[s] /\ chan'[s] # <<>>
    <3>1. chan'[s] # <<>>
      BY <1>2, EmptyIs
    <3>2. QED BY <3>1
  <2>2. /\ chan[s][i].last <= polls
        /\ \A j \in 1 .. i : chan[s][j].kind = "metrics" => chan[s][j].last <= chan[s][i].last
        /\ \A b \in Client : current[b] = s => reading[b] <= chan[s][i].last
    BY <1>2, <2>1 DEF ReadingInv
  <2>3. chan[s][i].last \in Nat
    BY <1>2, <2>1 DEF Frame
  <2>4. ASSUME NEW b \in Client, current'[b] = s PROVE current[b] = s
    BY <2>1, <2>4, FeedAssumption
  <2>5. QED BY <2>1, <2>2, <2>3, <2>4
<1>3. QED BY <1>1, <1>2 DEF ReadingInv

\* A reading that is sent is the newest.
LEMMA ReadingPushed ==
  ASSUME FeedTypes, ReadingInv, UNCHANGED <<reading, polls, latest, current>>,
         NEW s \in Socket, NEW f \in Frame, Push(s, f), f.kind = "metrics" => f.last = polls
  PROVE  ReadingInv'
<1> USE DEF FeedTypes
<1> DEFINE c == chan[s]
           d == Append(chan[s], f)
<1>1. c \in Seq(Frame) /\ chan'[s] = d /\ \A t \in Socket \ {s} : chan'[t] = chan[t]
  BY PushTypes
<1>2. /\ d \in Seq(Frame) /\ Len(d) = Len(c) + 1 /\ Len(c) \in Nat
      /\ \A i \in 1 .. Len(c) : d[i] = c[i]
      /\ d[Len(c) + 1] = f
  BY <1>1, PushIs
<1>3. \A i \in 1 .. Len(c) : c[i].kind = "metrics" =>
        /\ c[i].last <= polls
        /\ \A j \in 1 .. i : c[j].kind = "metrics" => c[j].last <= c[i].last
        /\ \A b \in Client : current[b] = s => reading[b] <= c[i].last
  BY DEF ReadingInv
<1>4. polls \in Nat /\ \A b \in Client : reading[b] <= polls
  BY DEF ReadingInv
<1> HIDE DEF c, d
<1>5. ASSUME NEW i \in 1 .. Len(d), d[i].kind = "metrics"
      PROVE  /\ d[i].last <= polls
             /\ \A j \in 1 .. i : d[j].kind = "metrics" => d[j].last <= d[i].last
             /\ \A b \in Client : current[b] = s => reading[b] <= d[i].last
  <2>1. CASE i \in 1 .. Len(c)
    <3>1. d[i] = c[i] /\ \A j \in 1 .. i : d[j] = c[j]
      BY <1>2, <2>1
    <3>2. QED BY <1>3, <1>5, <2>1, <3>1
  <2>2. CASE i = Len(c) + 1
    <3>1. d[i] = f /\ f.last = polls
      BY <1>2, <1>5, <2>2
    <3>2. ASSUME NEW j \in 1 .. i, d[j].kind = "metrics" PROVE d[j].last <= polls
      <4>1. CASE j = i
        BY <1>4, <3>1, <4>1
      <4>2. CASE j # i
        <5>1. j \in 1 .. Len(c)
          BY <1>2, <2>2, <4>2
        <5>2. d[j] = c[j]
          BY <1>2, <5>1
        <5>3. QED BY <1>3, <3>2, <5>1, <5>2
      <4>3. QED BY <4>1, <4>2
    <3>3. QED BY <1>4, <3>1, <3>2
  <2>3. QED BY <1>2, <1>5, <2>1, <2>2
<1>6. ASSUME NEW t \in Socket, NEW i \in 1 .. Len(chan'[t]), chan'[t][i].kind = "metrics"
      PROVE  /\ chan'[t][i].last <= polls
             /\ \A j \in 1 .. i : chan'[t][j].kind = "metrics"
                              => chan'[t][j].last <= chan'[t][i].last
             /\ \A b \in Client : current[b] = t => reading[b] <= chan'[t][i].last
  <2>1. CASE t = s
    BY <1>1, <1>5, <1>6, <2>1
  <2>2. CASE t # s
    BY <1>1, <1>6, <2>2 DEF ReadingInv
  <2>3. QED BY <2>1, <2>2
<1>7. QED BY <1>4, <1>6 DEF ReadingInv

\* A reading that arrives is no older than the one shown, nor newer than those behind it.
LEMMA ReadingDelivered ==
  ASSUME FeedTypes, SocketInv, ReadingInv, NEW b \in Client, Deliver(b)
  PROVE  /\ ReadingInv' /\ reading'[b] >= reading[b]
         /\ \A a \in Client \ {b} : reading'[a] = reading[a]
<1> USE DEF FeedTypes
<1> DEFINE s == current[b]
           c == chan[s]
           d == Tail(c)
           f == Head(c)
<1>1. /\ s \in Socket /\ c # <<>> /\ c \in Seq(Frame)
      /\ chan' = [chan EXCEPT ![s] = Tail(@)]
      /\ UNCHANGED <<polls, latest, current>>
      /\ IF f.kind = "metrics" THEN reading' = [reading EXCEPT ![b] = f.last]
                                ELSE reading' = reading
  BY DEF Deliver, ShowReading, ShowEvent, ShowBacklog, ringVars
<1>2. \A a \in Client : current[a] = s => a = b
  BY <1>1, FeedAssumption DEF SocketInv
<1>3. \A i \in 1 .. Len(c) : c[i].kind = "metrics" =>
        /\ c[i].last <= polls
        /\ \A j \in 1 .. i : c[j].kind = "metrics" => c[j].last <= c[i].last
        /\ reading[b] <= c[i].last
  BY <1>1 DEF ReadingInv
<1>4. chan'[s] = d /\ \A t \in Socket \ {s} : chan'[t] = chan[t]
  BY <1>1
<1>5. polls \in Nat /\ \A a \in Client : reading[a] <= polls
  BY DEF ReadingInv
<1>6. reading[b] \in Nat
  OBVIOUS
<1>7. \A a \in Client \ {b} : reading'[a] = reading[a]
  BY <1>1
<1>8. reading'[b] = IF f.kind = "metrics" THEN f.last ELSE reading[b]
  BY <1>1
<1> HIDE DEF c, d, f, s
<1>9. /\ Len(c) \in Nat \ {0} /\ f = c[1] /\ f \in Frame
      /\ d \in Seq(Frame) /\ Len(d) = Len(c) - 1
      /\ \A i \in 1 .. Len(c) - 1 : d[i] = c[i + 1]
  BY <1>1, PopIs DEF d, f
<1>10. f.last \in Nat /\ reading'[b] \in Nat
  BY <1>6, <1>8, <1>9 DEF Frame
<1>11. reading'[b] >= reading[b] /\ reading'[b] <= polls
  <2>1. f.kind = "metrics" => reading[b] <= f.last /\ f.last <= polls
    <3>1. 1 \in 1 .. Len(c)
      BY <1>9
    <3>2. QED BY ONLY <1>3, <1>9, <3>1
  <2>2. reading[b] <= polls
    BY <1>5
  <2>3. QED BY ONLY <1>6, <1>8, <1>10, <2>1, <2>2
<1>12. ASSUME NEW i \in 1 .. Len(d), d[i].kind = "metrics"
       PROVE  /\ d[i].last <= polls
              /\ \A j \in 1 .. i : d[j].kind = "metrics" => d[j].last <= d[i].last
              /\ reading'[b] <= d[i].last
  <2>1. /\ i + 1 \in 1 .. Len(c) /\ d[i] = c[i + 1]
        /\ \A j \in 1 .. i : j + 1 \in 1 .. i + 1 /\ d[j] = c[j + 1]
    <3>1. i \in 1 .. Len(c) - 1
      BY <1>9, <1>12
    <3>2. \A j \in 1 .. i : j \in 1 .. Len(c) - 1 /\ j + 1 \in 1 .. i + 1
      BY ONLY <1>9, <3>1
    <3>3. QED BY ONLY <1>9, <3>1, <3>2
  <2>2. /\ c[i + 1].last <= polls /\ reading[b] <= c[i + 1].last
        /\ \A j \in 1 .. i + 1 : c[j].kind = "metrics" => c[j].last <= c[i + 1].last
    BY <1>3, <1>12, <2>1
  <2>3. 1 \in 1 .. i + 1
    BY <1>12
  <2>4. reading'[b] <= c[i + 1].last
    BY <1>8, <1>9, <2>2, <2>3
  <2>5. QED BY <2>1, <2>2, <2>4
<1>13. ASSUME NEW t \in Socket, NEW i \in 1 .. Len(chan'[t]), chan'[t][i].kind = "metrics"
       PROVE  /\ chan'[t][i].last <= polls
              /\ \A j \in 1 .. i : chan'[t][j].kind = "metrics"
                              => chan'[t][j].last <= chan'[t][i].last
              /\ \A a \in Client : current[a] = t => reading'[a] <= chan'[t][i].last
  <2>1. CASE t = s
    BY <1>2, <1>4, <1>12, <1>13, <2>1
  <2>2. CASE t # s
    <3>1. chan'[t] = chan[t] /\ \A a \in Client : current[a] = t => a # b
      BY <1>4, <2>2 DEF s
    <3>2. QED BY <1>7, <1>13, <3>1 DEF ReadingInv
  <2>3. QED BY <2>1, <2>2
<1>14. latest' \in {0, polls'} /\ \A a \in Client : reading'[a] <= polls
  BY <1>1, <1>5, <1>7, <1>11 DEF ReadingInv
<1>15. UNCHANGED <<polls, current>>
  BY <1>1
<1>16. ReadingInv'
  BY <1>13, <1>14, <1>15 DEF ReadingInv
<1>17. QED BY <1>7, <1>11, <1>16

\* Every step keeps the order of the readings, and no step shows an older one.
LEMMA ReadingInvStep ==
  ASSUME FeedTypes, CastInv, QueueInv, SocketInv, ReadingInv, [FeedNext]_feedVars
  PROVE  ReadingInv' /\ \A b \in Client : reading'[b] >= reading[b]
<1> USE DEF FeedTypes
<1>1. ASSUME UNCHANGED reading PROVE \A b \in Client : reading'[b] >= reading[b]
  BY <1>1
<1>2. ASSUME NEW n \in 0 .. 2, Poll(n) PROVE ReadingInv' /\ UNCHANGED reading
  <2>1. /\ UNCHANGED <<chan, current, reading>> /\ polls' = polls + 1 /\ latest' = polls + 1
    BY <1>2 DEF Poll, browserVars
  <2>2. QED BY <2>1, ReadingsKept
<1>3. ASSUME NEW s \in Socket, SendOne(s) \/ SendTimesOut(s) PROVE ReadingInv' /\ UNCHANGED reading
  <2>1. /\ UNCHANGED <<reading, polls, latest, current>> /\ s \in cast.waiting
        /\ Push(s, Head(queue)) \/ chan' = chan
    BY <1>3 DEF SendOne, SendTimesOut, Sent, SendFailed, ringVars, browserVars
  <2>2. Head(queue) = queue[1] /\ queue[1] \in Frame /\ queue # <<>>
    BY <2>1, SendPushes, HeadIs
  <2>3. queue[1].kind = "metrics" => queue[1].last = polls
    <3>1. Len(queue) \in Nat \ {0}
      BY <2>2, EmptyIs
    <3>2. QED BY <3>1 DEF QueueInv
  <2>4. CASE Push(s, Head(queue))
    BY <2>1, <2>2, <2>3, <2>4, ReadingPushed
  <2>5. CASE chan' = chan
    <3>1. polls' = polls /\ latest' = latest /\ latest \in {0, polls}
      BY <2>1 DEF ReadingInv
    <3>2. QED BY <2>1, <2>5, <3>1, ReadingsKept
  <2>6. QED BY <2>1, <2>4, <2>5
<1>4. ASSUME NEW s \in Socket, SendSnapshot(s) PROVE ReadingInv' /\ UNCHANGED reading
  <2>1. /\ UNCHANGED <<reading, polls, latest, current>>
        /\ IF latest = 0 THEN chan' = chan ELSE Push(s, Metrics(latest))
    BY <1>4 DEF SendSnapshot, ringVars, browserVars
  <2>2. latest \in {0, polls}
    BY DEF ReadingInv
  <2>3. CASE latest = 0
    <3>1. chan' = chan /\ polls' = polls /\ latest' \in {0, polls'}
      BY <2>1, <2>2, <2>3
    <3>2. QED BY <2>1, <3>1, ReadingsKept
  <2>4. CASE latest # 0
    <3>1. Metrics(latest) \in Frame /\ Metrics(latest).last = polls
      BY <2>2, <2>4, FramesAre DEF Metrics
    <3>2. QED BY <2>1, <2>4, <3>1, ReadingPushed
  <2>5. QED BY <2>3, <2>4
<1>5. ASSUME NEW s \in Socket, SendBacklog(s) PROVE ReadingInv' /\ UNCHANGED reading
  <2>1. UNCHANGED <<reading, polls, latest, current>> /\ Push(s, Backlog)
    BY <1>5 DEF SendBacklog, ringVars, browserVars
  <2>2. Backlog \in Frame /\ Backlog.kind # "metrics"
    BY FramesAre DEF Backlog
  <2>3. QED BY <2>1, <2>2, ReadingPushed
<1>6. ASSUME NEW b \in Client, Deliver(b)
      PROVE  ReadingInv' /\ \A a \in Client : reading'[a] >= reading[a]
  <2>1. /\ ReadingInv' /\ reading'[b] >= reading[b]
        /\ \A a \in Client \ {b} : reading'[a] = reading[a]
    BY <1>6, ReadingDelivered
  <2>2. ASSUME NEW a \in Client PROVE reading'[a] >= reading[a]
    <3>1. CASE a = b
      BY <2>1, <3>1
    <3>2. CASE a # b
      <4>1. reading'[a] = reading[a] /\ reading[a] \in Nat
        BY <2>1, <3>2
      <4>2. QED BY <4>1
    <3>3. QED BY <3>1, <3>2
  <2>3. QED BY <2>1, <2>2
<1>7. ASSUME UNCHANGED <<reading, polls>>, latest' \in {0, polls'},
             \A t \in Socket : chan'[t] = chan[t] \/ chan'[t] = <<>>,
             \A b \in Client : current'[b] = current[b] \/ current'[b] = NoSocket
                                                        \/ chan'[current'[b]] = <<>>
      PROVE  ReadingInv' /\ UNCHANGED reading
  BY <1>7, ReadingsKept
<1>8. ASSUME UNCHANGED <<reading, polls, latest>>,
             \A t \in Socket : chan'[t] = chan[t] \/ chan'[t] = <<>>,
             \A b \in Client : current'[b] = current[b] \/ current'[b] = NoSocket
                                                        \/ chan'[current'[b]] = <<>>
      PROVE  ReadingInv' /\ UNCHANGED reading
  <2>1. latest' \in {0, polls'}
    BY <1>8 DEF ReadingInv
  <2>2. QED BY <1>8, <2>1, ReadingsKept
<1>9. ASSUME \/ UNCHANGED feedVars
             \/ \E s \in Socket : \/ CloseOne(s) \/ Admit(s) \/ Reject(s) \/ Recheck(s)
                                  \/ Depart(s) \/ HangUp(s)
             \/ FinishCast \/ Stop
      PROVE  ReadingInv' /\ UNCHANGED reading
  <2>1. UNCHANGED <<reading, polls, latest, chan, current>>
    BY <1>9 DEF feedVars, CloseOne, Admit, Reject, Recheck, Depart, HangUp, FinishCast, Stop,
       ringVars, browserVars
  <2>2. QED BY <1>8, <2>1
<1>10. ASSUME Restart PROVE ReadingInv' /\ UNCHANGED reading
  <2>1. UNCHANGED <<reading, polls, chan, current>> /\ latest' = 0
    BY <1>10 DEF Restart, browserVars
  <2>2. QED BY <1>7, <2>1
<1>11. ASSUME NEW b \in Client, NEW s \in Socket, Connect(b, s)
       PROVE  ReadingInv' /\ UNCHANGED reading
  <2>1. /\ UNCHANGED <<reading, polls, latest, chan>> /\ handler[s] = "free"
        /\ current' = [current EXCEPT ![b] = s]
    BY <1>11 DEF Connect, Handshake, ringVars
  <2>2. chan[s] = <<>>
    BY <2>1 DEF SocketInv
  <2>3. \A a \in Client : current'[a] = current[a] \/ chan'[current'[a]] = <<>>
    BY <2>1, <2>2
  <2>4. QED BY <1>8, <2>1, <2>3
<1>12. ASSUME NEW b \in Client, SeeClose(b) \/ LoseSocket(b) PROVE ReadingInv' /\ UNCHANGED reading
  <2>1. /\ UNCHANGED <<reading, polls, latest>> /\ current[b] \in Socket
        /\ current' = [current EXCEPT ![b] = NoSocket]
        /\ chan' = chan \/ chan' = [chan EXCEPT ![current[b]] = <<>>]
    BY <1>12 DEF SeeClose, LoseSocket, ringVars
  <2>2. \A t \in Socket : chan'[t] = chan[t] \/ chan'[t] = <<>>
    BY <2>1
  <2>3. \A a \in Client : current'[a] = current[a] \/ current'[a] = NoSocket
    BY <2>1
  <2>4. QED BY <1>8, <2>1, <2>2, <2>3
<1>13. QED
  BY <1>1, <1>2, <1>3, <1>4, <1>5, <1>6, <1>9, <1>10, <1>11, <1>12 DEF FeedNext

-----------------------------------------------------------------------------
(* The theorems *)

\* The first state satisfies the invariant.
LEMMA FeedInvInit == FeedInit => FeedInv
<1> SUFFICES ASSUME FeedInit PROVE FeedInv
  OBVIOUS
<1>1. ConnTypeOK /\ cast = Quiet
  BY ConnTypeInit DEF FeedInit, ConnInit
<1>2. /\ queue = <<>> /\ Len(queue) = 0 /\ <<>> \in Seq(Frame) /\ <<>> \in Seq(Nat)
      /\ nextId = 1 /\ latest = 0 /\ polls = 0
  BY EmptySeq, EmptyIs DEF FeedInit
<1>3. /\ \A s \in Socket : wire[s] = "none" /\ chan[s] = <<>> /\ Len(chan[s]) = 0
                          /\ handler[s] = "free"
      /\ \A b \in Client : current[b] = NoSocket /\ reading[b] = 0
  BY EmptySeq DEF FeedInit, ConnInit
<1>4. FeedTypes
  BY <1>1, <1>2 DEF FeedInit, FeedTypes
<1>5. CastInv
  BY <1>1 DEF CastInv, FeedInit, ConnInit, NoGhosts, Quiet
<1>6. QueueInv
  BY <1>1, <1>2 DEF QueueInv, Quiet
<1>7. SocketInv
  BY <1>3 DEF SocketInv, HasBacklog, OneBacklog
<1>8. ChainInv
  BY <1>3 DEF ChainInv, Settled
<1>9. ReadingInv
  BY <1>2, <1>3 DEF ReadingInv
<1>10. QED BY <1>4, <1>5, <1>6, <1>7, <1>8, <1>9 DEF FeedInv

\* Every step keeps the invariant.
LEMMA FeedInvStep == FeedInv /\ [FeedNext]_feedVars => FeedInv'
<1> SUFFICES ASSUME FeedInv, [FeedNext]_feedVars PROVE FeedInv'
  OBVIOUS
<1>1. FeedTypes /\ CastInv /\ QueueInv /\ SocketInv /\ ChainInv /\ ReadingInv /\ ConnTypeOK
  BY DEF FeedInv, FeedTypes
<1>2. FeedTypes' /\ QueueInv' /\ SocketInv' /\ ChainInv' /\ ReadingInv'
  BY <1>1, FeedTypesStep, QueueInvStep, SocketInvStep, ChainInvStep, ReadingInvStep
<1>3. CastInv'
  BY <1>1, FeedConnects, CastInvStep
<1>4. QED BY <1>2, <1>3 DEF FeedInv

\* With nothing under way, the chain of a served browser has only one link left: its last id is
\* the newest.
LEMMA UnbrokenProved == FeedInv => LogUnbroken
<1> SUFFICES ASSUME FeedInv, NEW b \in Client, current[b] # NoSocket, settled[b]
             PROVE  /\ \A i \in 1 .. Len(log[b]) - 1 : log[b][i + 1] = log[b][i] + 1
                    /\ (current[b] \in connections /\ chan[current[b]] = <<>> /\ cast = Quiet)
                         => lastId[b] = nextId - 1
                            /\ (nextId > 1 => log[b][Len(log[b])] = nextId - 1)
  BY DEF LogUnbroken
<1>1. FeedTypes /\ QueueInv /\ SocketInv /\ ChainInv
  BY DEF FeedInv
<1>2. FollowsOn(current[b], 0, lastId[b]) /\ LogEnds(b) /\ current[b] \in Socket
  BY <1>1 DEF ChainInv, Settled, FeedTypes
<1>3. lastId[b] \in Nat /\ nextId \in Nat \ {0}
  BY <1>1 DEF FeedTypes
<1>4. ASSUME current[b] \in connections, chan[current[b]] = <<>>, cast = Quiet
      PROVE  lastId[b] = nextId - 1 /\ (nextId > 1 => log[b][Len(log[b])] = nextId - 1)
  <2>1. Served(current[b])
    <3>1. wire[current[b]] = "open"
      BY <1>1, <1>4 DEF SocketInv
    <3>2. QED BY <1>4, <3>1 DEF Served, Quiet
  <2>2. queue = <<>> /\ Len(chan[current[b]]) = 0
    BY <1>1, <1>4 DEF QueueInv, Quiet
  <2>3. Coming(current[b]) = nextId
    BY <2>2 DEF Coming
  <2>4. Covered(chan[current[b]], 0, 0, lastId[b], nextId - 1) /\ lastId[b] < nextId
    BY <1>2, <2>1, <2>2, <2>3 DEF FollowsOn, Bounded
  <2>5. lastId[b] = nextId - 1
    BY <1>3, <2>4 DEF Covered
  <2>6. nextId > 1 => lastId[b] > 0
    BY <1>3, <2>5
  <2>7. QED BY <1>2, <2>5, <2>6 DEF LogEnds
<1>5. QED BY <1>2, <1>4 DEF LogEnds

\* The invariant holds in every reachable state.
THEOREM FeedInvariant == FeedSpec => []FeedInv
<1>1. QED BY FeedInvInit, FeedInvStep, PTL DEF FeedSpec

\* A browser that got its backlog has a log without a gap or a repetition, however backlog and
\* broadcasts interleave, sockets fail and consoles restart, and a quiet feed has shown it every
\* event, for any number of browsers and sockets and any capacity of the ring
\* (applyServerEvent, applyEventBacklog, websocket_endpoint).
THEOREM LogIsUnbroken == FeedSpec => []LogUnbroken
<1>1. QED BY FeedInvariant, UnbrokenProved, PTL

\* No browser ever goes back to an older reading, on one socket or across reconnects
\* (collect_metrics_loop, updateDashboard).
THEOREM ReadingsAdvance == FeedSpec => ReadingsNeverGoBack
<1>1. ASSUME FeedInv, [FeedNext]_feedVars
      PROVE  [\A b \in Client : reading'[b] >= reading[b]]_feedVars
  BY <1>1, ReadingInvStep DEF FeedInv
<1>2. QED BY <1>1, FeedInvariant, PTL DEF FeedSpec, ReadingsNeverGoBack

\* With the whole feed running, the set holds no socket whose handler is gone, and the gauge
\* counts no more than the set (_discard_websocket).
THEOREM FeedKeepsConnections == FeedSpec => [](NoGhosts /\ GaugeNeverOvercounts)
<1>1. QED BY FeedRunsOnConnections, NoGhostsAlways, GaugeNeverOvercountsAlways, PTL
=============================================================================
