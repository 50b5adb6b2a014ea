SPECIFICATION Spec
CONSTANTS
  t1 = t1
  h1 = h1
  h2 = h2
  k1 = k1
  k2 = k2
  Token = {t1}
  Handler = {h1, h2}
  Ticket = {k1, k2}
  NoToken = NoToken
  CacheTTL = 2
  TicketTTL = 1
  InvalidTTL = 1
  Timeout = 1
  Recheck = 1
  SendTime = 1
  MaxCached = 1
  MaxInvalid = 1
  MaxTickets = 1
  Horizon = 5
SYMMETRY Symmetry
INVARIANTS
  TypeOK
  RevocationBites
  LiveSessionNeverInvalid
  NeverGrantedPastExpiry
  SocketsSeeRevocation
  RevokedSocketCloses
  TicketOpensOneSocket
  LogoutVoidsTickets
  StoresBounded
PROPERTIES
  ImplementsLease
