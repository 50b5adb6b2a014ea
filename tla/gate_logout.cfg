SPECIFICATION Spec
CONSTANTS
  h1 = h1
  h2 = h2
  t1 = t1
  Token = {t1}
  Handler = {h1, h2}
  Ticket = {}
  NoToken = NoToken
  CacheTTL = 2
  TicketTTL = 1
  InvalidTTL = 1
  Timeout = 1
  Recheck = 1
  SendTime = 0
  MaxCached = 1
  MaxInvalid = 1
  MaxTickets = 1
  Horizon = 4
SYMMETRY Symmetry
INVARIANTS
  LogoutEndsCacheRides
