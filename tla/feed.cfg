SPECIFICATION FeedSpec
CONSTANTS
  Socket = {s1, s2}
  Client = {b1}
  NoSocket = NoSocket
  Capacity = 2
  MaxEvents = 3
  MaxPolls = 2
  MaxBoots = 1
SYMMETRY Symmetry
INVARIANTS
  LogUnbroken
  NoGhosts
  GaugeNeverOvercounts
PROPERTIES
  ReadingsNeverGoBack
CHECK_DEADLOCK FALSE
