SPECIFICATION FairFeedSpec
CONSTANTS
  Socket = {s1, s2}
  Client = {b1}
  NoSocket = NoSocket
  Capacity = 2
  MaxEvents = 2
  MaxPolls = 1
  MaxBoots = 0
PROPERTIES
  EventsArrive
CHECK_DEADLOCK FALSE
