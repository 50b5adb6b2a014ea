SPECIFICATION ConnSpec
CONSTANTS
  Socket = {s1, s2}
SYMMETRY Symmetry
INVARIANTS
  GaugeCountsConnections
