SPECIFICATION Spec
CONSTANTS
  Slots = {s1, s2}
  Channels = {net, disk}
  Counters = {rx, tx, err}
  Handles = {h1, h2}
  MaxCounters = 2
  NULL = NULL
INVARIANT SampleReachesItsCounter
