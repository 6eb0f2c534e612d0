\* Four stores, two consumers of one group and one of another, stale offsets, stops, pruning.
SPECIFICATION FairStreamSpec
CONSTANTS
  s1 = s1  g1 = g1  g2 = g2  c1 = c1  c2 = c2  c3 = c3
  NoOffset = NoOffset
  Stores = {"memory", "sqlite", "postgres", "redis"}
  Streams = {s1}
  Groups = {g1, g2}
  Consumers = {c1, c2, c3}
  stream_of <- AllOnOneStream
  group_of <- TwoGroups
  Limits = {2}
  Throughs = {1, 2}
  MaxEvents = 2
  MaxStops = 1
  MaxPrunes = 1
INVARIANTS StreamTypeOK AckedWasHandled
PROPERTIES PrunedWasHandled EventIsHandled
