SPECIFICATION FairSpec
CONSTANTS
  Items = {a, b, c}
  Senders = {p, q}
  QueueCap = 1
  NoItem = NoItem
INVARIANTS OnePlace
PROPERTIES OverflowMoves ImplementsWorkPool
