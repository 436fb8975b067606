CONSTANTS
  Elements <- MCElements
  Offered <- MCOffered
  Zeroable <- MCZeroable
  KeyOf <- MCKeyOf
  Hash <- MCHash
  Blank = Blank
  None = None
  EmptySlot = EmptySlot
  DeletedSlot = DeletedSlot
  NoCopy = NoCopy
  FirstCapacity = 2
  MaxCapacity = 9
  MinCapacity = 4
  RingCapacity = 3
  Reserves = {2, 10}
  Items <- MCItems
  Rank <- MCRank
  NoItem = NoItem
  MaxCap = 6
  Values = {x, y, z}
  Capacity = 3
SPECIFICATION MCSpec
INVARIANTS
  OwnedOnce
  ListWhole
  KeysReachable
  HeapOrdered
PROPERTIES
  KeepsSequence
  KeepsMap
  EveryCallEnds
  KeepsOrder
  IsWindow
