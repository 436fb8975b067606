CONSTANTS
  Elements = {1, 2}
  Offered <- MCListOnly
  Zeroable = {"list"}
  KeyOf <- MCIdentity
  Hash <- MCIdentity
  Blank = Blank
  None = None
  EmptySlot = EmptySlot
  DeletedSlot = DeletedSlot
  NoCopy = NoCopy
  FirstCapacity = 2
  MaxCapacity = 9
  MinCapacity = 4
  RingCapacity = 3
  Reserves = {2}
SPECIFICATION ContainersFairSpec
PROPERTY EveryCallEnds
