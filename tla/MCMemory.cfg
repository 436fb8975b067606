CONSTANTS
  ALIGN = 2
  MAX_ITEMS = 3
  WORD = 32
  Sizes <- MCSizes
  Addresses <- MCAddresses
  HEAP_START = 3
  HEAP_SIZE = 20
  KERNEL_HEAP_SIZE = 4
  PAGE_SIZE = 3
  Garbage <- MCContents
  Elements = {1, 2, 3, 4, 5}
  KeyOf <- MCKeyOf
  Hash <- MCHash
  Blank = Blank
  EmptySlot = EmptySlot
  DeletedSlot = DeletedSlot
  FirstCapacity = 2
  MaxCapacity = 9
  MinCapacity = 4
  Blocks = {b1, b2, b3, b4, b5, b6}
  Null = Null
  Refusable = {"keys"}
  Used = Used
SPECIFICATION MCSpec
INVARIANTS
  FreeListed
  ArenasApart
  ArraysOwned
PROPERTIES
  KeepsPromise
  KeepsPool
  ActsAsTable
