SPECIFICATION LiveSpec
CONSTANTS
  Backend = "qemu_virt"
  MaxLevel = 2
  Capacity = 2
  FifoSize = 2
  MaxPut = 4
  MaxIn = 3
  Values <- MCValues
INVARIANTS
  NoUnhandledTrap
  Serialised
  TxInOrder
  RxInOrder
PROPERTIES
  TxDrains
  GetReturns
