CONSTANTS
  Backend = "qemu_virt"
  MaxLevel = 2
  BootHandlers = {"SOFTWARE", "TIMER", "EXTERNAL"}
  MaxGuards = 1
  Locks = {a}
  AppMasks <- MCAppMasks
  FreeGuards = TRUE
SPECIFICATION LockSpec
INVARIANT HandlerInterruptible
