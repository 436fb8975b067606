CONSTANTS
  Backend = "qemu_virt"
  MaxLevel = 2
  BootHandlers = {"SOFTWARE", "TIMER", "EXTERNAL"}
  MaxGuards = 2
  Locks = {a, b}
  AppMasks <- MCAppMasks
  FreeGuards = TRUE
SYMMETRY Symmetry
SPECIFICATION LockSpec
INVARIANTS
  NoSelfDeadlock
  MutualExclusion
  GuardMeansMasked
  MaskAsWanted
  NoReentry
PROPERTY TrapTransparent
