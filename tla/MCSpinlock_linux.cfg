CONSTANTS
  Backend = "linux_user"
  MaxLevel = 2
  BootHandlers = {"SOFTWARE", "TIMER", "EXTERNAL"}
  MaxGuards = 2
  Locks = {a, b}
  AppMasks <- MCAppMasks
  FreeGuards = FALSE
SYMMETRY Symmetry
SPECIFICATION LockSpec
INVARIANT HeldMeansMasked
