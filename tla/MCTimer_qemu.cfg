CONSTANTS
  Backend = "qemu_virt"
  MaxLevel = 2
  BootHandlers = {"EXTERNAL"}
  MaxGuards = 1
  Locks = {STATIC_TIMER}
  STATIC_TIMER = STATIC_TIMER
  AppMasks <- MCAppMasks
  FreeGuards = TRUE
  Timers = {t1, t2}
  Period = 2
  MaxTime = 2
  MallocMayFail = TRUE
SPECIFICATION FairSpec
PROPERTIES
  KeepsPromise
  ClientOfSpinlock
  EveryTimerEnds
