CONSTANTS
  Backend = "linux_user"
  MaxLevel = 2
  BootHandlers = {}
  MaxGuards = 1
  Locks = {STATIC_TIMER}
  STATIC_TIMER = STATIC_TIMER
  AppMasks <- MCAppMasks
  FreeGuards = FALSE
  Timers = {t1, t2}
  Period = 2
  MaxTime = 2
  MallocMayFail = TRUE
SPECIFICATION FairSpec
INVARIANT ReadyBeforeTick
PROPERTIES
  KeepsPromise
  EveryTimerEnds
