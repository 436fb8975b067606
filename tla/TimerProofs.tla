------------------------------ MODULE TimerProofs ------------------------------
(***************************************************************************)
(* Timer for every set of timers, period, clock bound and both backends:   *)
(* it is a client the spinlock allows, its static queue is touched only    *)
(* under the lock and only once built, and it implements TimerSpec.        *)
(*                                                                         *)
(* The lock is not assumed to work: ClientSteps shows that every step of   *)
(* Timer is a step of Spinlock, and LockInv of SpinlockProofs follows.     *)
(***************************************************************************)
EXTENDS Timer, SpinlockProofs

BootOps == {"boot_lock", "boot_write", "boot_unlock", "boot_register",
            "boot_arm", "boot_enable", "boot_global"}

TickOps == {"handler", "tick", "tick_now", "tick_loop", "tick_pop"}

\* What a context does while it has the lock, and what it took it for.
Critical == {"boot_write", "boot_unlock", "add", "remove", "tick_now",
             "tick_loop", "tick_pop", "unlock"}
Entering == {"boot_write", "add", "remove", "tick_now"}

\* main() before STATIC_TIMER was written, before its handler was registered,
\* and before the first set_timer.
Unbuilt == {"boot_lock", "boot_write"}
Unregistered == Unbuilt \cup {"boot_unlock", "boot_register"}
Unarmed == Unregistered \cup {"boot_arm"}

-------------------------------------------------------------------------------
(* The inductive invariant                                                 *)

\* main() boots, adds and removes; handlers tick.
RolesInv ==
  /\ \A c \in Contexts : c > level => op[c] = "idle"
  /\ op[0] \notin TickOps
  /\ \A c \in Contexts : c > 0 => op[c] \in TickOps \cup {"unlock", "idle"}

\* Where a context stands in the lock's code fits what it is doing.
PhaseInv(c) ==
  /\ pc[c] \in {"lock_clear", "lock_save", "lock_xchg"} =>
       op[c] \in Entering /\ held[c] = <<>>
  /\ pc[c] = "run" =>
       IF op[c] \in Critical THEN held[c] = <<STATIC_TIMER>> ELSE held[c] = <<>>
  /\ pc[c] \in {"unlock_set", "guard_clear"} =>
       op[c] \in {"idle", "boot_register"} /\ held[c] = <<>>
  /\ pc[c] = "dispatch" => op[c] \in {"handler", "tick"}
  /\ pc[c] \in {"sret", "off"} => op[c] = "idle"

\* The order of timer_init, and what makes the interrupt wait for its end.
BootInv ==
  /\ op[0] \in BootOps =>
       guards[0] = <<>> /\ (QemuVirt => wanted[0] \in AppMasks)
  /\ op[0] \in {"boot_enable", "boot_global"} => QemuVirt
  /\ IF op[0] \in Unbuilt THEN queue = {} ELSE ready
  /\ op[0] \in Unregistered \/ "TIMER" \in handlers
  /\ op[0] \in Unarmed => countdown = 0 /\ ~raised /\ level = 0
  /\ level = 1 => frame[1].cause = "TIMER"
  /\ ~At("panic")

\* A timer waits once; a tick called what was due when it read the clock.
QueueInv ==
  /\ \A t \in Timers : t \notin used => t \notin queue /\ calls[t] = 0
  /\ op[0] = "add" =>
       arg[0] \in used /\ arg[0] \notin queue /\ calls[arg[0]] = 0
  /\ \A c \in Contexts : op[c] \in {"tick_loop", "tick_pop"} => time[c] <= now
  /\ \A c \in Contexts :
       c > 0 /\ (op[c] = "unlock" \/ pc[c] = "unlock_set") =>
         \A t \in queue : due[t] > time[c]

TimerInv ==
  /\ TypeOK
  /\ RolesInv
  /\ \A c \in Contexts : PhaseInv(c)
  /\ BootInv
  /\ QueueInv
-------------------------------------------------------------------------------
(* Every step of Timer is a step of Spinlock                               *)

LEMMA TimerInitInv == Init => TimerInv
<1> SUFFICES ASSUME Init PROVE TimerInv
  OBVIOUS
<1> USE TimerAssumption, MaxLevelAssumption
<1>1. LockInit /\ LockInv
  BY InitInv DEF Init
<1>2. TypeOK
  <2>1. (CHOOSE t \in Timers : TRUE) \in Timers
    BY Zenon
  <2>2. arg \in [Contexts -> Timers]
    BY <2>1, Zenon DEF Init
  <2>3. /\ op \in [Contexts -> Ops] /\ time \in [Contexts -> 0..MaxTime]
        /\ due \in [Timers -> 0..MaxTime] /\ calls \in [Timers -> Nat]
    BY DEF Init, Ops
  <2>4. now \in 0..MaxTime /\ countdown \in 0..Period
    BY DEF Init
  <2>5. /\ LockTypeOK /\ raised \in BOOLEAN /\ ready \in BOOLEAN
        /\ queue \in SUBSET Timers /\ used \in SUBSET Timers
    BY <1>1, Zenon DEF Init, LockInv
  <2> QED
    BY <2>2, <2>3, <2>4, <2>5, Zenon DEF TypeOK
<1>3. level = 0 /\ pc = [c \in Contexts |-> IF c = 0 THEN "run" ELSE "off"]
  BY <1>1 DEF LockInit, TrapInit
<1>4. RolesInv
  BY <1>3 DEF Init, RolesInv, TickOps, Contexts
<1>5. \A c \in Contexts : PhaseInv(c)
  BY <1>1, <1>3 DEF Init, LockInit, PhaseInv, Critical, Contexts
<1>6. BootInv
  BY <1>1, <1>3 DEF Init, LockInit, BootInv, Unbuilt, Unregistered, Unarmed,
     BootOps, Contexts, At
<1>7. QueueInv
  BY <1>3 DEF Init, QueueInv, Contexts
<1> QED
  BY <1>2, <1>4, <1>5, <1>6, <1>7 DEF TimerInv

\* timer_init opens the timer class with enable_irq; to the lock this is main
\* setting its mask by hand.
LEMMA InitEnableClient ==
  ASSUME LockInv, TimerInv, InitEnable PROVE \E m \in AppMasks : AppSetMask(m)
<1> USE Levels DEF InitEnable, Doing
<1>1. level = 0 /\ QemuVirt /\ guards[0] = <<>> /\ wanted[0] \in AppMasks
  BY DEF TimerInv, RolesInv, TickOps, BootInv, BootOps
<1>2. held[0] = <<>>
  BY <1>1 DEF TimerInv, PhaseInv, Critical, At
<1>3. mask = wanted[0]
  BY <1>1, <1>2 DEF LockInv, MaskInv, Outer, At
<1>4. mask \cup {"TIMER"} \in AppMasks
  BY <1>1, <1>3, TimerAssumption
<1>5. set_irq(mask \cup {"TIMER"})
  BY <1>1, <1>4, AppMasksAssumption
     DEF enable_irq, set_irq, irq_mask_to_sie, IRQ_MASK_ALL
<1> QED
  BY <1>1, <1>2, <1>4, <1>5 DEF AppSetMask, MainOutside

LEMMA ClientSteps ==
  ASSUME LockInv, TimerInv, [Next]_vars PROVE [LockNext]_spinVars
<1>1. STATIC_TIMER \in Locks /\ "TIMER" \in IRQ_MASK_ALL
  BY TimerAssumption DEF IRQ_MASK_ALL
<1>2. CASE LockSteps \/ OpenGuard \/ DropGuard \/ Unlock
  BY <1>2 DEF LockSteps, OpenGuard, DropGuard, Unlock, LockNext
<1>3. CASE InitLock \/ TickLock
        \/ (\E t \in Timers, d \in 0..MaxTime : AddCall(t, d))
        \/ (\E d \in 0..MaxTime : RemoveCall(d))
  BY <1>1, <1>3 DEF InitLock, TickLock, AddCall, RemoveCall, LockBegin, LockNext
<1>4. CASE InitEnable
  BY <1>4, InitEnableClient DEF LockNext
<1>5. CASE InitRegister \/ InitGlobal
  BY <1>1, <1>5 DEF InitRegister, InitGlobal, LockNext
<1>6. CASE TimerInterrupt \/ Dispatch \/ InterruptReturns
  BY <1>1, <1>6 DEF TimerInterrupt, Dispatch, InterruptReturns, LockNext
<1>7. CASE InitWrite \/ InitArm \/ AddPush \/ RemoveItem \/ ClockTick \/ HandlerArm
             \/ TickNow \/ (\E t \in Timers : TickCall(t)) \/ TickPop \/ TickDone
  BY <1>7 DEF InitWrite, InitArm, AddPush, RemoveItem, ClockTick, HandlerArm,
     TickNow, TickCall, TickPop, TickDone
<1>8. CASE UNCHANGED vars
  BY <1>8 DEF vars
<1> QED
  BY <1>2, <1>3, <1>4, <1>5, <1>6, <1>7, <1>8 DEF Next, Boot, Proceed
-------------------------------------------------------------------------------
(* What each action leaves the invariant with                              *)

LEMMA Shapes ==
  ASSUME LockInv, TimerInv
  PROVE  /\ pc \in [Contexts -> LockPcs]
         /\ held \in [Contexts -> Seq(Locks)]
         /\ wanted \in [Contexts -> SUBSET IRQ_MASK_ALL]
         /\ op \in [Contexts -> Ops]
         /\ arg \in [Contexts -> Timers]
         /\ time \in [Contexts -> 0..MaxTime]
BY DEF LockInv, LockTypeOK, TimerInv, TypeOK

\* Only main() does what no handler does.
LEMMA MainRuns ==
  ASSUME LockInv, TimerInv, op[level] \notin TickOps \cup {"unlock", "idle"}
  PROVE  level = 0
BY Levels DEF TimerInv, RolesInv

\* The steps of lock, unlock and guard that belong to no operation.
LEMMA LockStepsInv ==
  ASSUME LockInv, LockInv', TimerInv, LockSteps PROVE TimerInv'
<1> USE Levels DEF TimerInv, LockSteps, clockVars, timerVars, opVars, At, Goto,
        LockClear, LockSave, LockXchg, UnlockSet, GuardClear, Set
<1>a. /\ level' = level /\ frame' = frame /\ handlers' = handlers
      /\ guards' = guards /\ wanted' = wanted
      /\ pc[level] \in {"lock_clear", "lock_save", "lock_xchg", "unlock_set", "guard_clear"}
      /\ \E p \in {"run", "lock_save", "lock_xchg"} : pc' = [pc EXCEPT ![level] = p]
  BY DEF lockVars
<1>b. pc \in [Contexts -> LockPcs]
  BY DEF LockInv, LockTypeOK
<1>1. TypeOK'
  BY DEF TypeOK, LockInv
<1>2. RolesInv'
  BY <1>a DEF RolesInv
<1>3. \A c \in Contexts : PhaseInv(c)'
  <2>1. CASE LockXchg
    <3>1. held[level] = <<>> /\ target[level] = STATIC_TIMER
      BY <2>1, TimerAssumption DEF PhaseInv, LockInv, LockTypeOK
    <3>2. held' = [held EXCEPT ![level] = <<STATIC_TIMER>>]
      BY <2>1, <3>1
    <3> QED
      BY <1>b, <2>1, <3>2 DEF PhaseInv, Entering, Critical, LockInv, LockTypeOK
  <2>2. CASE LockClear \/ LockSave
    BY <1>b, <2>2 DEF PhaseInv, lockVars
  <2>3. CASE UnlockSet \/ GuardClear
    BY <1>b, <2>3 DEF PhaseInv, Critical, lockVars
  <2> QED
    BY <2>1, <2>2, <2>3
<1>4. BootInv'
  BY <1>a, <1>b DEF BootInv
<1>5. QueueInv'
  BY <1>a, <1>b DEF QueueInv
<1> QED
  BY <1>1, <1>2, <1>3, <1>4, <1>5

\* main() opens and drops guards between its calls.
LEMMA GuardsInv ==
  ASSUME LockInv, LockInv', TimerInv, OpenGuard \/ DropGuard PROVE TimerInv'
<1> USE Levels DEF TimerInv, OpenGuard, DropGuard, clockVars, timerVars, opVars, At,
        Goto, GuardRead, GuardDrop, MayGuard, Set, trapVars
<1>a. /\ level' = level /\ frame' = frame /\ handlers' = handlers /\ wanted' = wanted
      /\ held' = held
      /\ level = 0 /\ op[0] = "idle" /\ pc[0] = "run"
      /\ pc' = pc \/ pc' = [pc EXCEPT ![0] = "guard_clear"]
  OBVIOUS
<1>b. pc \in [Contexts -> LockPcs]
  BY DEF LockInv, LockTypeOK
<1>1. TypeOK'
  BY DEF TypeOK, LockInv
<1>2. RolesInv'
  BY <1>a DEF RolesInv
<1>3. \A c \in Contexts : PhaseInv(c)'
  BY <1>a, <1>b DEF PhaseInv, Critical
<1>4. BootInv'
  BY <1>a, <1>b DEF BootInv, BootOps
<1>5. QueueInv'
  BY <1>a, <1>b DEF QueueInv
<1> QED
  BY <1>1, <1>2, <1>3, <1>4, <1>5

\* The lock is given back when the operation is over.
LEMMA UnlockInv ==
  ASSUME LockInv, LockInv', TimerInv, Unlock PROVE TimerInv'
<1> USE Levels DEF TimerInv, Unlock, clockVars, timerVars, At,
        Goto, UnlockClear, Set, Then
<1>b. /\ pc \in [Contexts -> LockPcs] /\ held \in [Contexts -> Seq(Locks)]
      /\ op \in [Contexts -> Ops]
  BY DEF LockInv, LockTypeOK, TypeOK
<1>c. held[level] = <<STATIC_TIMER>>
  BY DEF PhaseInv, Critical
<1>d. held' = [held EXCEPT ![level] = <<>>]
  <2>1. Pop(<<STATIC_TIMER>>) = <<>>
    BY DEF Pop
  <2> QED
    BY <1>c, <2>1
<1>1. TypeOK'
  BY DEF TypeOK, LockInv, Ops
<1>2. RolesInv'
  BY <1>b DEF RolesInv, TickOps
<1>3. \A c \in Contexts : PhaseInv(c)'
  BY <1>b, <1>d DEF PhaseInv, Critical
<1>4. BootInv'
  BY <1>b DEF BootInv, BootOps, Unbuilt, Unregistered, Unarmed
<1>5. QueueInv'
  BY <1>b DEF QueueInv, RolesInv, TickOps
<1> QED
  BY <1>1, <1>2, <1>3, <1>4, <1>5
-------------------------------------------------------------------------------
(* timer_init *)

LEMMA InitLockInv ==
  ASSUME LockInv, LockInv', TimerInv, InitLock PROVE TimerInv'
<1> USE Levels, Shapes DEF TimerInv, InitLock, LockBegin, LockRead, LockBlock, MayLock,
        clockVars, timerVars, At, Goto, Set, Then, Doing
<1>a. level = 0
  BY MainRuns DEF TickOps
<1>b. /\ level' = level /\ frame' = frame /\ handlers' = handlers
      /\ guards' = guards /\ wanted' = wanted /\ held' = held
      /\ pc' = [pc EXCEPT ![level] = "lock_clear"] \/ pc' = [pc EXCEPT ![level] = "lock_save"]
  OBVIOUS
<1>1. TypeOK'
  BY DEF TypeOK, LockInv, Ops
<1>2. RolesInv'
  BY <1>a, <1>b DEF RolesInv, TickOps
<1>3. \A c \in Contexts : PhaseInv(c)'
  BY <1>a, <1>b DEF PhaseInv, Critical, Entering
<1>4. BootInv'
  BY <1>a, <1>b DEF BootInv, BootOps, Unbuilt, Unregistered, Unarmed
<1>5. QueueInv'
  BY <1>a, <1>b DEF QueueInv
<1> QED
  BY <1>1, <1>2, <1>3, <1>4, <1>5

LEMMA InitWriteInv ==
  ASSUME LockInv, LockInv', TimerInv, InitWrite PROVE TimerInv'
<1> USE Levels, Shapes DEF TimerInv, InitWrite, clockVars, At, Set, Then, Doing
<1>a. level = 0
  BY MainRuns DEF TickOps
<1>b. /\ UNCHANGED <<level, pc, frame, handlers, guards, wanted, held>>
  BY DEF spinVars, trapVars, lockVars
<1>1. TypeOK'
  BY DEF TypeOK, LockInv, Ops
<1>2. RolesInv'
  BY <1>a, <1>b DEF RolesInv, TickOps
<1>3. \A c \in Contexts : PhaseInv(c)'
  BY <1>a, <1>b DEF PhaseInv, Critical, Entering
<1>4. BootInv'
  BY <1>a, <1>b DEF BootInv, BootOps, Unbuilt, Unregistered, Unarmed
<1>5. QueueInv'
  BY <1>a, <1>b DEF QueueInv
<1> QED
  BY <1>1, <1>2, <1>3, <1>4, <1>5

LEMMA InitRegisterInv ==
  ASSUME LockInv, LockInv', TimerInv, InitRegister PROVE TimerInv'
<1> USE Levels, Shapes DEF TimerInv, InitRegister, clockVars, timerVars, At, Set, Then, Doing
<1>a. level = 0
  BY MainRuns DEF TickOps
<1>b. /\ UNCHANGED <<level, pc, frame, guards, wanted, held>>
      /\ handlers' = handlers \cup {"TIMER"}
  BY DEF Register, lockVars,
     trap_set_interrupt_handler
<1>1. TypeOK'
  BY DEF TypeOK, LockInv, Ops
<1>2. RolesInv'
  BY <1>a, <1>b DEF RolesInv, TickOps
<1>3. \A c \in Contexts : PhaseInv(c)'
  BY <1>a, <1>b DEF PhaseInv, Critical, Entering
<1>4. BootInv'
  BY <1>a, <1>b DEF BootInv, BootOps, Unbuilt, Unregistered, Unarmed
<1>5. QueueInv'
  BY <1>a, <1>b DEF QueueInv
<1> QED
  BY <1>1, <1>2, <1>3, <1>4, <1>5

LEMMA InitArmInv ==
  ASSUME LockInv, LockInv', TimerInv, InitArm PROVE TimerInv'
<1> USE Levels, Shapes, TimerAssumption DEF TimerInv, InitArm, timerVars, At, Set, Then, Doing
<1>a. level = 0
  BY MainRuns DEF TickOps
<1>b. /\ UNCHANGED <<level, pc, frame, guards, wanted, held, handlers>>
  BY DEF spinVars, trapVars, lockVars
<1>1. TypeOK'
  BY DEF TypeOK, LockInv, Ops
<1>2. RolesInv'
  BY <1>a, <1>b DEF RolesInv, TickOps
<1>3. \A c \in Contexts : PhaseInv(c)'
  BY <1>a, <1>b DEF PhaseInv, Critical, Entering
<1>4. BootInv'
  BY <1>a, <1>b DEF BootInv, BootOps, Unbuilt, Unregistered, Unarmed
<1>5. QueueInv'
  BY <1>a, <1>b DEF QueueInv
<1> QED
  BY <1>1, <1>2, <1>3, <1>4, <1>5

LEMMA InitEnableInv ==
  ASSUME LockInv, LockInv', TimerInv, InitEnable PROVE TimerInv'
<1> USE Levels, Shapes DEF TimerInv, InitEnable, clockVars, timerVars, At, Set, Then, Doing
<1>a. level = 0
  BY MainRuns DEF TickOps
<1>b. /\ UNCHANGED <<level, pc, frame, guards, held, handlers>>
  BY DEF trapVars
<1>c. wanted'[0] \in AppMasks
  <2>1. QemuVirt
    BY <1>a DEF BootInv
  <2>2. \E m \in AppMasks : set_irq(m)
    BY InitEnableClient DEF AppSetMask
  <2>3. mask' \in AppMasks
    BY <2>1, <2>2, SetIrq, AppMasksAssumption
  <2>4. wanted'[0] = mask'
    BY <1>a, Shapes
  <2> QED
    BY <2>3, <2>4
<1>1. TypeOK'
  BY DEF TypeOK, LockInv, Ops
<1>2. RolesInv'
  BY <1>a, <1>b DEF RolesInv, TickOps
<1>3. \A c \in Contexts : PhaseInv(c)'
  BY <1>a, <1>b DEF PhaseInv, Critical, Entering
<1>4. BootInv'
  BY <1>a, <1>b, <1>c DEF BootInv, BootOps, Unbuilt, Unregistered, Unarmed
<1>5. QueueInv'
  BY <1>a, <1>b DEF QueueInv
<1> QED
  BY <1>1, <1>2, <1>3, <1>4, <1>5

LEMMA InitGlobalInv ==
  ASSUME LockInv, LockInv', TimerInv, InitGlobal PROVE TimerInv'
<1> USE Levels, Shapes DEF TimerInv, InitGlobal, clockVars, timerVars, At, Set, Then, Doing
<1>a. level = 0
  BY MainRuns DEF TickOps
<1>b. /\ UNCHANGED <<level, pc, frame, guards, held, handlers>>
  BY DEF trapVars, AppGlobal
<1>1. TypeOK'
  BY DEF TypeOK, LockInv, Ops
<1>2. RolesInv'
  BY <1>a, <1>b DEF RolesInv, TickOps
<1>3. \A c \in Contexts : PhaseInv(c)'
  BY <1>a, <1>b DEF PhaseInv, Critical, Entering
<1>4. BootInv'
  BY <1>a, <1>b DEF BootInv, BootOps, Unbuilt, Unregistered, Unarmed
<1>5. QueueInv'
  BY <1>a, <1>b DEF QueueInv
<1> QED
  BY <1>1, <1>2, <1>3, <1>4, <1>5
-------------------------------------------------------------------------------
(* timer_add and timer_remove *)

LEMMA AddCallInv ==
  ASSUME LockInv, LockInv', TimerInv, NEW t \in Timers, NEW d \in 0..MaxTime,
         AddCall(t, d)
  PROVE  TimerInv'
<1> USE Levels, Shapes DEF TimerInv, AddCall, LockBegin, LockRead, LockBlock,
        MayLock, clockVars, At, Goto, Set, Then, Doing
<1>b. /\ level' = level /\ frame' = frame /\ handlers' = handlers
      /\ guards' = guards /\ wanted' = wanted /\ held' = held
      /\ pc' = [pc EXCEPT ![level] = "lock_clear"] \/ pc' = [pc EXCEPT ![level] = "lock_save"]
  OBVIOUS
<1>1. TypeOK'
  BY DEF TypeOK, LockInv, Ops
<1>2. RolesInv'
  BY <1>b DEF RolesInv, TickOps
<1>3. \A c \in Contexts : PhaseInv(c)'
  BY <1>b DEF PhaseInv, Critical, Entering
<1>4. BootInv'
  BY <1>b DEF BootInv, BootOps, Unbuilt, Unregistered, Unarmed
<1>5. QueueInv'
  BY <1>b DEF QueueInv
<1> QED
  BY <1>1, <1>2, <1>3, <1>4, <1>5

LEMMA AddPushInv ==
  ASSUME LockInv, LockInv', TimerInv, AddPush PROVE TimerInv'
<1> USE Levels, Shapes DEF TimerInv, AddPush, clockVars, At, Set, Then, Doing
<1>a. level = 0
  BY MainRuns DEF TickOps
<1>b. UNCHANGED <<level, pc, frame, handlers, guards, wanted, held>>
  BY DEF spinVars, trapVars, lockVars
<1>c. /\ arg[0] \in Timers /\ time[0] \in 0..MaxTime
      /\ due \in [Timers -> 0..MaxTime] /\ queue \in SUBSET Timers
  BY <1>a DEF TypeOK
<1>d. due' \in [Timers -> 0..MaxTime] /\ queue' \in SUBSET Timers
  BY <1>a, <1>c
<1>e. queue' \subseteq queue \cup {arg[0]} /\ arg[0] \in used
  BY <1>a DEF QueueInv
<1>f. op' = [op EXCEPT ![0] = "unlock"] /\ op' \in [Contexts -> Ops]
  BY <1>a DEF Ops
<1>g. \A c \in Contexts : c > 0 => op'[c] = "idle" /\ pc'[c] = "off"
  BY <1>a, <1>b, <1>f DEF RolesInv, LockInv, StackInv
<1>1. TypeOK'
  <2>1. LockTypeOK'
    BY DEF LockInv
  <2> QED
    BY <2>1, <1>d, <1>f, Zenon DEF TypeOK
<1>2. RolesInv'
  BY <1>a, <1>b DEF RolesInv, TickOps
<1>3. \A c \in Contexts : PhaseInv(c)'
  BY <1>a, <1>b DEF PhaseInv, Critical, Entering
<1>4. BootInv'
  BY <1>a, <1>b DEF BootInv, BootOps, Unbuilt, Unregistered, Unarmed
<1>5. QueueInv'
  <2>1. \A t \in Timers : t \notin used => t \notin queue' /\ calls[t] = 0
    BY <1>e DEF QueueInv
  <2>2. \A c \in Contexts : op'[c] \in {"tick_loop", "tick_pop"} => time[c] <= now
    BY <1>f DEF QueueInv
  <2> QED
    BY <2>1, <2>2, <1>f, <1>g DEF QueueInv
<1> QED
  BY <1>1, <1>2, <1>3, <1>4, <1>5

LEMMA RemoveCallInv ==
  ASSUME LockInv, LockInv', TimerInv, NEW d \in 0..MaxTime, RemoveCall(d)
  PROVE  TimerInv'
<1> USE Levels, Shapes DEF TimerInv, RemoveCall, LockBegin, LockRead, LockBlock,
        MayLock, clockVars, timerVars, At, Goto, Set, Then, Doing
<1>b. /\ level' = level /\ frame' = frame /\ handlers' = handlers
      /\ guards' = guards /\ wanted' = wanted /\ held' = held
      /\ pc' = [pc EXCEPT ![level] = "lock_clear"] \/ pc' = [pc EXCEPT ![level] = "lock_save"]
  OBVIOUS
<1>1. TypeOK'
  BY DEF TypeOK, LockInv, Ops
<1>2. RolesInv'
  BY <1>b DEF RolesInv, TickOps
<1>3. \A c \in Contexts : PhaseInv(c)'
  BY <1>b DEF PhaseInv, Critical, Entering
<1>4. BootInv'
  BY <1>b DEF BootInv, BootOps, Unbuilt, Unregistered, Unarmed
<1>5. QueueInv'
  BY <1>b DEF QueueInv
<1> QED
  BY <1>1, <1>2, <1>3, <1>4, <1>5

LEMMA RemoveItemInv ==
  ASSUME LockInv, LockInv', TimerInv, RemoveItem PROVE TimerInv'
<1> USE Levels, Shapes DEF TimerInv, RemoveItem, clockVars, At, Set, Then, Doing
<1>a. level = 0
  BY MainRuns DEF TickOps
<1>b. UNCHANGED <<level, pc, frame, handlers, guards, wanted, held>>
  BY DEF spinVars, trapVars, lockVars
<1>c. queue' \subseteq queue
  OBVIOUS
<1>1. TypeOK'
  BY <1>c DEF TypeOK, LockInv, Ops
<1>2. RolesInv'
  BY <1>a, <1>b DEF RolesInv, TickOps
<1>3. \A c \in Contexts : PhaseInv(c)'
  BY <1>a, <1>b DEF PhaseInv, Critical, Entering
<1>4. BootInv'
  BY <1>a, <1>b, <1>c DEF BootInv, BootOps, Unbuilt, Unregistered, Unarmed
<1>5. QueueInv'
  BY <1>a, <1>b, <1>c DEF QueueInv
<1> QED
  BY <1>1, <1>2, <1>3, <1>4, <1>5
-------------------------------------------------------------------------------
(* The clock and the timer interrupt *)

LEMMA ClockTickInv ==
  ASSUME LockInv, LockInv', TimerInv, ClockTick PROVE TimerInv'
<1> USE Levels, Shapes, TimerAssumption
    DEF TimerInv, ClockTick, timerVars, opVars, At
<1>b. UNCHANGED <<level, pc, frame, handlers, guards, wanted, held>>
  BY DEF spinVars, trapVars, lockVars
<1>c. now' \in 0..MaxTime /\ now <= now' /\ countdown' \in 0..Period
  BY DEF TypeOK
<1>d. op[0] \in Unarmed => countdown' = 0 /\ ~raised'
  <2> SUFFICES ASSUME op[0] \in Unarmed PROVE countdown' = 0 /\ ~raised'
    OBVIOUS
  <2>1. countdown = 0 /\ ~raised
    BY DEF BootInv
  <2>2. ~raised'
    <3>1. countdown # 1
      BY <2>1
    <3> QED
      BY <2>1, <3>1, Zenon
  <2> QED
    BY <2>1, <2>2
<1>e. raised' \in BOOLEAN
  BY Zenon DEF TypeOK
<1>1. TypeOK'
  BY <1>c, <1>e DEF TypeOK, LockInv
<1>2. RolesInv'
  BY <1>b DEF RolesInv
<1>3. \A c \in Contexts : PhaseInv(c)'
  BY <1>b DEF PhaseInv
<1>4. BootInv'
  BY <1>b, <1>d DEF BootInv
<1>5. QueueInv'
  BY <1>b, <1>c DEF QueueInv, TypeOK
<1> QED
  BY <1>1, <1>2, <1>3, <1>4, <1>5

LEMMA TimerInterruptInv ==
  ASSUME LockInv, LockInv', TimerInv, TimerInterrupt PROVE TimerInv'
<1> USE Levels, Shapes DEF TimerInv, TimerInterrupt, timerVars, At, Interrupt, TrapEnter
<1>a. level = 0 /\ level' = 1 /\ 1 \in Contexts
  BY DEF LockInv, StackInv, LockTypeOK, Contexts
<1>b. /\ pc' = [pc EXCEPT ![1] = "dispatch"]
      /\ op' = [op EXCEPT ![1] = IF QemuVirt THEN "handler" ELSE "tick"]
      /\ frame'[1].cause = "TIMER"
      /\ UNCHANGED <<handlers, guards, held>>
      /\ wanted'[0] = wanted[0]
  BY <1>a DEF LockInv, LockTypeOK
<1>c. raised /\ op[0] \notin Unarmed
  BY DEF BootInv
<1>1. TypeOK'
  BY <1>a, <1>b DEF TypeOK, LockInv, Ops
<1>2. RolesInv'
  BY <1>a, <1>b DEF RolesInv, TickOps, Contexts
<1>3. \A c \in Contexts : PhaseInv(c)'
  BY <1>a, <1>b DEF PhaseInv, Critical, Entering
<1>4. BootInv'
  BY <1>a, <1>b, <1>c DEF BootInv, Unbuilt, Unregistered, Unarmed
<1>5. QueueInv'
  BY <1>a, <1>b DEF QueueInv
<1> QED
  BY <1>1, <1>2, <1>3, <1>4, <1>5

LEMMA DispatchInv ==
  ASSUME LockInv, LockInv', TimerInv, Dispatch PROVE TimerInv'
<1> USE Levels, Shapes DEF TimerInv, Dispatch, clockVars, timerVars, opVars, At, Goto, TrapDispatch
<1>a. level = 1
  BY DEF LockInv, StackInv
<1>b. UNCHANGED <<level, frame, handlers, guards, held, wanted>>
  BY DEF lockVars
<1>c. pc' = [pc EXCEPT ![1] = "run"]
  <2>1. op[0] \notin Unarmed
    BY <1>a DEF BootInv
  <2>2. "TIMER" \in handlers /\ frame[1].cause = "TIMER"
    BY <1>a, <2>1 DEF BootInv, Unarmed
  <2> QED
    BY <1>a, <2>2
<1>1. TypeOK'
  BY <1>a, <1>b DEF TypeOK, LockInv, Ops
<1>2. RolesInv'
  BY <1>a, <1>b DEF RolesInv, TickOps
<1>3. \A c \in Contexts : PhaseInv(c)'
  BY <1>a, <1>b, <1>c DEF PhaseInv, Critical, LockInv, StackInv
<1>4. BootInv'
  BY <1>a, <1>b, <1>c DEF BootInv
<1>5. QueueInv'
  BY <1>a, <1>b, <1>c DEF QueueInv
<1> QED
  BY <1>1, <1>2, <1>3, <1>4, <1>5
-------------------------------------------------------------------------------
(* timer_tick *)

\* main() does not tick.
LEMMA HandlerRuns ==
  ASSUME LockInv, TimerInv, op[level] \in TickOps
  PROVE  level = 1 /\ 1 \in Contexts
BY Levels DEF TimerInv, RolesInv

LEMMA HandlerArmInv ==
  ASSUME LockInv, LockInv', TimerInv, HandlerArm PROVE TimerInv'
<1> USE Levels, Shapes, TimerAssumption
    DEF TimerInv, HandlerArm, timerVars, At, Set, Then, Doing
<1>a. level = 1 /\ 1 \in Contexts
  BY HandlerRuns DEF TickOps
<1>b. UNCHANGED <<level, pc, frame, handlers, guards, wanted, held>>
  BY DEF spinVars, trapVars, lockVars
<1>1. TypeOK'
  <2>1. LockTypeOK'
    BY DEF LockInv
  <2>2. op' \in [Contexts -> Ops] /\ countdown' \in 0..Period
    BY <1>a DEF Ops
  <2>4. raised' \in BOOLEAN
    BY Zenon
  <2>3. UNCHANGED <<now, ready, queue, due, used, calls, arg, time>>
    OBVIOUS
  <2> QED
    BY <2>1, <2>2, <2>3, <2>4, Zenon DEF TypeOK
<1>2. RolesInv'
  BY <1>a, <1>b DEF RolesInv, TickOps
<1>3. \A c \in Contexts : PhaseInv(c)'
  BY <1>a, <1>b DEF PhaseInv, Critical, Entering
<1>4. BootInv'
  BY <1>a, <1>b DEF BootInv
<1>5. QueueInv'
  BY <1>a, <1>b DEF QueueInv
<1> QED
  BY <1>1, <1>2, <1>3, <1>4, <1>5

LEMMA TickLockInv ==
  ASSUME LockInv, LockInv', TimerInv, TickLock PROVE TimerInv'
<1> USE Levels, Shapes DEF TimerInv, TickLock, LockBegin, LockRead, LockBlock,
        MayLock, clockVars, timerVars, At, Goto, Set, Then, Doing
<1>a. level = 1 /\ 1 \in Contexts
  BY HandlerRuns DEF TickOps
<1>b. /\ level' = level /\ frame' = frame /\ handlers' = handlers
      /\ guards' = guards /\ wanted' = wanted /\ held' = held
      /\ pc' = [pc EXCEPT ![level] = "lock_clear"] \/ pc' = [pc EXCEPT ![level] = "lock_save"]
  OBVIOUS
<1>1. TypeOK'
  BY DEF TypeOK, LockInv, Ops
<1>2. RolesInv'
  BY <1>a, <1>b DEF RolesInv, TickOps
<1>3. \A c \in Contexts : PhaseInv(c)'
  BY <1>a, <1>b DEF PhaseInv, Critical, Entering
<1>4. BootInv'
  BY <1>a, <1>b DEF BootInv
<1>5. QueueInv'
  BY <1>a, <1>b DEF QueueInv
<1> QED
  BY <1>1, <1>2, <1>3, <1>4, <1>5

LEMMA TickNowInv ==
  ASSUME LockInv, LockInv', TimerInv, TickNow PROVE TimerInv'
<1> USE Levels, Shapes DEF TimerInv, TickNow, clockVars, timerVars, At, Set, Then, Doing
<1>a. level = 1 /\ 1 \in Contexts
  BY HandlerRuns DEF TickOps
<1>b. UNCHANGED <<level, pc, frame, handlers, guards, wanted, held>>
  BY DEF spinVars, trapVars, lockVars
<1>1. TypeOK'
  BY DEF TypeOK, LockInv, Ops
<1>2. RolesInv'
  BY <1>a, <1>b DEF RolesInv, TickOps
<1>3. \A c \in Contexts : PhaseInv(c)'
  BY <1>a, <1>b DEF PhaseInv, Critical, Entering
<1>4. BootInv'
  BY <1>a, <1>b DEF BootInv
<1>5. QueueInv'
  <2>1. now \in 0..MaxTime /\ time' = [time EXCEPT ![1] = now]
    BY <1>a DEF TypeOK
  <2>2. op' = [op EXCEPT ![1] = "tick_loop"] /\ pc[1] = "run"
    BY <1>a
  <2> QED
    BY <1>a, <1>b, <2>1, <2>2, TimerAssumption DEF QueueInv
<1> QED
  BY <1>1, <1>2, <1>3, <1>4, <1>5

LEMMA TickCallInv ==
  ASSUME LockInv, LockInv', TimerInv, NEW t \in Timers, TickCall(t)
  PROVE  TimerInv'
<1> USE Levels, Shapes DEF TimerInv, TickCall, clockVars, At, Set, Then, Doing
<1>a. level = 1 /\ 1 \in Contexts
  BY HandlerRuns DEF TickOps
<1>b. UNCHANGED <<level, pc, frame, handlers, guards, wanted, held>>
  BY DEF spinVars, trapVars, lockVars
<1>c. calls' \in [Timers -> Nat] /\ \A u \in Timers : u # t => calls'[u] = calls[u]
  BY DEF TypeOK
<1>d. t \in used /\ (op[0] = "add" => t # arg[0])
  BY DEF QueueInv
<1>1. TypeOK'
  BY <1>c DEF TypeOK, LockInv, Ops
<1>2. RolesInv'
  BY <1>a, <1>b DEF RolesInv, TickOps
<1>3. \A c \in Contexts : PhaseInv(c)'
  BY <1>a, <1>b DEF PhaseInv, Critical, Entering
<1>4. BootInv'
  BY <1>a, <1>b DEF BootInv
<1>5. QueueInv'
  BY <1>a, <1>b, <1>c, <1>d DEF QueueInv
<1> QED
  BY <1>1, <1>2, <1>3, <1>4, <1>5

LEMMA TickPopInv ==
  ASSUME LockInv, LockInv', TimerInv, TickPop PROVE TimerInv'
<1> USE Levels, Shapes DEF TimerInv, TickPop, clockVars, At, Set, Then, Doing
<1>a. level = 1 /\ 1 \in Contexts
  BY HandlerRuns DEF TickOps
<1>b. UNCHANGED <<level, pc, frame, handlers, guards, wanted, held>>
  BY DEF spinVars, trapVars, lockVars
<1>c. queue' \subseteq queue
  OBVIOUS
<1>1. TypeOK'
  BY <1>c DEF TypeOK, LockInv, Ops
<1>2. RolesInv'
  BY <1>a, <1>b DEF RolesInv, TickOps
<1>3. \A c \in Contexts : PhaseInv(c)'
  BY <1>a, <1>b DEF PhaseInv, Critical, Entering
<1>4. BootInv'
  BY <1>a, <1>b, <1>c DEF BootInv
<1>5. QueueInv'
  BY <1>a, <1>b, <1>c DEF QueueInv
<1> QED
  BY <1>1, <1>2, <1>3, <1>4, <1>5

LEMMA TickDoneInv ==
  ASSUME LockInv, LockInv', TimerInv, TickDone PROVE TimerInv'
<1> USE Levels, Shapes DEF TimerInv, TickDone, clockVars, timerVars, At, Set, Then, Doing
<1>a. level = 1 /\ 1 \in Contexts
  BY HandlerRuns DEF TickOps
<1>b. UNCHANGED <<level, pc, frame, handlers, guards, wanted, held>>
  BY DEF spinVars, trapVars, lockVars
<1>1. TypeOK'
  BY DEF TypeOK, LockInv, Ops
<1>2. RolesInv'
  BY <1>a, <1>b DEF RolesInv, TickOps
<1>3. \A c \in Contexts : PhaseInv(c)'
  BY <1>a, <1>b DEF PhaseInv, Critical, Entering
<1>4. BootInv'
  BY <1>a, <1>b DEF BootInv
<1>5. QueueInv'
  BY <1>a, <1>b DEF QueueInv, Contexts
<1> QED
  BY <1>1, <1>2, <1>3, <1>4, <1>5

LEMMA InterruptReturnsInv ==
  ASSUME LockInv, LockInv', TimerInv, InterruptReturns PROVE TimerInv'
<1> USE Levels, Shapes DEF TimerInv, InterruptReturns, HandlerReturns, TrapRestore,
        TrapReturn, clockVars, timerVars, opVars, At, Goto, Doing
<1>a. level = 1 /\ op[1] = "idle"
  BY DEF LockInv, StackInv, PhaseInv
<1>b. UNCHANGED <<frame, handlers, guards, held, wanted>>
  BY DEF lockVars
<1>c. \/ level' = 1 /\ pc' = [pc EXCEPT ![1] = "sret"]
      \/ level' = 0 /\ pc' = [pc EXCEPT ![1] = "off"]
  BY <1>a
<1>1. TypeOK'
  BY DEF TypeOK, LockInv
<1>2. RolesInv'
  BY <1>a, <1>c DEF RolesInv, Contexts
<1>3. \A c \in Contexts : PhaseInv(c)'
  BY <1>a, <1>b, <1>c DEF PhaseInv
<1>4. BootInv'
  BY <1>a, <1>b, <1>c DEF BootInv, LockInv, StackInv
<1>5. QueueInv'
  BY <1>a, <1>b, <1>c DEF QueueInv
<1> QED
  BY <1>1, <1>2, <1>3, <1>4, <1>5
-------------------------------------------------------------------------------
LEMMA TimerStutters ==
  ASSUME TimerInv, UNCHANGED vars PROVE TimerInv'
<1> USE DEF vars, spinVars, irqVars, trapVars, lockVars, clockVars, timerVars, opVars
<1>1. TypeOK'
  BY DEF TimerInv, TypeOK, LockTypeOK, IrqTypeOK
<1>2. RolesInv' /\ BootInv'
  BY DEF TimerInv, RolesInv, BootInv, At
<1>3. \A c \in Contexts : PhaseInv(c)'
  BY DEF TimerInv, PhaseInv
<1>4. QueueInv'
  BY DEF TimerInv, QueueInv
<1> QED
  BY <1>1, <1>2, <1>3, <1>4 DEF TimerInv

LEMMA TimerStepInv ==
  ASSUME GuardDiscipline, LockInv, TimerInv, [Next]_vars
  PROVE  LockInv' /\ TimerInv'
<1>1. LockInv'
  BY ClientSteps, StepInv
<1>2. CASE Boot
  BY <1>1, <1>2, InitLockInv, InitWriteInv, InitRegisterInv, InitArmInv,
     InitEnableInv, InitGlobalInv DEF Boot
<1>3. CASE LockSteps \/ Unlock \/ OpenGuard \/ DropGuard
  BY <1>1, <1>3, LockStepsInv, UnlockInv, GuardsInv
<1>4. CASE AddPush \/ RemoveItem \/ (\E d \in 0..MaxTime : RemoveCall(d))
             \/ (\E t \in Timers, d \in 0..MaxTime : AddCall(t, d))
  BY <1>1, <1>4, AddPushInv, RemoveItemInv, RemoveCallInv, AddCallInv
<1>5. CASE ClockTick \/ TimerInterrupt \/ Dispatch \/ InterruptReturns
  BY <1>1, <1>5, ClockTickInv, TimerInterruptInv, DispatchInv, InterruptReturnsInv
<1>6. CASE HandlerArm \/ TickLock \/ TickNow \/ (\E t \in Timers : TickCall(t))
             \/ TickPop \/ TickDone
  BY <1>1, <1>6, HandlerArmInv, TickLockInv, TickNowInv, TickCallInv,
     TickPopInv, TickDoneInv
<1>7. CASE UNCHANGED vars
  BY <1>1, <1>7, TimerStutters
<1> QED
  BY <1>1, <1>2, <1>3, <1>4, <1>5, <1>6, <1>7 DEF Next, Proceed

LEMMA TimerInvariance ==
  ASSUME GuardDiscipline PROVE Spec => [](LockInv /\ TimerInv)
<1>1. Init => LockInv /\ TimerInv
  BY InitInv, TimerInitInv DEF Init
<1>2. (LockInv /\ TimerInv) /\ [Next]_vars => (LockInv /\ TimerInv)'
  BY TimerStepInv
<1> QED
  BY <1>1, <1>2, PTL DEF Spec
-------------------------------------------------------------------------------
(* The properties of Timer *)

\* Every variable keeps its type, whatever main() and the interrupt do.
THEOREM TimerTypesHold == ASSUME GuardDiscipline PROVE Spec => []TypeOK
<1>1. LockInv /\ TimerInv => TypeOK
  BY DEF TimerInv
<1> QED
  BY TimerInvariance, <1>1, PTL

\* timer_init, timer_add, timer_remove and timer_tick use the spinlock the way
\* its theorems ask for: they do not lock STATIC_TIMER twice, and they touch
\* the mask by hand only in timer_init.  So all SpinlockProofs shows of LockSpec
\* holds while the timer runs.
THEOREM TimerIsClient == ASSUME GuardDiscipline PROVE Spec => ClientOfSpinlock
<1>1. Init => LockInit
  BY DEF Init
<1>2. LockInv /\ TimerInv /\ [Next]_vars => [LockNext]_spinVars
  BY ClientSteps
<1> QED
  BY TimerInvariance, <1>1, <1>2, PTL DEF Spec, ClientOfSpinlock

\* No timer interrupt meets an unbuilt STATIC_TIMER or an empty slot in the
\* dispatch table: timer_init registers and arms after the write, and boot
\* keeps the class closed on qemu_virt and the timer unset on linux_user.
THEOREM TicksAfterInit == ASSUME GuardDiscipline PROVE Spec => []ReadyBeforeTick
<1>1. LockInv /\ TimerInv => ReadyBeforeTick
  <2> SUFFICES ASSUME LockInv, TimerInv PROVE ReadyBeforeTick
    OBVIOUS
  <2>1. level = 1 => ready
    BY DEF TimerInv, BootInv, Unarmed, Unregistered
  <2> QED
    BY <2>1, Levels DEF ReadyBeforeTick, TimerInv, BootInv
<1> QED
  BY TimerInvariance, <1>1, PTL

\* When timer_tick gives the lock back, nothing in the queue was due at the
\* time it read the clock.
THEOREM TicksAreComplete == ASSUME GuardDiscipline PROVE Spec => []TickLeavesNothingDue
<1>1. LockInv /\ TimerInv => TickLeavesNothingDue
  BY Levels DEF TimerInv, QueueInv, TickLeavesNothingDue, At
<1> QED
  BY TimerInvariance, <1>1, PTL

\* The code of timer_init, timer_add, timer_remove and timer_tick that reads or
\* writes the static Timer.
TouchesQueue == At("run") /\ op[level] \in Critical \ {"boot_unlock", "unlock"}

\* Whoever touches the static Timer holds its lock, has every interrupt shut
\* out, and is alone: no other context holds it or is half way through.
QueueGuarded ==
  TouchesQueue =>
    /\ held[level] = <<STATIC_TIMER>>
    /\ Masked
    /\ \A c \in Contexts : c # level => held[c] = <<>>

\* The queue is a static that main() and the handler share; timer.rs takes
\* STATIC_TIMER.lock() around every access, and that is enough.
THEOREM TimerIsGuarded == ASSUME GuardDiscipline PROVE Spec => []QueueGuarded
<1>1. LockInv /\ TimerInv => QueueGuarded
  <2> SUFFICES ASSUME LockInv, TimerInv, TouchesQueue
               PROVE  /\ held[level] = <<STATIC_TIMER>>
                      /\ Masked
                      /\ \A c \in Contexts : c # level => held[c] = <<>>
    BY DEF QueueGuarded
  <2>1. held[level] = <<STATIC_TIMER>>
    BY Levels DEF TimerInv, PhaseInv, TouchesQueue, At
  <2>2. held[level] # <<>>
    BY <2>1
  <2>3. Masked
    <3>1. Closed(mask)
      BY <2>2 DEF LockInv, MaskInv
    <3> QED
      BY <3>1 DEF Closed, Masked, Deliverable
  <2>4. \A c \in Contexts : c # level => held[c] = <<>>
    <3> SUFFICES ASSUME NEW c \in Contexts, c # level PROVE held[c] = <<>>
      OBVIOUS
    <3>1. CASE c > level
      BY <3>1 DEF LockInv, StackInv
    <3>2. CASE level = 1 /\ c = 0
      BY <3>2 DEF LockInv, MainInterrupted
    <3> QED
      BY <3>1, <3>2, Levels, MaxLevelAssumption DEF Contexts
  <2> QED
    BY <2>1, <2>3, <2>4
<1> QED
  BY TimerInvariance, <1>1, PTL
-------------------------------------------------------------------------------
(* Timer implements TimerSpec *)

Pending == queue \ {arg[c] : c \in {k \in Contexts : op[k] = "tick_pop"}}

\* Between its callback and its pop an item is queued and no longer pending;
\* only the handler, while it runs, is at that point.
LEMMA PendingIs ==
  LockInv /\ TimerInv =>
    Pending = IF op[level] = "tick_pop" THEN queue \ {arg[level]} ELSE queue
<1> SUFFICES ASSUME LockInv, TimerInv
             PROVE  Pending = IF op[level] = "tick_pop" THEN queue \ {arg[level]} ELSE queue
  OBVIOUS
<1>1. level \in Contexts
  BY Levels
<1>2. ASSUME NEW c \in Contexts, op[c] = "tick_pop" PROVE c = level
  BY <1>2, Levels, MaxLevelAssumption DEF TimerInv, RolesInv, TickOps, Contexts
<1> QED
  BY <1>1, <1>2, Zenon DEF Pending

\* A step that neither calls nor pops leaves pending what is queued.
LEMMA PendingStays ==
  ASSUME LockInv, TimerInv, LockInv', TimerInv',
         op[level] # "tick_pop", op'[level'] # "tick_pop"
  PROVE  Pending = queue /\ Pending' = queue'
<1>1. Pending' = IF op'[level'] = "tick_pop" THEN queue' \ {arg'[level']} ELSE queue'
  <2>1. (LockInv /\ TimerInv =>
          Pending = IF op[level] = "tick_pop" THEN queue \ {arg[level]} ELSE queue)'
    BY PendingIs, PTL
  <2> QED
    BY <2>1, Zenon
<1> QED
  BY <1>1, PendingIs

\* The item whose callback ran is still the root: tick holds the lock, and
\* nobody touches the queue between the callback and the pop.
RootInv ==
  op[level] = "tick_pop" =>
    arg[level] \in queue /\ \A u \in queue : due[arg[level]] <= due[u]

LEMMA RootStep ==
  ASSUME LockInv, TimerInv, LockInv', TimerInv', RootInv, [Next]_vars
  PROVE  RootInv'
<1> USE Levels, Shapes DEF Set, Then, Doing
<1> SUFFICES ASSUME op'[level'] = "tick_pop"
             PROVE  /\ arg'[level'] \in queue'
                    /\ \A u \in queue' : due'[arg'[level']] <= due'[u]
  BY DEF RootInv
<1>a. level' = 1 /\ 1 \in Contexts
  <2>1. (LockInv /\ TimerInv /\ op[level] \in TickOps => level = 1 /\ 1 \in Contexts)'
    BY HandlerRuns, PTL
  <2> QED
    BY <2>1 DEF TickOps
<1>1. ASSUME NEW t \in Timers, TickCall(t)
      PROVE  /\ arg'[level'] \in queue'
             /\ \A u \in queue' : due'[arg'[level']] <= due'[u]
  <2>1. level' = level /\ arg'[level'] = t
    BY <1>1, <1>a DEF TickCall, spinVars, trapVars
  <2> QED
    BY <1>1, <2>1 DEF TickCall
<1>2. CASE LockSteps \/ OpenGuard \/ DropGuard \/ Dispatch \/ InterruptReturns
             \/ ClockTick \/ UNCHANGED vars
  <2>1. UNCHANGED <<op, arg, queue, due>>
    BY <1>2, Zenon DEF LockSteps, OpenGuard, DropGuard, Dispatch, InterruptReturns,
       ClockTick, vars, timerVars, opVars
  <2>2. level = 1
    BY <1>a, <2>1 DEF TimerInv, RolesInv, Contexts
  <2> QED
    BY <1>a, <2>1, <2>2 DEF RootInv
<1>3. CASE InitLock \/ TickLock \/ (\E d \in 0..MaxTime : RemoveCall(d))
             \/ (\E t \in Timers, d \in 0..MaxTime : AddCall(t, d))
  <2>1. level' = level
    BY <1>3 DEF InitLock, TickLock, RemoveCall, AddCall, LockBegin, LockRead, LockBlock
  <2>2. op'[level] # "tick_pop"
    BY <1>3 DEF InitLock, TickLock, RemoveCall, AddCall
  <2> QED
    BY <2>1, <2>2
<1>4. CASE Unlock \/ InitWrite \/ InitRegister \/ InitArm \/ InitEnable \/ InitGlobal
             \/ AddPush \/ RemoveItem
  <2>1. level' = level
    BY <1>4 DEF Unlock, InitWrite, InitRegister, InitArm, InitEnable, InitGlobal,
       AddPush, RemoveItem, UnlockClear, Register, AppGlobal, trapVars, spinVars
  <2>2. op'[level] # "tick_pop"
    BY <1>4 DEF Unlock, InitWrite, InitRegister, InitArm, InitEnable, InitGlobal,
       AddPush, RemoveItem
  <2> QED
    BY <2>1, <2>2
<1>5. CASE HandlerArm \/ TickNow \/ TickPop \/ TickDone
  <2>1. level' = level
    BY <1>5 DEF HandlerArm, TickNow, TickPop, TickDone, trapVars, spinVars
  <2>2. op'[level] # "tick_pop"
    BY <1>5 DEF HandlerArm, TickNow, TickPop, TickDone
  <2> QED
    BY <2>1, <2>2
<1>6. CASE TimerInterrupt
  <2>1. level' = level + 1
    BY <1>6 DEF TimerInterrupt, Interrupt, TrapEnter
  <2>2. op'[level'] # "tick_pop"
    BY <1>6, <1>a, <2>1 DEF TimerInterrupt
  <2> QED
    BY <2>2
<1> QED
  BY <1>1, <1>2, <1>3, <1>4, <1>5, <1>6 DEF Next, Boot, Proceed

LEMMA RootInvariance ==
  ASSUME GuardDiscipline PROVE Spec => [](LockInv /\ TimerInv /\ RootInv)
<1>1. Init => RootInv
  <2> SUFFICES ASSUME Init PROVE op[level] # "tick_pop"
    BY DEF RootInv
  <2>1. level = 0 /\ 0 \in Contexts
    BY MaxLevelAssumption DEF Init, LockInit, TrapInit, Contexts
  <2> QED
    BY <2>1 DEF Init
<1>2. (LockInv /\ TimerInv /\ RootInv) /\ (LockInv /\ TimerInv)' /\ [Next]_vars => RootInv'
  BY RootStep
<1> QED
  BY TimerInvariance, <1>1, <1>2, PTL DEF Spec

LEMMA RefinesStep ==
  ASSUME LockInv, TimerInv, LockInv', TimerInv', RootInv, [Next]_vars
  PROVE  [Promise!SpecNext]_<<now, due, Pending, calls>>
<1> USE Levels, Shapes DEF Set, Then, Doing
<1>1. CASE LockSteps \/ OpenGuard \/ DropGuard \/ Dispatch \/ InterruptReturns
  BY <1>1, Zenon DEF LockSteps, OpenGuard, DropGuard, Dispatch, InterruptReturns,
     clockVars, timerVars, opVars, Pending
<1>2. CASE InitLock \/ TickLock \/ (\E d \in 0..MaxTime : RemoveCall(d))
             \/ (\E t \in Timers, d \in 0..MaxTime : AddCall(t, d))
  <2>1. UNCHANGED <<now, due, queue, calls, level>>
    BY <1>2 DEF InitLock, TickLock, RemoveCall, AddCall, LockBegin, LockRead,
       LockBlock, clockVars, timerVars
  <2>2. op[level] # "tick_pop" /\ op'[level] # "tick_pop"
    BY <1>2 DEF InitLock, TickLock, RemoveCall, AddCall
  <2> QED
    BY <2>1, <2>2, PendingStays
<1>3. CASE Unlock \/ InitRegister \/ InitArm \/ InitEnable \/ InitGlobal
             \/ HandlerArm \/ TickNow \/ TickDone
  <2>1. UNCHANGED <<now, due, queue, calls, level>>
    BY <1>3 DEF Unlock, InitRegister, InitArm, InitEnable, InitGlobal, HandlerArm,
       TickNow, TickDone, UnlockClear, Register, AppGlobal, clockVars, timerVars,
       trapVars, spinVars
  <2>2. op[level] # "tick_pop" /\ op'[level] # "tick_pop"
    BY <1>3 DEF Unlock, InitRegister, InitArm, InitEnable, InitGlobal, HandlerArm,
       TickNow, TickDone
  <2> QED
    BY <2>1, <2>2, PendingStays
<1>4. CASE InitWrite
  <2>1. level = 0 /\ level' = level
    BY <1>4, MainRuns DEF InitWrite, TickOps, spinVars, trapVars
  <2>2. UNCHANGED <<now, due, queue, calls>>
    BY <1>4, <2>1 DEF InitWrite, clockVars, TimerInv, BootInv, Unbuilt
  <2>3. op[level] # "tick_pop" /\ op'[level] # "tick_pop"
    BY <1>4 DEF InitWrite
  <2> QED
    BY <2>1, <2>2, <2>3, PendingStays
<1>5. CASE TimerInterrupt
  <2>1. level' = level + 1 /\ level + 1 \in Contexts /\ level = 0
    BY <1>5 DEF TimerInterrupt, Interrupt, TrapEnter, LockInv, LockTypeOK, StackInv, Contexts
  <2>2. UNCHANGED <<now, due, queue, calls>>
    BY <1>5 DEF TimerInterrupt, timerVars
  <2>3. op[level] # "tick_pop"
    BY <2>1 DEF TimerInv, RolesInv, TickOps
  <2>4. op'[level'] # "tick_pop"
    BY <1>5, <2>1 DEF TimerInterrupt
  <2> QED
    BY <2>2, <2>3, <2>4, PendingStays
<1>6. CASE AddPush
  <2>1. level = 0 /\ level' = level
    BY <1>6, MainRuns DEF AddPush, TickOps, spinVars, trapVars
  <2>2. op[level] # "tick_pop" /\ op'[level] # "tick_pop"
    BY <1>6 DEF AddPush
  <2>3. Pending = queue /\ Pending' = queue'
    BY <2>1, <2>2, PendingStays
  <2>4. UNCHANGED <<now, calls>>
    BY <1>6 DEF AddPush, clockVars
  <2>5. CASE UNCHANGED <<queue, due>>
    BY <2>3, <2>4, <2>5
  <2>6. CASE /\ queue' = queue \cup {arg[level]}
             /\ due' = [due EXCEPT ![arg[level]] = time[level]]
    <3>1. PICK t \in Timers, d \in 0..MaxTime : t = arg[0] /\ d = time[0]
      OBVIOUS
    <3>2. t \notin queue /\ calls[t] = 0
      BY <1>6, <2>1, <3>1 DEF AddPush, TimerInv, QueueInv
    <3>3. Promise!Add(t, d)
      BY <2>1, <2>3, <2>4, <2>6, <3>1, <3>2 DEF Promise!Add, Pending
    <3>4. Promise!SpecNext
      BY <3>3 DEF Promise!SpecNext
    <3> QED
      BY <3>4
  <2> QED
    BY <1>6, <2>5, <2>6 DEF AddPush
<1>7. CASE RemoveItem
  <2>1. level' = level
    BY <1>7 DEF RemoveItem, spinVars, trapVars
  <2>2. op[level] # "tick_pop" /\ op'[level] # "tick_pop"
    BY <1>7 DEF RemoveItem
  <2>3. Pending = queue /\ Pending' = queue'
    BY <2>1, <2>2, PendingStays
  <2>4. UNCHANGED <<now, due, calls>>
    BY <1>7 DEF RemoveItem, clockVars
  <2>5. CASE UNCHANGED queue
    BY <2>3, <2>4, <2>5
  <2>6. ASSUME NEW t \in queue, queue' = queue \ {t}
        PROVE  Promise!SpecNext
    <3>1. t \in Timers
      BY DEF TimerInv, TypeOK
    <3>2. Promise!Remove(t)
      BY <2>3, <2>4, <2>6 DEF Promise!Remove, Pending
    <3> QED
      BY <3>1, <3>2 DEF Promise!SpecNext
  <2> QED
    BY <1>7, <2>5, <2>6 DEF RemoveItem
<1>8. CASE ClockTick
  <2>1. UNCHANGED <<due, Pending, calls>>
    BY <1>8 DEF ClockTick, timerVars, opVars, Pending
  <2>2. CASE now < MaxTime
    <3>1. Promise!Pass
      BY <1>8, <2>1, <2>2 DEF ClockTick, Promise!Pass, Pending
    <3> QED
      BY <3>1 DEF Promise!SpecNext
  <2>3. CASE ~(now < MaxTime)
    BY <1>8, <2>1, <2>3 DEF ClockTick
  <2> QED
    BY <2>2, <2>3
<1>9. ASSUME NEW t \in Timers, TickCall(t) PROVE Promise!SpecNext
  <2>1. level = 1 /\ 1 \in Contexts /\ op[1] = "tick_loop"
    BY <1>9, HandlerRuns DEF TickCall, TickOps
  <2>2. Pending = queue
    BY <2>1, PendingIs
  <2>3. Pending' = queue' \ {t}
    <3>1. (LockInv /\ TimerInv =>
            Pending = IF op[level] = "tick_pop" THEN queue \ {arg[level]} ELSE queue)'
      BY PendingIs, PTL
    <3>2. op'[level'] = "tick_pop" /\ arg'[level'] = t
      BY <1>9, <2>1 DEF TickCall, spinVars, trapVars
    <3> QED
      BY <3>1, <3>2
  <2>4. due[t] <= now
    <3>1. time[1] <= now /\ time[1] \in 0..MaxTime
      BY <2>1 DEF TimerInv, QueueInv
    <3>2. due[t] <= time[1] /\ due[t] \in 0..MaxTime /\ now \in 0..MaxTime
      BY <1>9, <2>1 DEF TickCall, TimerInv, TypeOK
    <3> QED
      BY <3>1, <3>2, TimerAssumption
  <2>5. Promise!Fire(t)
    BY <1>9, <2>2, <2>3, <2>4 DEF TickCall, clockVars, Promise!Fire, Pending
  <2> QED
    BY <2>5 DEF Promise!SpecNext
<1>10. CASE TickPop
  <2>1. level' = level /\ op[level] = "tick_pop" /\ op'[level] = "tick_loop"
    BY <1>10 DEF TickPop, spinVars, trapVars
  <2>2. Pending = queue \ {arg[level]}
    BY <2>1, PendingIs
  <2>3. Pending' = queue'
    <3>1. (LockInv /\ TimerInv =>
            Pending = IF op[level] = "tick_pop" THEN queue \ {arg[level]} ELSE queue)'
      BY PendingIs, PTL
    <3> QED
      BY <2>1, <3>1
  <2>4. Root = {arg[level]} /\ arg[level] \in queue
    BY <2>1 DEF RootInv, Root
  <2>5. queue' = queue \ {arg[level]}
    BY <1>10, <2>4 DEF TickPop
  <2> QED
    BY <1>10, <2>2, <2>3, <2>5 DEF TickPop, clockVars
<1>11. CASE UNCHANGED vars
  BY <1>11, Zenon DEF vars, clockVars, timerVars, opVars, Pending
<1> QED
  BY <1>1, <1>2, <1>3, <1>4, <1>5, <1>6, <1>7, <1>8, <1>9, <1>10, <1>11
     DEF Next, Boot, Proceed

\* With interrupts anywhere in timer_add and timer_remove, with the lock and
\* the mask moving underneath, the timer does what TimerSpec says: each item is
\* called back at most once, not before its time, the earliest one first.
THEOREM TimerKeepsPromise == ASSUME GuardDiscipline PROVE Spec => KeepsPromise
<1>1. Init => Promise!SpecInit
  BY DEF Init, Promise!SpecInit
<1>2. LockInv /\ TimerInv /\ RootInv /\ (LockInv /\ TimerInv)' /\ [Next]_vars
        => [Promise!SpecNext]_(Promise!specVars)
  BY RefinesStep DEF Promise!specVars, Pending
<1> QED
  BY RootInvariance, <1>1, <1>2, PTL DEF Spec, KeepsPromise, Promise!PromiseSpec
=============================================================================
