-------------------------------- MODULE Timer --------------------------------
(***************************************************************************)
(* lib/05timer/timer on both backends: main calls timer_init, timer_add    *)
(* and timer_remove, and the timer interrupt (SIGALRM on linux_user) calls *)
(* timer_tick, over the lock, the trap path and the interrupt mask of      *)
(* Spinlock.  Every step of the lock is a step here, so the interrupt may  *)
(* arrive anywhere in timer_add.                                           *)
(*                                                                         *)
(* Timers are the TimerItems a run creates; each is added once.  The       *)
(* binary heap is the set of its items, and its root some item with the    *)
(* least time.  Time is in milliseconds.                                   *)
(***************************************************************************)
EXTENDS Spinlock

CONSTANTS
  Timers,         \* the TimerItems
  STATIC_TIMER,   \* the lock of the static LazySpinlock<Timer>
  Period,         \* TICK_MS
  MaxTime,        \* bound: the clock stops counting here
  MallocMayFail   \* whether a push may find no memory

\* timer_init adds the timer class to whatever mask boot left.
ASSUME TimerAssumption ==
  /\ Locks = {STATIC_TIMER}
  /\ \A m \in AppMasks : m \cup {"TIMER"} \in AppMasks
  /\ Timers # {}
  /\ Period \in Nat \ {0}
  /\ MaxTime \in Nat
  /\ MallocMayFail \in BOOLEAN

VARIABLES
  now,         \* get_time()
  countdown,   \* milliseconds to the next timer interrupt; 0: not armed
  raised,      \* the timer interrupt is pending (sip.STIP, or the signal)
  ready,       \* STATIC_TIMER holds a constructed Timer
  queue,       \* the items in timer_queue
  due,         \* TimerItem.time
  used,        \* history: items given to timer_add
  calls,       \* history: how often the callback of each item ran
  op,          \* what each context is doing in this module
  arg,         \* the item of the operation
  time         \* timer_add, timer_remove: the time; Timer::tick: its "now"

clockVars == <<now, countdown, raised>>
timerVars == <<ready, queue, due, used, calls>>
opVars == <<op, arg, time>>
vars == <<spinVars, clockVars, timerVars, opVars>>

Ops == {"boot_lock", "boot_write", "boot_unlock", "boot_register", "boot_arm",
        "boot_enable", "boot_global", "idle", "add", "remove", "handler",
        "tick", "tick_now", "tick_loop", "tick_pop", "unlock"}

Init ==
  /\ LockInit
  /\ mask \subseteq {"EXTERNAL"}   \* set by uart_interupt_init
  /\ now = 0
  /\ countdown = 0
  /\ raised = FALSE
  /\ ready = FALSE
  /\ queue = {}
  /\ due = [t \in Timers |-> 0]
  /\ used = {}
  /\ calls = [t \in Timers |-> 0]
  /\ op = [c \in Contexts |-> IF c = 0 THEN "boot_lock" ELSE "idle"]
  /\ arg = [c \in Contexts |-> CHOOSE t \in Timers : TRUE]
  /\ time = [c \in Contexts |-> 0]

Doing(o) == At("run") /\ op[level] = o
Then(o) == op' = Set(op, o)

LockBegin == LockRead(STATIC_TIMER) \/ LockBlock(STATIC_TIMER)
-------------------------------------------------------------------------------
(* The steps of lock, unlock and GlobalIrqGuard between two operations *)

LockSteps ==
  /\ LockClear \/ LockSave \/ LockXchg \/ UnlockSet \/ GuardClear
  /\ UNCHANGED <<clockVars, timerVars, opVars>>

\* main prints between timer operations: on qemu_virt raw_putc opens a guard.
OpenGuard ==
  /\ level = 0 /\ op[level] = "idle"
  /\ GuardRead
  /\ UNCHANGED <<clockVars, timerVars, opVars>>

DropGuard ==
  /\ level = 0 /\ op[level] = "idle"
  /\ GuardDrop
  /\ UNCHANGED <<clockVars, timerVars, opVars>>

Unlock ==
  /\ op[level] \in {"unlock", "boot_unlock"}
  /\ UnlockClear
  /\ Then(IF op[level] = "unlock" THEN "idle" ELSE "boot_register")
  /\ UNCHANGED <<clockVars, timerVars, arg, time>>
-------------------------------------------------------------------------------
(* timer_init *)

\* Mutant: the interval timer is started first, the handler registered later.
InitLock_armed ==
  /\ Doing("boot_lock")
  /\ LockBegin
  /\ countdown' = Period
  /\ Then("boot_write")
  /\ UNCHANGED <<now, raised, timerVars, arg, time>>

\* STATIC_TIMER.init: lock, write, unlock
InitLock ==
  /\ Doing("boot_lock")
  /\ LockBegin
  /\ Then("boot_write")
  /\ UNCHANGED <<clockVars, timerVars, arg, time>>

InitWrite ==
  /\ Doing("boot_write")
  /\ ready' = TRUE
  /\ queue' = {}
  /\ Then("boot_unlock")
  /\ UNCHANGED <<spinVars, clockVars, due, used, calls, arg, time>>

\* trap_set_interrupt_handler, or signal_trap_register
InitRegister ==
  /\ Doing("boot_register")
  /\ Register("TIMER")
  /\ Then("boot_arm")
  /\ UNCHANGED <<clockVars, timerVars, arg, time>>

\* Mutant: it_value is left zero, which starts no timer.
InitArm_no_value ==
  /\ Doing("boot_arm")
  /\ Then(IF QemuVirt THEN "boot_enable" ELSE "idle")
  /\ UNCHANGED <<spinVars, clockVars, timerVars, arg, time>>

\* set_timer(10), or setitimer
InitArm ==
  /\ Doing("boot_arm")
  /\ countdown' = Period
  /\ Then(IF QemuVirt THEN "boot_enable" ELSE "idle")
  /\ UNCHANGED <<spinVars, now, raised, timerVars, arg, time>>

\* enable_irq(IRQ_MASK_TIMER)
InitEnable ==
  /\ Doing("boot_enable")
  /\ enable_irq({"TIMER"})
  /\ wanted' = Set(wanted, mask')
  /\ Then("boot_global")
  /\ UNCHANGED <<gie, trapVars, locked, lmask, held, target, reg, guards,
                 clockVars, timerVars, arg, time>>

\* The application opens the master switch; nothing in lib/ does.
InitGlobal ==
  /\ Doing("boot_global")
  /\ AppGlobal(TRUE)
  /\ Then("idle")
  /\ UNCHANGED <<clockVars, timerVars, arg, time>>
-------------------------------------------------------------------------------
(* timer_add and timer_remove, called by main *)

AddCall(t, d) ==
  /\ Doing("idle") /\ level = 0
  /\ t \notin used
  /\ LockBegin
  /\ used' = used \cup {t}
  /\ arg' = Set(arg, t)
  /\ time' = Set(time, d)
  /\ Then("add")
  /\ UNCHANGED <<clockVars, ready, queue, due, calls>>

\* Timer::add drops the result of the push: without memory the item is lost.
AddPush ==
  /\ Doing("add")
  /\ \/ /\ queue' = queue \cup {arg[level]}
        /\ due' = [due EXCEPT ![arg[level]] = time[level]]
     \/ MallocMayFail /\ UNCHANGED <<queue, due>>
  /\ Then("unlock")
  /\ UNCHANGED <<spinVars, clockVars, ready, used, calls, arg, time>>

RemoveCall(d) ==
  /\ Doing("idle") /\ level = 0
  /\ LockBegin
  /\ time' = Set(time, d)
  /\ Then("remove")
  /\ UNCHANGED <<clockVars, timerVars, arg>>

\* Takes out one item with that time, if there is one.
RemoveItem ==
  /\ Doing("remove")
  /\ LET matching == {t \in queue : due[t] = time[level]} IN
     \/ \E t \in matching : queue' = queue \ {t}
     \/ matching = {} /\ UNCHANGED queue
  /\ Then("unlock")
  /\ UNCHANGED <<spinVars, clockVars, ready, due, used, calls, arg, time>>
-------------------------------------------------------------------------------
(* The clock and the timer interrupt *)

\* qemu_virt: the interrupt stays pending until set_timer.  linux_user: the
\* interval timer reloads itself, and one signal is pending at most.
ClockTick ==
  /\ now < MaxTime \/ countdown > 0
  /\ now' = IF now < MaxTime THEN now + 1 ELSE now
  /\ raised' = (raised \/ countdown = 1)
  /\ countdown' = IF countdown > 1 THEN countdown - 1
                  ELSE IF countdown = 1 /\ ~QemuVirt THEN Period ELSE 0
  /\ UNCHANGED <<spinVars, timerVars, opVars>>

TimerInterrupt ==
  /\ raised
  /\ Interrupt("TIMER")
  /\ raised' = (raised /\ QemuVirt)
  /\ op' = [op EXCEPT ![level + 1] = IF QemuVirt THEN "handler" ELSE "tick"]
  /\ UNCHANGED <<now, countdown, timerVars, arg, time>>

Dispatch ==
  /\ TrapDispatch
  /\ UNCHANGED <<lockVars, clockVars, timerVars, opVars>>

\* Mutant: the timer is not armed again.
HandlerArm_once ==
  /\ Doing("handler")
  /\ raised' = FALSE
  /\ Then("tick")
  /\ UNCHANGED <<spinVars, now, countdown, timerVars, arg, time>>

\* timer_trap_handler arms the next interrupt first.
HandlerArm ==
  /\ Doing("handler")
  /\ countdown' = Period
  /\ raised' = FALSE
  /\ Then("tick")
  /\ UNCHANGED <<spinVars, now, timerVars, arg, time>>

TickLock ==
  /\ Doing("tick")
  /\ LockBegin
  /\ Then("tick_now")
  /\ UNCHANGED <<clockVars, timerVars, arg, time>>

\* Mutant: tick lets interrupts in again while it holds the lock.
TickNow_open ==
  /\ Doing("tick_now")
  /\ enable_irq({"TIMER"})
  /\ time' = Set(time, now)
  /\ Then("tick_loop")
  /\ UNCHANGED <<gie, trapVars, lockVars, clockVars, timerVars, arg>>

TickNow ==
  /\ Doing("tick_now")
  /\ time' = Set(time, now)
  /\ Then("tick_loop")
  /\ UNCHANGED <<spinVars, clockVars, timerVars, arg>>

\* Mutant: any due item, not the root.
TickCall_unordered(t) ==
  /\ Doing("tick_loop")
  /\ t \in queue
  /\ due[t] <= time[level]
  /\ calls' = [calls EXCEPT ![t] = @ + 1]
  /\ arg' = Set(arg, t)
  /\ Then("tick_pop")
  /\ UNCHANGED <<spinVars, clockVars, ready, queue, due, used, time>>

\* The root is due: run its callback, with the lock held.
TickCall(t) ==
  /\ Doing("tick_loop")
  /\ t \in queue
  /\ \A u \in queue : due[t] <= due[u]
  /\ due[t] <= time[level]
  /\ calls' = [calls EXCEPT ![t] = @ + 1]
  /\ arg' = Set(arg, t)
  /\ Then("tick_pop")
  /\ UNCHANGED <<spinVars, clockVars, ready, queue, due, used, time>>

\* What lies at the root when tick pops: the item it peeked, unless something
\* took that out since or put an earlier one in.
Root ==
  LET first == {t \in queue : \A u \in queue : due[t] <= due[u]}
  IN IF arg[level] \in first THEN {arg[level]} ELSE first

\* Then take the root out, whichever item it is by now.
TickPop ==
  /\ Doing("tick_pop")
  /\ queue' \in IF queue = {} THEN {{}} ELSE {queue \ {t} : t \in Root}
  /\ Then("tick_loop")
  /\ UNCHANGED <<spinVars, clockVars, ready, due, used, calls, arg, time>>

TickDone ==
  /\ Doing("tick_loop")
  /\ \A t \in queue : due[t] > time[level]
  /\ Then("unlock")
  /\ UNCHANGED <<spinVars, clockVars, timerVars, arg, time>>

InterruptReturns ==
  /\ \/ Doing("idle") /\ HandlerReturns
     \/ TrapReturn /\ UNCHANGED lockVars
  /\ UNCHANGED <<clockVars, timerVars, opVars>>
-------------------------------------------------------------------------------
Boot == InitLock \/ InitWrite \/ InitRegister \/ InitArm \/ InitEnable
          \/ InitGlobal

\* The steps the running context takes once it started an operation.
Proceed ==
  \/ LockSteps \/ Unlock \/ AddPush \/ RemoveItem
  \/ Dispatch \/ HandlerArm \/ TickLock \/ TickNow
  \/ \E t \in Timers : TickCall(t)
  \/ TickPop \/ TickDone \/ InterruptReturns

Next ==
  \/ Boot
  \/ Proceed
  \/ OpenGuard \/ DropGuard
  \/ \E t \in Timers, d \in 0..MaxTime : AddCall(t, d)
  \/ \E d \in 0..MaxTime : RemoveCall(d)
  \/ ClockTick
  \/ TimerInterrupt

Spec == Init /\ [][Next]_vars

\* The CPU executes: the boot code and every operation that was begun go on,
\* and the scope of a guard ends after finitely many operations.  Time passes.
\* A pending interrupt is taken before the next instruction that runs with
\* interrupts on, hence strong fairness: main may close and open the mask for
\* ever without keeping it out.
Fairness ==
  /\ WF_vars(Boot)
  /\ WF_vars(Proceed)
  /\ SF_vars(DropGuard)
  /\ WF_vars(ClockTick)
  /\ SF_vars(TimerInterrupt)

FairSpec == Spec /\ Fairness
-------------------------------------------------------------------------------
TypeOK ==
  /\ LockTypeOK
  /\ now \in 0..MaxTime
  /\ countdown \in 0..Period
  /\ raised \in BOOLEAN
  /\ ready \in BOOLEAN
  /\ queue \in SUBSET Timers
  /\ due \in [Timers -> 0..MaxTime]
  /\ used \in SUBSET Timers
  /\ calls \in [Timers -> Nat]
  /\ op \in [Contexts -> Ops]
  /\ arg \in [Contexts -> Timers]
  /\ time \in [Contexts -> 0..MaxTime]

\* timer_tick never meets a STATIC_TIMER that timer_init has not built, and no
\* timer interrupt finds an empty slot in the dispatch table: the order of
\* timer_init is right on both backends.
ReadyBeforeTick ==
  /\ level > 0 /\ op[level] # "idle" => ready
  /\ ~At("panic")

\* Nothing is left behind by a tick: when it gives the lock back, every item
\* still queued is later than the moment the tick read the clock.
TickLeavesNothingDue ==
  level > 0 /\ At("unlock_set") => \A t \in queue : due[t] > time[level]

\* The operations of this module are a legal client of the spinlock.
ClientOfSpinlock == LockInit /\ [][LockNext]_spinVars

\* The whole, interrupts and all, does what TimerSpec promises.  An item stops
\* being pending when its callback runs, one step before tick pops it.
Promise == INSTANCE TimerSpec WITH
  pending <- queue \ {arg[c] : c \in {k \in Contexts : op[k] = "tick_pop"}}

KeepsPromise == Promise!PromiseSpec

\* Every item that was queued is called back or removed in the end, whatever
\* main does meanwhile.
EveryTimerEnds == \A t \in Timers : t \in queue ~> t \notin queue
=============================================================================
