------------------------------- MODULE Spinlock -------------------------------
(***************************************************************************)
(* lib/02core/spinlock on one CPU, with GlobalIrqGuard (lib/00arch/irq)    *)
(* and the traps that interleave with both.                                *)
(*                                                                         *)
(* spinlock_lock saves the interrupt mask in the lock, closes every class  *)
(* and spins on the lock word; spinlock_unlock clears the word and puts    *)
(* the saved mask back.  An interrupt may arrive between any two of these  *)
(* steps.  A handler is an arbitrary client too: it takes locks, nests     *)
(* them and opens guards like main does.                                   *)
(*                                                                         *)
(* Obligations of a client, which the code does not check: it does not     *)
(* lock what it holds, it unlocks in reverse order, and it sets the mask   *)
(* or the master switch by hand only from main and outside its locks.      *)
(***************************************************************************)
EXTENDS Trap, Sequences

CONSTANTS
  Locks,      \* the spinlock objects
  MaxGuards,  \* bound: GlobalIrqGuard values a context holds at once
  AppMasks,   \* the masks main may set by hand
  BootHandlers,  \* the causes with a handler before main runs
  FreeGuards  \* TRUE: guards interleave with locks and nest.  FALSE: a guard is
              \* opened with interrupts on and dropped outside locks

ASSUME MaxGuardsAssumption == MaxGuards \in Nat
ASSUME AppMasksAssumption == AppMasks \subseteq SUBSET IRQ_MASK_ALL
ASSUME BootHandlersAssumption == BootHandlers \subseteq IRQ_MASK_ALL
ASSUME FreeGuardsAssumption == FreeGuards \in BOOLEAN

VARIABLES
  locked,   \* struct spinlock.locked of each lock, 0 or 1
  lmask,    \* struct spinlock.mask of each lock
  held,     \* the locks each context holds, oldest first
  target,   \* the lock a context is locking or unlocking
  reg,      \* the mask disable_irq read, before spinlock_lock stores it
  guards,   \* .previous of the GlobalIrqGuards of each context, oldest first
  wanted    \* history: the mask each context runs with outside its locks

lockVars == <<locked, lmask, held, target, reg, guards, wanted>>
spinVars == <<irqVars, trapVars, lockVars>>

LockPcs == TrapPcs \cup
  {"lock_clear", "lock_save", "lock_xchg", "unlock_set", "guard_clear"}

Set(f, v) == [f EXCEPT ![level] = v]
Top(s) == s[Len(s)]
Pop(s) == SubSeq(s, 1, Len(s) - 1)

LockInit ==
  /\ TrapInit
  /\ mask \in IF QemuVirt THEN AppMasks ELSE {{}}
  /\ gie = ~QemuVirt
  /\ handlers = BootHandlers
  /\ locked = [l \in Locks |-> 0]
  /\ lmask \in [Locks -> {{}}]
  /\ held = [c \in Contexts |-> <<>>]
  /\ target \in [Contexts -> Locks]
  /\ reg = [c \in Contexts |-> {}]
  /\ guards = [c \in Contexts |-> <<>>]
  /\ wanted = [c \in Contexts |-> mask]
-------------------------------------------------------------------------------
(* spinlock_lock *)

MayLock(l) == At("run") /\ \A i \in 1..Len(held[level]) : held[level][i] # l

\* disable_irq on qemu_virt, csrr: an interrupt may still arrive after it.
LockRead(l) ==
  /\ QemuVirt
  /\ MayLock(l)
  /\ target' = Set(target, l)
  /\ reg' = Set(reg, get_irq)
  /\ Goto("lock_clear")
  /\ UNCHANGED <<irqVars, level, frame, handlers, locked, lmask, held, guards,
                 wanted>>

\* disable_irq on qemu_virt, csrc.
LockClear ==
  /\ At("lock_clear")
  /\ disable_irq(IRQ_MASK_ALL)
  /\ Goto("lock_save")
  /\ UNCHANGED <<gie, level, frame, handlers, lockVars>>

\* disable_irq on linux_user is one rt_sigprocmask call.
LockBlock(l) ==
  /\ ~QemuVirt
  /\ MayLock(l)
  /\ target' = Set(target, l)
  /\ reg' = Set(reg, get_irq)
  /\ disable_irq(IRQ_MASK_ALL)
  /\ Goto("lock_save")
  /\ UNCHANGED <<gie, level, frame, handlers, locked, lmask, held, guards,
                 wanted>>

\* Mutant: the mask is read after the classes were closed.
LockSave_late ==
  /\ At("lock_save")
  /\ lmask' = [lmask EXCEPT ![target[level]] = mask]
  /\ Goto("lock_xchg")
  /\ UNCHANGED <<irqVars, level, frame, handlers, locked, held, target, reg,
                 guards, wanted>>

\* l->mask = the previous mask
LockSave ==
  /\ At("lock_save")
  /\ lmask' = [lmask EXCEPT ![target[level]] = reg[level]]
  /\ Goto("lock_xchg")
  /\ UNCHANGED <<irqVars, level, frame, handlers, locked, held, target, reg,
                 guards, wanted>>

\* The xchg that ends the loop; while the word is 1 the context spins.
LockXchg ==
  /\ At("lock_xchg")
  /\ locked[target[level]] = 0
  /\ locked' = [locked EXCEPT ![target[level]] = 1]
  /\ held' = Set(held, Append(held[level], target[level]))
  /\ Goto("run")
  /\ UNCHANGED <<irqVars, level, frame, handlers, lmask, target, reg, guards,
                 wanted>>

(* spinlock_unlock *)

\* l->locked = 0
UnlockClear ==
  /\ At("run")
  /\ held[level] # <<>>
  /\ target' = Set(target, Top(held[level]))
  /\ locked' = [locked EXCEPT ![Top(held[level])] = 0]
  /\ held' = Set(held, Pop(held[level]))
  /\ Goto("unlock_set")
  /\ UNCHANGED <<irqVars, level, frame, handlers, lmask, reg, guards, wanted>>

\* set_irq(l->mask)
UnlockSet ==
  /\ At("unlock_set")
  /\ set_irq(lmask[target[level]])
  /\ Goto("run")
  /\ UNCHANGED <<gie, level, frame, handlers, lockVars>>
-------------------------------------------------------------------------------
(* GlobalIrqGuard *)

MayGuard ==
  /\ At("run")
  /\ Len(guards[level]) < MaxGuards
  /\ FreeGuards \/ ~Masked

\* disable() on qemu_virt: global_irq(false) reads sstatus, then clears SIE.
GuardRead ==
  /\ QemuVirt
  /\ MayGuard
  /\ guards' = Set(guards, Append(guards[level], global_irq_previous))
  /\ Goto("guard_clear")
  /\ UNCHANGED <<irqVars, level, frame, handlers, locked, lmask, held, target,
                 reg, wanted>>

GuardClear ==
  /\ At("guard_clear")
  /\ global_irq(FALSE)
  /\ Goto("run")
  /\ UNCHANGED <<level, frame, handlers, lockVars>>

GuardBlock ==
  /\ ~QemuVirt
  /\ MayGuard
  /\ guards' = Set(guards, Append(guards[level], global_irq_previous))
  /\ global_irq(FALSE)
  /\ UNCHANGED <<trapVars, locked, lmask, held, target, reg, wanted>>

\* Mutant: drop() switches on without looking at self.previous.
GuardDrop_on ==
  /\ At("run")
  /\ guards[level] # <<>>
  /\ FreeGuards \/ held[level] = <<>>
  /\ global_irq(TRUE)
  /\ guards' = Set(guards, Pop(guards[level]))
  /\ UNCHANGED <<trapVars, locked, lmask, held, target, reg, wanted>>

\* drop(): global_irq(self.previous)
GuardDrop ==
  /\ At("run")
  /\ guards[level] # <<>>
  /\ FreeGuards \/ held[level] = <<>>
  /\ global_irq(Top(guards[level]))
  /\ guards' = Set(guards, Pop(guards[level]))
  /\ UNCHANGED <<trapVars, locked, lmask, held, target, reg, wanted>>
-------------------------------------------------------------------------------
(* main by hand, and traps *)

MainOutside ==
  At("run") /\ level = 0 /\ held[level] = <<>> /\ guards[level] = <<>>

AppSetMask(m) ==
  /\ MainOutside
  /\ set_irq(m)
  /\ wanted' = Set(wanted, mask')
  /\ UNCHANGED <<gie, trapVars, locked, lmask, held, target, reg, guards>>

AppGlobal(on) ==
  /\ MainOutside
  /\ global_irq(on)
  /\ wanted' = Set(wanted, mask')
  /\ UNCHANGED <<trapVars, locked, lmask, held, target, reg, guards>>

Register(cause) ==
  /\ MainOutside
  /\ trap_set_interrupt_handler(cause)
  /\ UNCHANGED <<irqVars, level, pc, frame, lockVars>>

Interrupt(cause) ==
  /\ TrapEnter(cause)
  /\ wanted' = [wanted EXCEPT ![level + 1] = mask']
  /\ UNCHANGED <<locked, lmask, held, target, reg, guards>>

\* A handler returns with its locks released and its guards dropped.
HandlerReturns ==
  /\ held[level] = <<>>
  /\ guards[level] = <<>>
  /\ TrapRestore
  /\ UNCHANGED lockVars

LockNext ==
  \/ \E l \in Locks : LockRead(l) \/ LockBlock(l)
  \/ LockClear \/ LockSave \/ LockXchg
  \/ UnlockClear \/ UnlockSet
  \/ GuardRead \/ GuardClear \/ GuardBlock \/ GuardDrop
  \/ \E m \in AppMasks : AppSetMask(m)
  \/ \E on \in BOOLEAN : AppGlobal(on)
  \/ \E cause \in IRQ_MASK_ALL : Register(cause) \/ Interrupt(cause)
  \/ TrapDispatch /\ UNCHANGED lockVars
  \/ HandlerReturns
  \/ TrapReturn /\ UNCHANGED lockVars

LockSpec == LockInit /\ [][LockNext]_spinVars
-------------------------------------------------------------------------------
LockTypeOK ==
  /\ IrqTypeOK
  /\ level \in Contexts
  /\ pc \in [Contexts -> LockPcs]
  /\ frame \in [Contexts -> Frame]
  /\ handlers \in SUBSET IRQ_MASK_ALL
  /\ locked \in [Locks -> {0, 1}]
  /\ lmask \in [Locks -> SUBSET IRQ_MASK_ALL]
  /\ held \in [Contexts -> Seq(Locks)]
  /\ target \in [Contexts -> Locks]
  /\ reg \in [Contexts -> SUBSET IRQ_MASK_ALL]
  /\ guards \in [Contexts -> Seq(BOOLEAN)]
  /\ wanted \in [Contexts -> SUBSET IRQ_MASK_ALL]

\* spinlock_lock never finds the word taken.  On one CPU the holder cannot run
\* while somebody spins above it, so a taken word means the machine hangs.
NoSelfDeadlock == At("lock_xchg") => locked[target[level]] = 0

\* From the xchg to the unlock no interrupt can be delivered, whoever holds
\* the lock, on both backends.
HeldMeansMasked == (\E l \in Locks : locked[l] = 1) => Masked

\* At most one context at a time is inside critical sections.
MutualExclusion ==
  \A c, d \in Contexts : held[c] # <<>> /\ held[d] # <<>> => c = d

\* While a context is inside a GlobalIrqGuard nothing interrupts it, also
\* after an inner guard was dropped.
GuardMeansMasked ==
  \A c \in Contexts :
    guards[c] # <<>> /\ pc[c] # "guard_clear" => level = c /\ Masked

\* A context that runs outside its locks has the mask it set: neither a
\* lock / unlock pair, however nested, nor an interrupt that was taken in the
\* middle of one leaves another mask behind.  (On linux_user an open guard
\* shows in the mask too.)
MaskAsWanted ==
  At("run") /\ held[level] = <<>> /\ (QemuVirt \/ guards[level] = <<>>) =>
    mask = wanted[level]

\* trap_dispatch never runs on top of another handler: sstatus.SIE stays
\* clear, and SIGALRM blocked, until the handler returned.
NoReentry == level <= 1

\* What the comment at the head of trap_dispatch says of a handler, that it may
\* take long and interrupts should not stay off meanwhile: while it holds no
\* lock and no guard, some interrupt can be delivered on top of it.
HandlerInterruptible ==
  level > 0 /\ At("run") /\ held[level] = <<>> /\ guards[level] = <<>> => ~Masked

\* A trap is transparent: when it returns, mask and master switch are what
\* they were when it was taken, whatever the handler did to them.
TrapTransparent ==
  [][level' < level =>
       mask' = frame[level].mask /\ gie' = frame[level].gie]_spinVars
=============================================================================
