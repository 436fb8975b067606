--------------------------------- MODULE Trap ---------------------------------
(***************************************************************************)
(* lib/02core/trap and lib/02core/linux_user_trap: how an interrupt takes  *)
(* the CPU from the context that runs and gives it back.                   *)
(*                                                                         *)
(* There is one CPU.  Context 0 is main(); context k is the handler that   *)
(* interrupted context k - 1.  Only context "level" runs.  MaxLevel bounds *)
(* the nesting the model can express; that nesting never exceeds 1 is a    *)
(* theorem about the code (NoReentry in Spinlock), not an assumption.      *)
(*                                                                         *)
(* pc[c] is "run" while c executes code of its own (main, or the body of   *)
(* the registered handler); the modules that extend this one refine "run". *)
(***************************************************************************)
EXTENDS Irq

CONSTANT MaxLevel

ASSUME MaxLevelAssumption == MaxLevel \in Nat \ {0}

VARIABLES
  level,     \* the context that runs
  pc,        \* where each context is
  frame,     \* what was saved when each context started
  handlers   \* the causes with an entry in the dispatch table

trapVars == <<level, pc, frame, handlers>>

Contexts == 0..MaxLevel

TrapPcs == {"off", "dispatch", "run", "sret", "panic"}

\* mask: the signal mask the kernel keeps in the signal frame (on qemu_virt
\*   nothing saves sie here, and the field only records it);
\* gie: sstatus.SPIE;  cause: scause, or the signal;
\* previous: previous_irq, the local of trap_dispatch.
Frame == [mask : SUBSET IRQ_MASK_ALL, gie : BOOLEAN,
          cause : IRQ_MASK_ALL, previous : SUBSET IRQ_MASK_ALL]

NoFrame == [mask |-> {}, gie |-> FALSE, cause |-> "SOFTWARE", previous |-> {}]

TrapInit ==
  /\ level = 0
  /\ pc = [c \in Contexts |-> IF c = 0 THEN "run" ELSE "off"]
  /\ frame = [c \in Contexts |-> NoFrame]

Goto(label) == pc' = [pc EXCEPT ![level] = label]

At(label) == pc[level] = label

\* trap_set_interrupt_handler / signal_trap_register
trap_set_interrupt_handler(cause) == handlers' = handlers \cup {cause}

-------------------------------------------------------------------------------
\* Mutant: traps are made reentrant by opening the master switch again, and
\* with SA_NODEFER.
TrapEnter_reentrant(cause) ==
  /\ Deliverable(cause)
  /\ level < MaxLevel
  /\ level' = level + 1
  /\ frame' = [frame EXCEPT ![level + 1] =
       [mask |-> mask, gie |-> gie, cause |-> cause, previous |-> get_irq]]
  /\ pc' = [pc EXCEPT ![level + 1] = "dispatch"]
  /\ IF QemuVirt THEN enable_irq(IRQ_MASK_ALL) ELSE UNCHANGED mask
  /\ UNCHANGED <<gie, handlers>>

\* The CPU takes a trap: qemu_virt clears sstatus.SIE and remembers it in
\* SPIE, trap_entry saves the registers, and trap_dispatch opens every class.
\* linux_user blocks the signal while its handler runs (no SA_NODEFER) and
\* enters signal_trap_entry.
TrapEnter(cause) ==
  /\ Deliverable(cause)
  /\ level < MaxLevel
  /\ level' = level + 1
  /\ frame' = [frame EXCEPT ![level + 1] =
       [mask |-> mask, gie |-> gie, cause |-> cause, previous |-> get_irq]]
  /\ pc' = [pc EXCEPT ![level + 1] = "dispatch"]
  /\ gie' = (gie /\ ~QemuVirt)
  /\ IF QemuVirt THEN enable_irq(IRQ_MASK_ALL) ELSE disable_irq({cause})
  /\ UNCHANGED handlers

\* Table lookup.  Without a handler the machine stops: trap_unhandled panics
\* on qemu_virt, and on linux_user a SIGALRM nobody registered for kills the
\* process.
TrapDispatch ==
  /\ At("dispatch")
  /\ Goto(IF frame[level].cause \in handlers THEN "run" ELSE "panic")
  /\ UNCHANGED <<level, frame, handlers, irqVars>>

\* Mutant: an early return of trap_dispatch skips set_irq(previous_irq).
TrapRestore_early ==
  /\ At("run")
  /\ level > 0
  /\ Goto("sret")
  /\ UNCHANGED <<level, frame, handlers, irqVars>>

\* The handler returned: trap_dispatch writes the mask back.  On linux_user
\* nothing stands between the handler and sigreturn.
TrapRestore ==
  /\ At("run")
  /\ level > 0
  /\ Goto("sret")
  /\ IF QemuVirt THEN set_irq(frame[level].previous) ELSE UNCHANGED mask
  /\ UNCHANGED <<level, frame, handlers, gie>>

\* trap_entry restores sstatus and executes sret; rt_sigreturn restores the
\* signal mask.
TrapReturn ==
  /\ At("sret")
  /\ level' = level - 1
  /\ Goto("off")
  /\ IF QemuVirt
     THEN gie' = frame[level].gie /\ UNCHANGED mask
     ELSE mask' = frame[level].mask /\ UNCHANGED gie
  /\ UNCHANGED <<frame, handlers>>
=============================================================================
