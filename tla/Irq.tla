--------------------------------- MODULE Irq ---------------------------------
(***************************************************************************)
(* lib/00arch/irq: the CPU interrupt mask and the CPU master switch, for   *)
(* the two backends the build chooses between.                             *)
(*                                                                         *)
(* An irq_mask_t is a set of interrupt classes.  On qemu_virt the mask     *)
(* lives in the sie CSR and holds the classes the hart ACCEPTS, and the    *)
(* master switch is sstatus.SIE.  On linux_user the mask is the signal     *)
(* mask of the process and holds the classes that are BLOCKED; only the    *)
(* timer class has a signal (SIGALRM), and there is no master switch.      *)
(*                                                                         *)
(* Each operator is the effect of one C function: an action conjunct for a *)
(* function that writes, a value for a function that reads.                *)
(***************************************************************************)
EXTENDS Naturals

CONSTANT Backend

ASSUME BackendAssumption == Backend \in {"qemu_virt", "linux_user"}

VARIABLES
  mask,   \* sie on qemu_virt, the blocked signals on linux_user
  gie     \* sstatus.SIE; always TRUE on linux_user

irqVars == <<mask, gie>>

QemuVirt == Backend = "qemu_virt"

IRQ_MASK_ALL == {"SOFTWARE", "TIMER", "EXTERNAL"}

\* irq_mask_to_sie: every class has its sie bit.
irq_mask_to_sie(m) == m \cap IRQ_MASK_ALL

\* mask_to_sigset: SIGALRM is the only signal that stands for a class.
mask_to_sigset(m) == m \cap {"TIMER"}

\* The abstract mask a caller gets back, before the change.
get_irq == mask

set_irq(m) ==
  mask' = IF QemuVirt THEN irq_mask_to_sie(m) ELSE mask_to_sigset(m)

enable_irq(m) ==
  mask' = IF QemuVirt THEN mask \cup irq_mask_to_sie(m)
                      ELSE mask \ mask_to_sigset(m)

\* Mutant: the stub that reports a mask and changes nothing.
disable_irq_stub(m) == mask' = mask

disable_irq(m) ==
  mask' = IF QemuVirt THEN mask \ irq_mask_to_sie(m)
                      ELSE mask \cup mask_to_sigset(m)

\* What global_irq returns.  linux_user says "on" unless all three classes
\* were blocked.
global_irq_previous ==
  IF QemuVirt THEN gie ELSE get_irq # IRQ_MASK_ALL

global_irq(on) ==
  IF QemuVirt
  THEN gie' = on /\ UNCHANGED mask
  ELSE /\ IF on THEN enable_irq(IRQ_MASK_ALL) ELSE disable_irq(IRQ_MASK_ALL)
       /\ UNCHANGED gie

\* The hardware (or the Linux kernel) delivers an interrupt of this class now
\* if one is pending.
Deliverable(cls) ==
  IF QemuVirt THEN gie /\ cls \in mask
              ELSE cls = "TIMER" /\ cls \notin mask

Masked == \A cls \in IRQ_MASK_ALL : ~Deliverable(cls)

IrqTypeOK ==
  /\ mask \in SUBSET IRQ_MASK_ALL
  /\ gie \in BOOLEAN
=============================================================================
