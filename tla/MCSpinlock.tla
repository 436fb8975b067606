------------------------------ MODULE MCSpinlock ------------------------------
(* Constants for the runs of Spinlock. *)
EXTENDS Spinlock, TLC

\* Nothing, the timer alone (the state after timer_init), everything.
MCAppMasks == {{}, {"TIMER"}, IRQ_MASK_ALL}

Symmetry == Permutations(Locks)
=============================================================================
