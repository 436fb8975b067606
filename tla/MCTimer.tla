------------------------------- MODULE MCTimer -------------------------------
(* Constants for the runs of Timer. *)
EXTENDS Timer, TLC

\* The masks that uart_interupt_init and timer_init leave.
MCAppMasks == SUBSET {"EXTERNAL", "TIMER"}
=============================================================================
