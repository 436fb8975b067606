------------------------------ MODULE TimerSpec ------------------------------
(***************************************************************************)
(* What 05timer/timer promises to its callers, with no interrupts, locks   *)
(* or heap: a set of pending software timers, each of which is called back *)
(* once, not before its time, in the order of the times, unless it is      *)
(* removed first.                                                          *)
(***************************************************************************)
EXTENDS Naturals

CONSTANTS Timers, MaxTime

VARIABLES
  now,       \* get_time()
  due,       \* the time each timer was added with
  pending,   \* timers added and neither called back nor removed
  calls      \* how often each callback ran

specVars == <<now, due, pending, calls>>

SpecInit ==
  /\ now = 0
  /\ due = [t \in Timers |-> 0]
  /\ pending = {}
  /\ calls = [t \in Timers |-> 0]

Add(t, d) ==
  /\ t \notin pending
  /\ calls[t] = 0
  /\ pending' = pending \cup {t}
  /\ due' = [due EXCEPT ![t] = d]
  /\ UNCHANGED <<now, calls>>

Remove(t) ==
  /\ t \in pending
  /\ pending' = pending \ {t}
  /\ UNCHANGED <<now, due, calls>>

Fire(t) ==
  /\ t \in pending
  /\ due[t] <= now
  /\ \A u \in pending : due[t] <= due[u]
  /\ pending' = pending \ {t}
  /\ calls' = [calls EXCEPT ![t] = @ + 1]
  /\ UNCHANGED <<now, due>>

Pass ==
  /\ now < MaxTime
  /\ now' = now + 1
  /\ UNCHANGED <<due, pending, calls>>

SpecNext ==
  \/ \E t \in Timers, d \in 0..MaxTime : Add(t, d)
  \/ \E t \in Timers : Remove(t) \/ Fire(t)
  \/ Pass

PromiseSpec == SpecInit /\ [][SpecNext]_specVars
=============================================================================
