---------------------------- MODULE SpinlockProofs ----------------------------
(***************************************************************************)
(* The invariants of Spinlock hold for every set of locks, every nesting   *)
(* bound and both backends.                                                *)
(***************************************************************************)
EXTENDS Spinlock, SequenceTheorems, TLAPS

\* What the theorems ask of the callers: on linux_user, where global_irq does
\* not return the previous state, guards are not nested in anything that
\* masks interrupts.
GuardDiscipline == QemuVirt \/ ~FreeGuards
-------------------------------------------------------------------------------
(* The inductive invariant                                                 *)

\* With this mask no class is accepted.
Closed(m) == IF QemuVirt THEN m = {} ELSE "TIMER" \in m

\* m is the mask context c runs with outside its locks.
Outer(c, m) ==
  IF ~QemuVirt /\ guards[c] # <<>> THEN "TIMER" \in m ELSE m = wanted[c]

\* m is the mask to put back when unlocking the outermost lock, or another.
RightMask(outermost, m) == IF outermost THEN Outer(level, m) ELSE Closed(m)

\* Only the running context and the main() it interrupted exist.
StackInv ==
  /\ level <= 1
  /\ \A c \in Contexts : c > level =>
       pc[c] = "off" /\ held[c] = <<>> /\ guards[c] = <<>>
  /\ ~At("off")
  /\ pc[level] \in {"dispatch", "sret", "panic"} =>
       level = 1 /\ held[level] = <<>> /\ guards[level] = <<>>

\* What main() looks like while a handler runs over it: it was interruptible.
MainInterrupted ==
  level = 1 =>
    /\ held[0] = <<>>
    /\ pc[0] \in {"run", "lock_clear", "guard_clear"}
    /\ frame[1].mask = wanted[0]
    /\ frame[1].gie = TRUE
    /\ QemuVirt => frame[1].previous = wanted[0] /\ gie = FALSE
    /\ pc[0] = "lock_clear" => QemuVirt /\ reg[0] = wanted[0]
    /\ IF pc[0] = "guard_clear"
       THEN QemuVirt /\ Len(guards[0]) = 1 /\ Top(guards[0]) = TRUE
       ELSE guards[0] = <<>>

\* The running context holds exactly the taken locks, once each.
HeldInv ==
  /\ \A l \in Locks :
       locked[l] = 1 <=> \E i \in 1..Len(held[level]) : held[level][i] = l
  /\ \A i, j \in 1..Len(held[level]) :
       held[level][i] = held[level][j] => i = j
  /\ pc[level] \in {"lock_clear", "lock_save", "lock_xchg", "unlock_set"} =>
       \A i \in 1..Len(held[level]) : held[level][i] # target[level]

\* Every mask saved on the way in is the right one for the way out.
MaskInv ==
  /\ held[level] # <<>> \/ pc[level] \in {"lock_save", "lock_xchg", "unlock_set"}
       => Closed(mask)
  /\ held[level] = <<>> /\ pc[level] \in {"dispatch", "run", "lock_clear",
                                           "guard_clear"}
       => Outer(level, mask)
  /\ At("lock_clear") => reg[level] = mask
  /\ At("lock_save") => RightMask(held[level] = <<>>, reg[level])
  /\ pc[level] \in {"lock_xchg", "unlock_set"} =>
       RightMask(held[level] = <<>>, lmask[target[level]])
  /\ \A i \in 1..Len(held[level]) : RightMask(i = 1, lmask[held[level][i]])
  /\ At("sret") /\ QemuVirt => mask = frame[level].mask

\* qemu_virt: the switch is off inside guards.
SwitchInv ==
  QemuVirt =>
    /\ At("guard_clear") => guards[level] # <<>> /\ Top(guards[level]) = gie
    /\ guards[level] # <<>> /\ (~At("guard_clear") \/ Len(guards[level]) > 1)
         => gie = FALSE
    /\ \A i \in 1..Len(guards[level]) : i > 1 \/ level = 1 =>
         guards[level][i] = FALSE

\* linux_user: SIGALRM is the only signal, a guard is not nested, and a
\* handler runs with SIGALRM blocked.
SignalInv ==
  ~QemuVirt =>
    /\ gie = TRUE
    /\ mask \subseteq {"TIMER"}
    /\ \A c \in Contexts : wanted[c] \subseteq {"TIMER"}
    /\ pc[level] \notin {"lock_clear", "guard_clear"}
    /\ guards[level] # <<>> =>
         /\ level = 0 /\ guards[0] = <<TRUE>>
         /\ "TIMER" \in mask /\ wanted[0] = {}
    /\ level = 1 => wanted[1] = {"TIMER"} /\ "TIMER" \in mask

LockInv ==
  /\ LockTypeOK
  /\ StackInv
  /\ MainInterrupted
  /\ HeldInv
  /\ MaskInv
  /\ SwitchInv
  /\ SignalInv
-------------------------------------------------------------------------------
(* Stacks *)

LEMMA PopFacts ==
  ASSUME NEW S, NEW s \in Seq(S), s # <<>>
  PROVE  /\ Len(s) \in Nat \ {0}
         /\ Pop(s) \in Seq(S)
         /\ Len(Pop(s)) = Len(s) - 1
         /\ \A i \in 1..Len(s) - 1 : Pop(s)[i] = s[i]
         /\ Top(s) \in S
         /\ Pop(s) = <<>> <=> Len(s) = 1
<1>1. Len(s) \in Nat \ {0}
  BY EmptySeq
<1>2. /\ Pop(s) \in Seq(S)
      /\ Len(Pop(s)) = Len(s) - 1
      /\ \A i \in 1..Len(s) - 1 : Pop(s)[i] = s[i]
  <2> DEFINE n == Len(s) - 1
  <2>1. n \in Nat /\ \A i \in 1..n : s[i] \in S
    BY <1>1
  <2>2. /\ SubSeq(s, 1, n) \in Seq(S)
        /\ Len(SubSeq(s, 1, n)) = IF 1 <= n THEN n - 1 + 1 ELSE 0
        /\ \A i \in 1..n - 1 + 1 : SubSeq(s, 1, n)[i] = s[1 + i - 1]
    <3> HIDE DEF n
    <3> QED
      BY <2>1, SubSeqProperties
  <2>3. Pop(s) = SubSeq(s, 1, n)
    BY DEF Pop
  <2> HIDE DEF n
  <2>4. /\ n - 1 + 1 = n
        /\ (IF 1 <= n THEN n - 1 + 1 ELSE 0) = n
        /\ \A i \in 1..n : 1 + i - 1 = i
    BY <2>1
  <2>5. /\ Pop(s) \in Seq(S)
        /\ Len(Pop(s)) = n
        /\ \A i \in 1..n : Pop(s)[i] = s[i]
    BY <2>2, <2>3, <2>4, Zenon
  <2> QED
    BY <2>5 DEF n
<1>3. Pop(s) = <<>> <=> Len(s) = 1
  BY <1>1, <1>2, EmptySeq
<1> QED
  BY <1>1, <1>2, <1>3 DEF Top

LEMMA PushFacts ==
  ASSUME NEW S, NEW s \in Seq(S), NEW e \in S
  PROVE  /\ Append(s, e) \in Seq(S)
         /\ Append(s, e) # <<>>
         /\ Len(Append(s, e)) = Len(s) + 1
         /\ \A i \in 1..Len(s) : Append(s, e)[i] = s[i]
         /\ Append(s, e)[Len(s) + 1] = e
         /\ s = <<>> <=> Len(s) = 0
  OBVIOUS

-------------------------------------------------------------------------------
LEMMA InitInv == LockInit => LockInv
<1> SUFFICES ASSUME LockInit PROVE LockInv
  OBVIOUS
<1> USE BackendAssumption, MaxLevelAssumption, AppMasksAssumption,
        BootHandlersAssumption
        DEF LockInit, TrapInit, Contexts, QemuVirt, At
<1>1. LockTypeOK
  BY DEF LockTypeOK, IrqTypeOK, LockPcs, TrapPcs, Frame, NoFrame, IRQ_MASK_ALL
<1>2. StackInv
  BY DEF StackInv
<1>3. MainInterrupted /\ HeldInv /\ SwitchInv
  BY DEF MainInterrupted, HeldInv, SwitchInv
<1>4. MaskInv
  BY DEF MaskInv, Outer
<1>5. SignalInv
  <2>1. ~QemuVirt => gie = TRUE /\ mask = {} /\ \A c \in Contexts : wanted[c] = {}
    OBVIOUS
  <2> QED
    BY <2>1 DEF SignalInv
<1> QED
  BY <1>1, <1>2, <1>3, <1>4, <1>5 DEF LockInv

LEMMA Levels ==
  ASSUME LockInv
  PROVE  /\ level \in Contexts /\ 0 \in Contexts
         /\ level \in {0, 1}
  BY MaxLevelAssumption DEF LockInv, LockTypeOK, StackInv, Contexts

\* A step of the running context leaves the main() below it as it is.
LEMMA MainStays ==
  ASSUME LockInv, level' = level, frame' = frame,
         level = 1 =>
           /\ pc'[0] = pc[0] /\ held'[0] = held[0] /\ guards'[0] = guards[0]
           /\ reg'[0] = reg[0] /\ wanted'[0] = wanted[0]
           /\ QemuVirt => gie' \in {gie, FALSE}
  PROVE  MainInterrupted'
  BY Levels DEF LockInv, MainInterrupted, QemuVirt

\* What the C functions leave in the mask.
LEMMA DisableAll ==
  ASSUME IrqTypeOK, disable_irq(IRQ_MASK_ALL)
  PROVE  /\ Closed(mask') /\ mask' \in SUBSET IRQ_MASK_ALL
         /\ ~QemuVirt => mask' = mask \cup {"TIMER"}
  BY DEF IrqTypeOK, disable_irq, irq_mask_to_sie, mask_to_sigset, IRQ_MASK_ALL,
         Closed

LEMMA SetIrq ==
  ASSUME NEW m \in SUBSET IRQ_MASK_ALL, set_irq(m)
  PROVE  /\ mask' \in SUBSET IRQ_MASK_ALL
         /\ QemuVirt \/ m \subseteq {"TIMER"} => mask' = m
         /\ ~QemuVirt => mask' = m \cap {"TIMER"}
  BY DEF set_irq, irq_mask_to_sie, mask_to_sigset, IRQ_MASK_ALL

-------------------------------------------------------------------------------
(* One lemma per action: it preserves LockInv.                             *)

LEMMA LockReadInv ==
  ASSUME LockInv, NEW l \in Locks, LockRead(l) PROVE LockInv'
<1> USE Levels DEF LockInv, LockRead, Set, Goto, MayLock, At, get_irq, irqVars
<1>1. LockTypeOK'
  BY DEF LockTypeOK, IrqTypeOK, LockPcs
<1>2. StackInv'
  BY DEF StackInv, LockTypeOK
<1>3. MainInterrupted'
  BY MainStays DEF LockTypeOK
<1>4. HeldInv'
  BY DEF HeldInv, LockTypeOK
<1>5. MaskInv'
  BY DEF MaskInv, LockTypeOK, RightMask, Outer, Closed
<1>6. SwitchInv'
  BY DEF SwitchInv, LockTypeOK
<1>7. SignalInv'
  BY DEF SignalInv, LockTypeOK
<1> QED
  BY <1>1, <1>2, <1>3, <1>4, <1>5, <1>6, <1>7

LEMMA LockClearInv ==
  ASSUME LockInv, LockClear PROVE LockInv'
<1> USE Levels DEF LockInv, LockClear, Set, Goto, At, lockVars
<1>a. Closed(mask') /\ mask' \in SUBSET IRQ_MASK_ALL /\ (~QemuVirt => mask' = mask \cup {"TIMER"})
  BY DisableAll DEF LockClear, LockTypeOK
<1>1. LockTypeOK'
  BY <1>a DEF LockTypeOK, IrqTypeOK, LockPcs
<1>2. StackInv'
  BY DEF StackInv, LockTypeOK
<1>3. MainInterrupted'
  BY MainStays DEF LockTypeOK
<1>4. HeldInv'
  BY DEF HeldInv, LockTypeOK
<1>5. MaskInv'
  BY <1>a DEF MaskInv, LockTypeOK, RightMask, Outer, Closed
<1>6. SwitchInv'
  BY DEF SwitchInv, LockTypeOK
<1>7. SignalInv'
  BY DEF SignalInv, LockTypeOK
<1> QED
  BY <1>1, <1>2, <1>3, <1>4, <1>5, <1>6, <1>7

LEMMA LockBlockInv ==
  ASSUME LockInv, NEW l \in Locks, LockBlock(l) PROVE LockInv'
<1> USE Levels DEF LockInv, LockBlock, Set, Goto, MayLock, At, get_irq
<1>a. Closed(mask') /\ mask' \in SUBSET IRQ_MASK_ALL /\ (~QemuVirt => mask' = mask \cup {"TIMER"})
  BY DisableAll DEF LockBlock, LockTypeOK
<1>1. LockTypeOK'
  BY <1>a DEF LockTypeOK, IrqTypeOK, LockPcs
<1>2. StackInv'
  BY DEF StackInv, LockTypeOK
<1>3. MainInterrupted'
  BY MainStays DEF LockTypeOK
<1>4. HeldInv'
  BY DEF HeldInv, LockTypeOK
<1>5. MaskInv'
  BY <1>a DEF MaskInv, LockTypeOK, RightMask, Outer, Closed
<1>6. SwitchInv'
  BY DEF SwitchInv, LockTypeOK
<1>7. SignalInv'
  BY <1>a DEF SignalInv, LockTypeOK
<1> QED
  BY <1>1, <1>2, <1>3, <1>4, <1>5, <1>6, <1>7

LEMMA LockSaveInv ==
  ASSUME LockInv, LockSave PROVE LockInv'
<1> USE Levels DEF LockInv, LockSave, Set, Goto, At, irqVars
<1>1. LockTypeOK'
  BY DEF LockTypeOK, IrqTypeOK, LockPcs
<1>2. StackInv'
  BY DEF StackInv, LockTypeOK
<1>3. MainInterrupted'
  BY MainStays DEF LockTypeOK
<1>4. HeldInv'
  BY DEF HeldInv, LockTypeOK
<1>5. MaskInv'
  <2>1. /\ target[level] \in Locks /\ lmask'[target[level]] = reg[level]
        /\ \A i \in 1..Len(held[level]) :
             lmask'[held[level][i]] = lmask[held[level][i]]
    BY DEF HeldInv, LockTypeOK
  <2> QED
    BY <2>1 DEF MaskInv, LockTypeOK, RightMask, Outer, Closed
<1>6. SwitchInv'
  BY DEF SwitchInv, LockTypeOK
<1>7. SignalInv'
  BY DEF SignalInv, LockTypeOK
<1> QED
  BY <1>1, <1>2, <1>3, <1>4, <1>5, <1>6, <1>7

LEMMA LockXchgInv ==
  ASSUME LockInv, LockXchg PROVE LockInv'
<1> USE Levels DEF LockInv, LockXchg, Set, Goto, At, irqVars
<1> DEFINE s == held[level]
<1>a. /\ target[level] \in Locks /\ s \in Seq(Locks) /\ level' = level
      /\ held'[level] = Append(s, target[level])
  BY DEF LockTypeOK
<1>b. /\ held'[level] \in Seq(Locks) /\ held'[level] # <<>>
      /\ Len(held'[level]) = Len(s) + 1 /\ Len(s) \in Nat
      /\ \A i \in 1..Len(s) : held'[level][i] = s[i]
      /\ held'[level][Len(s) + 1] = target[level]
      /\ s = <<>> <=> Len(s) = 0
  <2> DEFINE e == target[level]
  <2>1. e \in Locks /\ s \in Seq(Locks) /\ held'[level] = Append(s, e)
    BY <1>a
  <2> HIDE DEF s, e
  <2>2. /\ Append(s, e) \in Seq(Locks) /\ Append(s, e) # <<>>
        /\ Len(Append(s, e)) = Len(s) + 1 /\ Len(s) \in Nat
        /\ \A i \in 1..Len(s) : Append(s, e)[i] = s[i]
        /\ Append(s, e)[Len(s) + 1] = e
        /\ s = <<>> <=> Len(s) = 0
    BY <2>1, PushFacts
  <2> QED
    BY <2>1, <2>2 DEF e
<1>1. LockTypeOK'
  BY <1>a, <1>b DEF LockTypeOK, IrqTypeOK, LockPcs, TrapPcs
<1>2. StackInv'
  BY DEF StackInv, LockTypeOK
<1>3. MainInterrupted'
  BY MainStays DEF LockTypeOK
<1>4. HeldInv'
  <2>1. \A i \in 1..Len(held'[level]) :
          held'[level][i] = IF i = Len(s) + 1 THEN target[level]
                                            ELSE s[i]
    BY <1>a, <1>b
  <2>2. \A i \in 1..Len(s) : s[i] # target[level]
    BY DEF HeldInv
  <2>3. \A l \in Locks :
          (\E i \in 1..Len(held'[level]) : held'[level][i] = l)
            <=> l = target[level] \/ \E i \in 1..Len(s) : s[i] = l
    BY <1>a, <1>b, <2>1
  <2>4. \A l \in Locks : locked'[l] = 1 <=> l = target[level] \/ locked[l] = 1
    BY <1>a, <1>b DEF LockTypeOK
  <2>5. \A i, j \in 1..Len(held'[level]) :
          held'[level][i] = held'[level][j] => i = j
    BY <1>a, <1>b, <2>1, <2>2 DEF HeldInv
  <2>6. pc'[level] = "run" /\ level' = level
    BY DEF LockTypeOK
  <2> QED
    BY <2>3, <2>4, <2>5, <2>6 DEF HeldInv
<1>5. MaskInv'
  <2>1. \A i \in 1..Len(held'[level]) :
          RightMask(i = 1, lmask[held'[level][i]])
    <3>1. \A i \in 1..Len(s) : RightMask(i = 1, lmask[s[i]])
      BY DEF MaskInv
    <3>2. RightMask(Len(s) + 1 = 1, lmask[target[level]])
      BY <1>b DEF MaskInv
    <3>3. \A i \in 1..Len(s) + 1 :
            held'[level][i] = IF i = Len(s) + 1 THEN target[level] ELSE s[i]
      BY <1>b
    <3>4. \A i \in 1..Len(s) + 1 : i = Len(s) + 1 \/ i \in 1..Len(s)
      BY <1>b
    <3> QED
      BY <1>b, <3>1, <3>2, <3>3, <3>4
  <2>2. /\ pc'[level] = "run" /\ held'[level] # <<>>
        /\ guards' = guards /\ wanted' = wanted /\ level' = level
        /\ lmask' = lmask /\ mask' = mask
    BY <1>a, <1>b DEF LockTypeOK
  <2>3. \A i \in 1..Len(held'[level]) :
          RightMask(i = 1, lmask[held[level][i]])'
    BY <2>1, <2>2 DEF RightMask, Outer, Closed
  <2>4. Closed(mask)'
    BY <2>2 DEF MaskInv, Closed
  <2> QED
    BY <2>2, <2>3, <2>4 DEF MaskInv
<1>6. SwitchInv'
  BY DEF SwitchInv, LockTypeOK
<1>7. SignalInv'
  BY DEF SignalInv, LockTypeOK
<1> QED
  BY <1>1, <1>2, <1>3, <1>4, <1>5, <1>6, <1>7

LEMMA UnlockClearInv ==
  ASSUME LockInv, UnlockClear PROVE LockInv'
<1> USE Levels DEF LockInv, UnlockClear, Set, Goto, At, irqVars
<1> DEFINE s == held[level]
<1>a. /\ s \in Seq(Locks) /\ s # <<>> /\ level' = level
      /\ held'[level] = Pop(s) /\ target'[level] = Top(s)
  BY DEF LockTypeOK
<1>b. /\ Len(s) \in Nat \ {0} /\ Pop(s) \in Seq(Locks)
      /\ Len(Pop(s)) = Len(s) - 1
      /\ \A i \in 1..Len(s) - 1 : Pop(s)[i] = s[i]
      /\ Top(s) \in Locks /\ (Pop(s) = <<>> <=> Len(s) = 1)
  <2> HIDE DEF s
  <2> QED
    BY <1>a, PopFacts
<1>1. LockTypeOK'
  BY <1>a, <1>b DEF LockTypeOK, IrqTypeOK, LockPcs
<1>2. StackInv'
  BY DEF StackInv, LockTypeOK
<1>3. MainInterrupted'
  BY MainStays DEF LockTypeOK
<1>4. HeldInv'
  <2>1. \A i \in 1..Len(s) - 1 : s[i] # Top(s)
    BY <1>b DEF HeldInv, Top
  <2>2. \A l \in Locks : (\E i \in 1..Len(s) - 1 : s[i] = l)
                          <=> l # Top(s) /\ \E i \in 1..Len(s) : s[i] = l
    BY <1>b, <2>1 DEF Top
  <2>3. \A l \in Locks : locked'[l] = 1 <=> l # Top(s) /\ locked[l] = 1
    BY <1>b DEF LockTypeOK
  <2>4. /\ \A i \in 1..Len(s) - 1 : held'[level][i] = s[i]
        /\ Len(held'[level]) = Len(s) - 1
    BY <1>a, <1>b
  <2>5. \A l \in Locks : locked'[l] = 1 <=>
          \E i \in 1..Len(held'[level]) : held'[level][i] = l
    <3>1. \A l \in Locks : locked[l] = 1 <=> \E i \in 1..Len(s) : s[i] = l
      BY DEF HeldInv
    <3>2. \A l \in Locks : (\E i \in 1..Len(held'[level]) : held'[level][i] = l)
                            <=> \E i \in 1..Len(s) - 1 : s[i] = l
      BY <2>4
    <3> QED
      BY <2>2, <2>3, <3>1, <3>2
  <2>6. \A i, j \in 1..Len(held'[level]) :
          held'[level][i] = held'[level][j] => i = j
    <3>1. \A i, j \in 1..Len(s) : s[i] = s[j] => i = j
      BY DEF HeldInv
    <3>2. \A i \in 1..Len(s) - 1 : i \in 1..Len(s)
      BY <1>b
    <3> QED
      BY <2>4, <3>1, <3>2
  <2>7. \A i \in 1..Len(held'[level]) : held'[level][i] # target'[level]
    BY <1>a, <2>1, <2>4
  <2> QED
    BY <1>a, <2>5, <2>6, <2>7 DEF HeldInv
<1>5. MaskInv'
  <2>1. /\ lmask' = lmask /\ mask' = mask /\ guards' = guards
        /\ wanted' = wanted /\ pc'[level] = "unlock_set"
    BY DEF LockTypeOK
  <2>2. RightMask(Pop(s) = <<>>, lmask[Top(s)])
    BY <1>b DEF MaskInv, Top
  <2>3. \A i \in 1..Len(Pop(s)) : RightMask(i = 1, lmask[Pop(s)[i]])
    BY <1>b DEF MaskInv
  <2> QED
    BY <1>a, <2>1, <2>2, <2>3 DEF MaskInv, RightMask, Outer, Closed, QemuVirt
<1>6. SwitchInv'
  BY DEF SwitchInv, LockTypeOK
<1>7. SignalInv'
  BY DEF SignalInv, LockTypeOK
<1> QED
  BY <1>1, <1>2, <1>3, <1>4, <1>5, <1>6, <1>7

LEMMA UnlockSetInv ==
  ASSUME LockInv, UnlockSet PROVE LockInv'
<1> USE Levels DEF LockInv, UnlockSet, Set, Goto, At, lockVars
<1> DEFINE m == lmask[target[level]]
<1>0. m \in SUBSET IRQ_MASK_ALL /\ set_irq(m)
  BY DEF LockTypeOK
<1>a. /\ mask' \in SUBSET IRQ_MASK_ALL
      /\ QemuVirt \/ m \subseteq {"TIMER"} => mask' = m
      /\ ~QemuVirt => mask' = m \cap {"TIMER"}
  <2> HIDE DEF m
  <2> QED
    BY <1>0, SetIrq
<1>1. LockTypeOK'
  BY <1>a DEF LockTypeOK, IrqTypeOK, LockPcs, TrapPcs
<1>2. StackInv'
  BY DEF StackInv, LockTypeOK
<1>3. MainInterrupted'
  BY MainStays DEF LockTypeOK
<1>4. HeldInv'
  BY DEF HeldInv, LockTypeOK
<1>5. MaskInv'
  <2>1. Closed(lmask[target[level]]) => Closed(mask')
    BY <1>a DEF Closed
  <2>2. Outer(level, lmask[target[level]]) => Outer(level, mask')
    BY <1>a DEF Outer, SignalInv, LockTypeOK
  <2> QED
    BY <2>1, <2>2 DEF MaskInv, LockTypeOK, RightMask, Outer, Closed
<1>6. SwitchInv'
  BY DEF SwitchInv, LockTypeOK
<1>7. SignalInv'
  <2>1. RightMask(held[level] = <<>>, m)
    BY DEF MaskInv
  <2>2. ~QemuVirt /\ (guards[level] # <<>> \/ level = 1) => "TIMER" \in m
    BY <2>1 DEF RightMask, Outer, Closed, SignalInv
  <2> QED
    BY <1>a, <2>2 DEF SignalInv, LockTypeOK
<1> QED
  BY <1>1, <1>2, <1>3, <1>4, <1>5, <1>6, <1>7

LEMMA GuardReadInv ==
  ASSUME LockInv, GuardRead PROVE LockInv'
<1> USE Levels DEF LockInv, GuardRead, MayGuard, Set, Goto, At, irqVars
<1> DEFINE s == guards[level]
<1> DEFINE e == global_irq_previous
<1>a. /\ e \in BOOLEAN /\ s \in Seq(BOOLEAN) /\ level' = level
      /\ guards'[level] = Append(s, e)
  BY DEF LockTypeOK, IrqTypeOK, global_irq_previous
<1>b. /\ guards'[level] \in Seq(BOOLEAN) /\ guards'[level] # <<>>
      /\ Len(guards'[level]) = Len(s) + 1 /\ Len(s) \in Nat
      /\ \A i \in 1..Len(s) : guards'[level][i] = s[i]
      /\ guards'[level][Len(s) + 1] = e
      /\ s = <<>> <=> Len(s) = 0
  <2> HIDE DEF s, e
  <2>1. /\ Append(s, e) \in Seq(BOOLEAN) /\ Append(s, e) # <<>>
        /\ Len(Append(s, e)) = Len(s) + 1 /\ Len(s) \in Nat
        /\ \A i \in 1..Len(s) : Append(s, e)[i] = s[i]
        /\ Append(s, e)[Len(s) + 1] = e
        /\ s = <<>> <=> Len(s) = 0
    BY <1>a, PushFacts
  <2> QED
    BY <1>a, <2>1
<1>1. LockTypeOK'
  BY <1>a, <1>b DEF LockTypeOK, IrqTypeOK, LockPcs, TrapPcs
<1>2. StackInv'
  BY <1>a, <1>b DEF StackInv, LockTypeOK
<1>3. MainInterrupted'
  BY MainStays DEF LockTypeOK
<1>4. HeldInv'
  BY DEF HeldInv, LockTypeOK
<1>5. MaskInv'
  BY DEF MaskInv, LockTypeOK, RightMask, Outer, Closed
<1>6. SwitchInv'
  <2> SUFFICES ASSUME QemuVirt PROVE SwitchInv'
    BY DEF SwitchInv, QemuVirt
  <2>1. /\ pc'[level] = "guard_clear" /\ gie' = gie
        /\ e = gie /\ gie \in BOOLEAN
    BY DEF LockTypeOK, IrqTypeOK, global_irq_previous
  <2>2. (s # <<>> \/ level = 1) => gie = FALSE
    BY DEF SwitchInv, MainInterrupted
  <2>3. Top(guards'[level]) = e
    BY <1>b DEF Top
  <2>4. Len(guards'[level]) > 1 => gie' = FALSE
    BY <1>b, <2>1, <2>2
  <2>5. \A i \in 1..Len(guards'[level]) : i > 1 \/ level = 1 =>
          guards'[level][i] = FALSE
    BY <1>b, <2>1, <2>2 DEF SwitchInv
  <2> QED
    BY <1>a, <1>b, <2>1, <2>3, <2>4, <2>5 DEF SwitchInv, Top
<1>7. SignalInv'
  BY DEF SignalInv, LockTypeOK
<1> QED
  BY <1>1, <1>2, <1>3, <1>4, <1>5, <1>6, <1>7

LEMMA GuardClearInv ==
  ASSUME LockInv, GuardClear PROVE LockInv'
<1> USE Levels DEF LockInv, GuardClear, Set, Goto, At, lockVars, global_irq
<1>a. QemuVirt
  BY DEF SignalInv
<1>b. gie' = FALSE /\ mask' = mask /\ level' = level
  BY <1>a
<1>1. LockTypeOK'
  BY <1>a, <1>b DEF LockTypeOK, IrqTypeOK, LockPcs, TrapPcs
<1>2. StackInv'
  BY <1>a, <1>b DEF StackInv, LockTypeOK
<1>3. MainInterrupted'
  <2>1. QemuVirt /\ level = 1 => gie' \in {gie, FALSE}
    BY <1>b
  <2>2. level = 1 => pc'[0] = pc[0] /\ held'[0] = held[0] /\ guards'[0] = guards[0]
                     /\ reg'[0] = reg[0] /\ wanted'[0] = wanted[0]
    BY DEF LockTypeOK
  <2>3. frame' = frame /\ level' = level
    OBVIOUS
  <2> QED
    BY <2>1, <2>2, <2>3, MainStays
<1>4. HeldInv'
  BY <1>a, <1>b DEF HeldInv, LockTypeOK
<1>5. MaskInv'
  BY <1>a, <1>b DEF MaskInv, LockTypeOK, RightMask, Outer, Closed
<1>6. SwitchInv'
  BY <1>a, <1>b DEF SwitchInv, LockTypeOK
<1>7. SignalInv'
  BY <1>a, <1>b DEF SignalInv, LockTypeOK
<1> QED
  BY <1>1, <1>2, <1>3, <1>4, <1>5, <1>6, <1>7

LEMMA GuardBlockInv ==
  ASSUME LockInv, GuardDiscipline, GuardBlock PROVE LockInv'
<1> USE Levels DEF LockInv, GuardBlock, MayGuard, Set, At, trapVars
<1> DEFINE s == guards[level]
<1> DEFINE e == global_irq_previous
<1>a. /\ e \in BOOLEAN /\ s \in Seq(BOOLEAN) /\ level' = level
      /\ guards'[level] = Append(s, e)
  BY DEF LockTypeOK, IrqTypeOK, global_irq_previous
<1>b. /\ guards'[level] \in Seq(BOOLEAN) /\ guards'[level] # <<>>
      /\ Len(guards'[level]) = Len(s) + 1 /\ Len(s) \in Nat
      /\ \A i \in 1..Len(s) : guards'[level][i] = s[i]
      /\ guards'[level][Len(s) + 1] = e
      /\ s = <<>> <=> Len(s) = 0
  <2> HIDE DEF s, e
  <2>1. /\ Append(s, e) \in Seq(BOOLEAN) /\ Append(s, e) # <<>>
        /\ Len(Append(s, e)) = Len(s) + 1 /\ Len(s) \in Nat
        /\ \A i \in 1..Len(s) : Append(s, e)[i] = s[i]
        /\ Append(s, e)[Len(s) + 1] = e
        /\ s = <<>> <=> Len(s) = 0
    BY <1>a, PushFacts
  <2> QED
    BY <1>a, <2>1
<1>c. /\ ~QemuVirt /\ gie' = gie /\ e = TRUE
      /\ mask' \in SUBSET IRQ_MASK_ALL /\ Closed(mask')
      /\ mask' = mask \cup {"TIMER"}
  BY DisableAll DEF LockTypeOK, SignalInv, global_irq_previous, get_irq,
    IRQ_MASK_ALL, global_irq
<1>d. "TIMER" \notin mask /\ guards[level] = <<>> /\ held[level] = <<>> /\ level = 0
  BY <1>c DEF GuardDiscipline, MayGuard, Masked, Deliverable, SignalInv, MaskInv, Closed, StackInv
<1>1. LockTypeOK'
  BY <1>a, <1>b, <1>c, <1>d DEF LockTypeOK, IrqTypeOK, LockPcs, TrapPcs
<1>2. StackInv'
  BY <1>a, <1>b, <1>c, <1>d DEF StackInv, LockTypeOK
<1>3. MainInterrupted'
  BY MainStays, <1>a, <1>b, <1>c, <1>d DEF LockTypeOK
<1>4. HeldInv'
  BY DEF HeldInv, LockTypeOK
<1>5. MaskInv'
  BY <1>a, <1>b, <1>c, <1>d DEF MaskInv, LockTypeOK, RightMask, Outer, Closed
<1>6. SwitchInv'
  BY <1>a, <1>b, <1>c, <1>d DEF SwitchInv, LockTypeOK
<1>7. SignalInv'
  BY <1>a, <1>b, <1>c, <1>d DEF SignalInv, LockTypeOK
<1> QED
  BY <1>1, <1>2, <1>3, <1>4, <1>5, <1>6, <1>7

LEMMA GuardDropInv ==
  ASSUME LockInv, GuardDiscipline, GuardDrop PROVE LockInv'
<1> USE Levels DEF LockInv, GuardDrop, Set, At, trapVars
<1> DEFINE s == guards[level]
<1>a. /\ s \in Seq(BOOLEAN) /\ s # <<>> /\ level' = level
      /\ guards'[level] = Pop(s)
  BY DEF LockTypeOK
<1>b. /\ Len(s) \in Nat \ {0} /\ Pop(s) \in Seq(BOOLEAN)
      /\ Len(Pop(s)) = Len(s) - 1
      /\ \A i \in 1..Len(s) - 1 : Pop(s)[i] = s[i]
      /\ Top(s) \in BOOLEAN /\ (Pop(s) = <<>> <=> Len(s) = 1)
  <2> HIDE DEF s
  <2> QED
    BY <1>a, PopFacts
<1>c. QemuVirt => gie' = Top(s) /\ mask' = mask
  BY DEF global_irq
<1>d. ~QemuVirt => /\ gie' = gie /\ level = 0 /\ s = <<TRUE>> /\ Pop(s) = <<>>
                   /\ held[level] = <<>> /\ mask' = {} /\ wanted[0] = {}
  <2> SUFFICES ASSUME ~QemuVirt
               PROVE  /\ gie' = gie /\ level = 0 /\ s = <<TRUE>> /\ Pop(s) = <<>>
                      /\ held[level] = <<>> /\ mask' = {} /\ wanted[0] = {}
    OBVIOUS
  <2>1. level = 0 /\ s = <<TRUE>> /\ wanted[0] = {} /\ held[level] = <<>> /\ mask \subseteq {"TIMER"}
    BY <1>a DEF SignalInv, GuardDiscipline
  <2>2. Pop(s) = <<>> /\ Top(s) = TRUE
    BY <1>b, <2>1 DEF Top
  <2>3. gie' = gie /\ mask' = mask \ mask_to_sigset(IRQ_MASK_ALL)
    BY <2>2 DEF global_irq, enable_irq
  <2> QED
    BY <2>1, <2>2, <2>3 DEF mask_to_sigset, IRQ_MASK_ALL
<1>e. QemuVirt =>
        /\ s # <<>> /\ (Len(s) > 1 \/ level = 1 => gie' = FALSE)
        /\ \A i \in 1..Len(s) : i > 1 \/ level = 1 => s[i] = FALSE
  BY <1>b, <1>c DEF SwitchInv, Top
<1>1. LockTypeOK'
  BY <1>a, <1>b, <1>c, <1>d DEF LockTypeOK, IrqTypeOK, LockPcs, TrapPcs
<1>2. StackInv'
  BY <1>a, <1>b, <1>c, <1>d DEF StackInv, LockTypeOK
<1>3. MainInterrupted'
  <2>1. QemuVirt /\ level = 1 => gie' \in {gie, FALSE}
    BY <1>e
  <2>2. level = 1 => pc'[0] = pc[0] /\ held'[0] = held[0] /\ guards'[0] = guards[0]
                     /\ reg'[0] = reg[0] /\ wanted'[0] = wanted[0]
    BY DEF LockTypeOK
  <2>3. frame' = frame /\ level' = level
    OBVIOUS
  <2> QED
    BY <2>1, <2>2, <2>3, MainStays
<1>4. HeldInv'
  BY DEF HeldInv, LockTypeOK
<1>5. MaskInv'
  <2>1. /\ pc' = pc /\ pc[level] = "run" /\ held' = held /\ lmask' = lmask
        /\ wanted' = wanted /\ level' = level
    OBVIOUS
  <2>2. CASE QemuVirt
    BY <1>c, <2>1, <2>2 DEF MaskInv, RightMask, Outer, Closed, QemuVirt
  <2>3. CASE ~QemuVirt
    <3>1. guards'[level] = <<>> /\ held'[level] = <<>> /\ mask' = wanted'[level]
      BY <1>a, <1>d, <2>1, <2>3
    <3>2. Len(held'[level]) = 0
      BY <3>1
    <3> QED
      BY <2>1, <2>3, <3>1, <3>2 DEF MaskInv, Outer, QemuVirt
  <2> QED
    BY <2>2, <2>3
<1>6. SwitchInv'
  <2> SUFFICES ASSUME QemuVirt PROVE SwitchInv'
    BY DEF SwitchInv, QemuVirt
  <2>1. \A i \in 1..Len(guards'[level]) : guards'[level][i] = s[i]
    BY <1>a, <1>b
  <2>2. guards'[level] # <<>> => gie' = FALSE
    BY <1>a, <1>b, <1>e
  <2>3. \A i \in 1..Len(guards'[level]) : i > 1 \/ level = 1 =>
          guards'[level][i] = FALSE
    BY <1>a, <1>b, <1>e, <2>1
  <2> QED
    BY <1>a, <2>2, <2>3 DEF SwitchInv
<1>7. SignalInv'
  BY <1>a, <1>b, <1>c, <1>d DEF SignalInv, LockTypeOK
<1> QED
  BY <1>1, <1>2, <1>3, <1>4, <1>5, <1>6, <1>7

LEMMA AppSetMaskInv ==
  ASSUME LockInv, NEW m \in AppMasks, AppSetMask(m) PROVE LockInv'
<1> USE Levels DEF LockInv, AppSetMask, MainOutside, Set, At, trapVars
<1>a. /\ mask' \in SUBSET IRQ_MASK_ALL /\ level = 0 /\ level' = level
      /\ ~QemuVirt => mask' \subseteq {"TIMER"}
  BY SetIrq, AppMasksAssumption DEF StackInv
<1>1. LockTypeOK'
  BY <1>a DEF LockTypeOK, IrqTypeOK, LockPcs, TrapPcs
<1>2. StackInv'
  BY <1>a DEF StackInv, LockTypeOK
<1>3. MainInterrupted'
  BY <1>a DEF MainInterrupted
<1>4. HeldInv'
  BY DEF HeldInv, LockTypeOK
<1>5. MaskInv'
  BY <1>a DEF MaskInv, LockTypeOK, RightMask, Outer, Closed
<1>6. SwitchInv'
  BY <1>a DEF SwitchInv, LockTypeOK
<1>7. SignalInv'
  BY <1>a DEF SignalInv, LockTypeOK
<1> QED
  BY <1>1, <1>2, <1>3, <1>4, <1>5, <1>6, <1>7

LEMMA AppGlobalInv ==
  ASSUME LockInv, NEW on \in BOOLEAN, AppGlobal(on) PROVE LockInv'
<1> USE Levels DEF LockInv, AppGlobal, MainOutside, Set, At, trapVars
<1>a. /\ level = 0 /\ level' = level /\ gie' \in BOOLEAN
      /\ QemuVirt => mask' = mask
      /\ ~QemuVirt => gie' = gie /\ mask' \subseteq {"TIMER"}
  BY DEF global_irq, LockTypeOK, IrqTypeOK, SignalInv, enable_irq, disable_irq,
         mask_to_sigset
<1>b. mask' \in SUBSET IRQ_MASK_ALL
  BY <1>a DEF LockTypeOK, IrqTypeOK, IRQ_MASK_ALL
<1>1. LockTypeOK'
  BY <1>a, <1>b DEF LockTypeOK, IrqTypeOK, LockPcs, TrapPcs
<1>2. StackInv'
  BY <1>a, <1>b DEF StackInv, LockTypeOK
<1>3. MainInterrupted'
  BY <1>a DEF MainInterrupted
<1>4. HeldInv'
  BY DEF HeldInv, LockTypeOK
<1>5. MaskInv'
  BY <1>a, <1>b DEF MaskInv, LockTypeOK, RightMask, Outer, Closed
<1>6. SwitchInv'
  BY <1>a, <1>b DEF SwitchInv, LockTypeOK
<1>7. SignalInv'
  BY <1>a, <1>b DEF SignalInv, LockTypeOK
<1> QED
  BY <1>1, <1>2, <1>3, <1>4, <1>5, <1>6, <1>7

LEMMA RegisterInv ==
  ASSUME LockInv, NEW cause \in IRQ_MASK_ALL, Register(cause) PROVE LockInv'
<1> USE Levels DEF LockInv, Register, trap_set_interrupt_handler, MainOutside, At, irqVars, lockVars
<1>1. LockTypeOK'
  BY DEF LockTypeOK, IrqTypeOK, LockPcs, TrapPcs
<1>2. StackInv'
  BY DEF StackInv, LockTypeOK
<1>3. MainInterrupted'
  BY MainStays DEF LockTypeOK
<1>4. HeldInv'
  BY DEF HeldInv, LockTypeOK
<1>5. MaskInv'
  BY DEF MaskInv, LockTypeOK, RightMask, Outer, Closed
<1>6. SwitchInv'
  BY DEF SwitchInv, LockTypeOK
<1>7. SignalInv'
  BY DEF SignalInv, LockTypeOK
<1> QED
  BY <1>1, <1>2, <1>3, <1>4, <1>5, <1>6, <1>7

LEMMA InterruptInv ==
  ASSUME LockInv, NEW cause \in IRQ_MASK_ALL, Interrupt(cause) PROVE LockInv'
<1> USE Levels DEF LockInv, Interrupt, TrapEnter, At
<1>a. Deliverable(cause) /\ level' = level + 1 /\ UNCHANGED <<locked, lmask, held, target, reg, guards>>
  OBVIOUS
<1>b. ~Closed(mask) /\ (QemuVirt => gie = TRUE)
  BY <1>a DEF Deliverable, Closed
<1>c. level = 0
  BY <1>b DEF StackInv, MainInterrupted, SignalInv, Closed
<1>d. /\ held[0] = <<>> /\ pc[0] \in {"run", "lock_clear", "guard_clear"}
  BY <1>b, <1>c DEF MaskInv, StackInv, LockTypeOK, LockPcs, TrapPcs
<1>e. mask = wanted[0]
  BY <1>b, <1>c, <1>d DEF MaskInv, Outer, Closed
<1>f. pc[0] = "lock_clear" => QemuVirt /\ reg[0] = wanted[0]
  BY <1>c, <1>e DEF MaskInv, SignalInv
<1>g. IF pc[0] = "guard_clear"
      THEN QemuVirt /\ Len(guards[0]) = 1 /\ Top(guards[0]) = TRUE
      ELSE guards[0] = <<>>
  <2>1. CASE QemuVirt
    <3>1. guards[0] # <<>> => Len(guards[0]) \in Nat \ {0}
      BY EmptySeq DEF LockTypeOK
    <3>2. gie = TRUE
      BY <1>b, <2>1
    <3>3. guards[0] # <<>> => pc[0] = "guard_clear" /\ ~(Len(guards[0]) > 1)
      BY <1>c, <2>1, <3>2 DEF SwitchInv
    <3>4. pc[0] = "guard_clear" => guards[0] # <<>> /\ Top(guards[0]) = TRUE
      BY <1>c, <2>1, <3>2 DEF SwitchInv
    <3>5. guards[0] # <<>> => Len(guards[0]) = 1
      <4> DEFINE n == Len(guards[0])
      <4> HIDE DEF n
      <4>1. n \in Nat \ {0} /\ ~(n > 1) => n = 1
        OBVIOUS
      <4> QED
        BY <3>1, <3>3, <4>1, Zenon DEF n
    <3> QED
      BY <2>1, <3>3, <3>4, <3>5, Zenon
  <2>2. CASE ~QemuVirt
    BY <1>b, <1>c, <2>2 DEF SignalInv, Closed
  <2> QED
    BY <2>1, <2>2
<1>h. level' = 1 /\ 1 \in Contexts /\ pc' = [pc EXCEPT ![1] = "dispatch"]
  BY <1>c, MaxLevelAssumption DEF Contexts
<1>i. /\ held[1] = <<>> /\ guards[1] = <<>>
  BY <1>c, <1>h DEF StackInv
<1>j. /\ mask' \in SUBSET IRQ_MASK_ALL /\ gie' \in BOOLEAN
      /\ QemuVirt => gie' = FALSE
      /\ ~QemuVirt => cause = "TIMER" /\ mask' = {"TIMER"} /\ gie' = TRUE
  BY <1>a DEF Deliverable, LockTypeOK, IrqTypeOK, SignalInv, enable_irq,
     disable_irq, irq_mask_to_sie, mask_to_sigset, IRQ_MASK_ALL
<1>k. /\ frame' = [frame EXCEPT ![1] =
           [mask |-> mask, gie |-> gie, cause |-> cause, previous |-> mask]]
      /\ wanted' = [wanted EXCEPT ![1] = mask']
  BY <1>c DEF get_irq
<1>l. /\ pc'[1] = "dispatch" /\ pc'[0] = pc[0] /\ wanted'[0] = wanted[0]
      /\ wanted'[1] = mask'
      /\ frame'[1] = [mask |-> mask, gie |-> gie, cause |-> cause, previous |-> mask]
  BY <1>h, <1>k DEF LockTypeOK
<1>1. LockTypeOK'
  <2>1. frame'[1] \in Frame
    BY <1>l DEF Frame, LockTypeOK, IrqTypeOK
  <2>2. frame' \in [Contexts -> Frame]
    BY <1>k, <1>l, <2>1 DEF LockTypeOK
  <2>3. pc' \in [Contexts -> LockPcs]
    BY <1>h DEF LockTypeOK, LockPcs, TrapPcs
  <2>4. wanted' \in [Contexts -> SUBSET IRQ_MASK_ALL]
    BY <1>j, <1>k DEF LockTypeOK
  <2> QED
    BY <1>a, <1>h, <1>j, <2>2, <2>3, <2>4 DEF LockTypeOK, IrqTypeOK
<1>2. StackInv'
  <2>1. \A c \in Contexts : c > 1 =>
          pc'[c] = "off" /\ held[c] = <<>> /\ guards[c] = <<>>
    BY <1>c, <1>h DEF StackInv, LockTypeOK, Contexts
  <2> QED
    BY <1>a, <1>h, <1>i, <1>l, <2>1 DEF StackInv, At
<1>3. MainInterrupted'
  <2>1. frame'[1].mask = wanted[0] /\ frame'[1].previous = wanted[0]
    BY <1>e, <1>l
  <2>2. gie = TRUE
    BY <1>b DEF SignalInv
  <2>3. frame'[1].gie = TRUE
    BY <1>l, <2>2
  <2> QED
    BY <1>a, <1>d, <1>f, <1>g, <1>h, <1>j, <1>l, <2>1, <2>3 DEF MainInterrupted, Top
<1>4. HeldInv'
  BY <1>a, <1>c, <1>d, <1>h, <1>i, <1>l DEF HeldInv
<1>5. MaskInv'
  BY <1>a, <1>h, <1>i, <1>l DEF MaskInv, Outer, QemuVirt, At
<1>6. SwitchInv'
  BY <1>a, <1>h, <1>i, <1>l DEF SwitchInv, At
<1>7. SignalInv'
  <2>1. ~QemuVirt => \A c \in Contexts : wanted'[c] \subseteq {"TIMER"}
    BY <1>j, <1>k, <1>h DEF SignalInv, LockTypeOK
  <2> QED
    BY <1>a, <1>h, <1>i, <1>j, <1>l, <2>1 DEF SignalInv, QemuVirt
<1> QED
  BY <1>1, <1>2, <1>3, <1>4, <1>5, <1>6, <1>7

LEMMA TrapDispatchInv ==
  ASSUME LockInv, TrapDispatch, UNCHANGED lockVars PROVE LockInv'
<1> USE Levels DEF LockInv, TrapDispatch, Goto, At, irqVars, lockVars
<1>1. LockTypeOK'
  BY DEF LockTypeOK, IrqTypeOK, LockPcs, TrapPcs
<1>2. StackInv'
  BY DEF StackInv, LockTypeOK
<1>3. MainInterrupted'
  BY MainStays DEF LockTypeOK
<1>4. HeldInv'
  BY DEF HeldInv, LockTypeOK
<1>5. MaskInv'
  BY DEF MaskInv, LockTypeOK, RightMask, Outer, Closed
<1>6. SwitchInv'
  BY DEF SwitchInv, LockTypeOK
<1>7. SignalInv'
  BY DEF SignalInv, LockTypeOK
<1> QED
  BY <1>1, <1>2, <1>3, <1>4, <1>5, <1>6, <1>7

LEMMA HandlerReturnsInv ==
  ASSUME LockInv, HandlerReturns PROVE LockInv'
<1> USE Levels DEF LockInv, HandlerReturns, TrapRestore, Goto, At, lockVars
<1>a. level = 1 /\ level' = level /\ gie' = gie
  OBVIOUS
<1>b. /\ mask' \in SUBSET IRQ_MASK_ALL /\ (~QemuVirt => mask' = mask)
      /\ QemuVirt => mask' = frame[1].mask
  <2>1. CASE QemuVirt
    <3>1. /\ frame[1].previous \in SUBSET IRQ_MASK_ALL
          /\ frame[1].previous = frame[1].mask /\ set_irq(frame[1].previous)
      BY <1>a, <2>1 DEF LockTypeOK, Frame, MainInterrupted
    <3> QED
      BY <2>1, <3>1, SetIrq
  <2>2. CASE ~QemuVirt
    BY <2>2 DEF LockTypeOK, IrqTypeOK
  <2> QED
    BY <2>1, <2>2
<1>1. LockTypeOK'
  BY <1>a, <1>b DEF LockTypeOK, IrqTypeOK, LockPcs, TrapPcs
<1>2. StackInv'
  BY <1>a, <1>b DEF StackInv, LockTypeOK
<1>3. MainInterrupted'
  BY MainStays, <1>a, <1>b DEF LockTypeOK
<1>4. HeldInv'
  BY DEF HeldInv, LockTypeOK
<1>5. MaskInv'
  BY <1>a, <1>b DEF MaskInv, LockTypeOK, RightMask, Outer, Closed
<1>6. SwitchInv'
  BY <1>a, <1>b DEF SwitchInv, LockTypeOK
<1>7. SignalInv'
  BY <1>a, <1>b DEF SignalInv, LockTypeOK
<1> QED
  BY <1>1, <1>2, <1>3, <1>4, <1>5, <1>6, <1>7

LEMMA TrapReturnInv ==
  ASSUME LockInv, TrapReturn, UNCHANGED lockVars PROVE LockInv'
<1> USE Levels DEF LockInv, TrapReturn, Goto, At, lockVars
<1>a. level = 1 /\ level' = 0 /\ held[1] = <<>> /\ guards[1] = <<>>
      /\ frame' = frame
  BY DEF StackInv
<1>b. /\ pc' = [pc EXCEPT ![1] = "off"] /\ pc'[0] = pc[0] /\ 1 \in Contexts
  BY <1>a DEF LockTypeOK
<1>c. /\ mask' = wanted[0] /\ mask' \in SUBSET IRQ_MASK_ALL /\ gie' = TRUE
  <2>1. CASE QemuVirt
    BY <1>a, <2>1 DEF MaskInv, MainInterrupted, LockTypeOK, IrqTypeOK
  <2>2. CASE ~QemuVirt
    <3>1. mask' = frame[1].mask /\ gie' = gie
      BY <1>a, <2>2
    <3>2. gie = TRUE
      BY <2>2 DEF SignalInv
    <3>3. frame[1].mask = wanted[0] /\ wanted[0] \in SUBSET IRQ_MASK_ALL
      BY <1>a DEF MainInterrupted, LockTypeOK
    <3> QED
      BY <3>1, <3>2, <3>3
  <2> QED
    BY <2>1, <2>2
<1>1. LockTypeOK'
  BY <1>a, <1>b, <1>c DEF LockTypeOK, IrqTypeOK, LockPcs, TrapPcs
<1>2. StackInv'
  <2>1. \A c \in Contexts : c > 0 =>
          pc'[c] = "off" /\ held[c] = <<>> /\ guards[c] = <<>>
    BY <1>a, <1>b DEF StackInv, LockTypeOK, Contexts
  <2>2. pc'[0] \in {"run", "lock_clear", "guard_clear"}
    BY <1>a, <1>b DEF MainInterrupted
  <2> QED
    BY <1>a, <2>1, <2>2 DEF StackInv
<1>3. MainInterrupted'
  BY <1>a DEF MainInterrupted
<1>4. HeldInv'
  BY <1>a, <1>b DEF HeldInv, MainInterrupted
<1>5. MaskInv'
  BY <1>a, <1>b, <1>c DEF MaskInv, MainInterrupted, Outer, QemuVirt
<1>6. SwitchInv'
  <2>1. IF pc'[0] = "guard_clear"
        THEN QemuVirt /\ Len(guards[0]) = 1 /\ Top(guards[0]) = TRUE
        ELSE guards[0] = <<>>
    BY <1>a, <1>b DEF MainInterrupted
  <2>2. guards' = guards
    OBVIOUS
  <2>3. CASE pc[0] = "guard_clear"
    <3>1. /\ guards[0] # <<>> /\ Len(guards[0]) = 1
          /\ guards[0][1] = TRUE
      BY <1>b, <2>1, <2>3, EmptySeq DEF Top
    <3>2. Top(guards[0]) = gie'
      BY <1>c, <2>1, <2>3, <1>b
    <3>3. /\ guards'[level'] # <<>> /\ Len(guards'[level']) = 1
          /\ Top(guards'[level']) = gie' /\ pc'[level'] = "guard_clear"
          /\ level' = 0
      BY <1>a, <1>b, <2>2, <2>3, <3>1, <3>2
    <3>4. \A i \in 1..Len(guards'[level']) : ~(i > 1 \/ level' = 1)
      BY <3>3
    <3>5. ~(Len(guards'[level']) > 1)
      BY <3>3
    <3> QED
      BY <3>3, <3>4, <3>5, Zenon DEF SwitchInv
  <2>4. CASE pc[0] # "guard_clear"
    BY <1>a, <1>b, <2>1, <2>2, <2>4 DEF SwitchInv
  <2> QED
    BY <2>3, <2>4
<1>7. SignalInv'
  BY <1>a, <1>b, <1>c DEF SignalInv, MainInterrupted, QemuVirt
<1> QED
  BY <1>1, <1>2, <1>3, <1>4, <1>5, <1>6, <1>7

LEMMA StutterInv ==
  ASSUME LockInv, UNCHANGED spinVars PROVE LockInv'
<1> USE DEF LockInv, spinVars, irqVars, trapVars, lockVars, At
<1>1. LockTypeOK'
  BY DEF LockTypeOK, IrqTypeOK
<1>2. StackInv' /\ MainInterrupted' /\ HeldInv'
  BY DEF StackInv, MainInterrupted, HeldInv, Top
<1>3. MaskInv'
  BY DEF MaskInv, RightMask, Outer, Closed
<1>4. SwitchInv' /\ SignalInv'
  BY DEF SwitchInv, SignalInv, Top
<1> QED
  BY <1>1, <1>2, <1>3, <1>4

LEMMA StepInv ==
  ASSUME GuardDiscipline, LockInv, [LockNext]_spinVars PROVE LockInv'
<1>1. CASE \E l \in Locks : LockRead(l) \/ LockBlock(l)
  BY <1>1, LockReadInv, LockBlockInv
<1>2. CASE LockClear \/ LockSave \/ LockXchg
  BY <1>2, LockClearInv, LockSaveInv, LockXchgInv
<1>3. CASE UnlockClear \/ UnlockSet
  BY <1>3, UnlockClearInv, UnlockSetInv
<1>4. CASE GuardRead \/ GuardClear \/ GuardBlock \/ GuardDrop
  BY <1>4, GuardReadInv, GuardClearInv, GuardBlockInv, GuardDropInv
<1>5. CASE \/ \E m \in AppMasks : AppSetMask(m)
           \/ \E on \in BOOLEAN : AppGlobal(on)
  BY <1>5, AppSetMaskInv, AppGlobalInv
<1>6. CASE \E cause \in IRQ_MASK_ALL : Register(cause) \/ Interrupt(cause)
  BY <1>6, RegisterInv, InterruptInv
<1>7. CASE TrapDispatch /\ UNCHANGED lockVars
  BY <1>7, TrapDispatchInv
<1>8. CASE HandlerReturns
  BY <1>8, HandlerReturnsInv
<1>9. CASE TrapReturn /\ UNCHANGED lockVars
  BY <1>9, TrapReturnInv
<1>10. CASE UNCHANGED spinVars
  BY <1>10, StutterInv
<1> QED
  BY <1>1, <1>2, <1>3, <1>4, <1>5, <1>6, <1>7, <1>8, <1>9, <1>10 DEF LockNext

LEMMA Invariance == ASSUME GuardDiscipline PROVE LockSpec => []LockInv
<1>1. LockInv /\ [LockNext]_spinVars => LockInv'
  BY StepInv
<1> QED
  BY InitInv, <1>1, PTL DEF LockSpec

-------------------------------------------------------------------------------
(* The properties of Spinlock *)

\* Every variable keeps its type: struct spinlock, the saved masks, the
\* guards and the trap frames (spinlock.c, irq/src/lib.rs, trap/lib.rs).
THEOREM TypesHold == ASSUME GuardDiscipline PROVE LockSpec => []LockTypeOK
<1>1. LockInv => LockTypeOK
  BY DEF LockInv
<1> QED
  BY Invariance, <1>1, PTL

\* The spin loop of spinlock_lock ends at its first xchg.
THEOREM NeverSpins == ASSUME GuardDiscipline PROVE LockSpec => []NoSelfDeadlock
<1>1. LockInv => NoSelfDeadlock
  BY DEF LockInv, LockTypeOK, HeldInv, NoSelfDeadlock, At
<1> QED
  BY Invariance, <1>1, PTL

\* No interrupt is deliverable while a lock word is 1: spinlock_lock closed
\* the classes before its xchg and spinlock_unlock opens them after its store.
THEOREM LocksMask == ASSUME GuardDiscipline PROVE LockSpec => []HeldMeansMasked
<1>1. LockInv => HeldMeansMasked
  <2> SUFFICES ASSUME LockInv, NEW l \in Locks, locked[l] = 1 PROVE Masked
    BY DEF HeldMeansMasked
  <2>1. 1..Len(held[level]) # {}
    BY DEF LockInv, HeldInv
  <2>2. held[level] # <<>>
    BY <2>1
  <2> QED
    BY <2>2 DEF LockInv, MaskInv, Closed, Masked, Deliverable
<1> QED
  BY Invariance, <1>1, PTL

\* The critical sections of spinlock_lock / spinlock_unlock never overlap: an
\* interrupt handler cannot be in one while main() is in another.
THEOREM Excludes == ASSUME GuardDiscipline PROVE LockSpec => []MutualExclusion
<1>1. LockInv => MutualExclusion
  <2> SUFFICES ASSUME LockInv, NEW c \in Contexts, held[c] # <<>> PROVE c = level
    BY DEF MutualExclusion
  <2>1. ~(c > level) /\ c \in Nat
    BY DEF LockInv, StackInv, Contexts
  <2>2. CASE level = 1
    BY <2>1, <2>2 DEF LockInv, MainInterrupted
  <2> QED
    BY Levels, <2>1, <2>2
<1> QED
  BY Invariance, <1>1, PTL

\* Inside GlobalIrqGuard nothing interrupts, from the csrc in disable() to the
\* drop of the outermost guard.
THEOREM GuardsMask == ASSUME GuardDiscipline PROVE LockSpec => []GuardMeansMasked
<1>1. LockInv => GuardMeansMasked
  <2> SUFFICES ASSUME LockInv, NEW c \in Contexts,
                      guards[c] # <<>>, pc[c] # "guard_clear"
               PROVE  level = c /\ Masked
    BY DEF GuardMeansMasked
  <2>1. ~(c > level) /\ c \in Nat
    BY DEF LockInv, StackInv, Contexts
  <2>2. level = c
    <3>1. CASE level = 1
      BY <2>1, <3>1 DEF LockInv, MainInterrupted
    <3> QED
      BY Levels, <2>1, <3>1
  <2>3. CASE QemuVirt
    <3>1. gie = FALSE
      BY <2>2, <2>3 DEF LockInv, SwitchInv, At
    <3> QED
      BY <2>2, <2>3, <3>1 DEF Masked, Deliverable
  <2>4. CASE ~QemuVirt
    BY <2>2, <2>4 DEF LockInv, SignalInv, Masked, Deliverable
  <2> QED
    BY <2>2, <2>3, <2>4
<1> QED
  BY Invariance, <1>1, PTL

\* However locks nest and whichever instruction an interrupt hits, unlocking
\* the outermost lock puts back the mask the context started from.
THEOREM MaskRestored == ASSUME GuardDiscipline PROVE LockSpec => []MaskAsWanted
<1>1. LockInv => MaskAsWanted
  BY DEF LockInv, MaskInv, Outer, MaskAsWanted, At
<1> QED
  BY Invariance, <1>1, PTL

\* trap_dispatch and signal_trap_entry are never reentered.
THEOREM NeverReentered == ASSUME GuardDiscipline PROVE LockSpec => []NoReentry
<1>1. LockInv => NoReentry
  BY DEF LockInv, StackInv, NoReentry
<1> QED
  BY Invariance, <1>1, PTL

\* Only a trap return lowers the level.
LEMMA OnlyReturnLowers ==
  ASSUME LockInv, LockNext, level' < level
  PROVE  TrapReturn /\ At("sret") /\ level = 1
<1>1. level \in Nat
  BY Levels
<1>2. ASSUME NEW l \in Locks, LockRead(l) \/ LockBlock(l) PROVE level' = level
  BY <1>2 DEF LockRead, LockBlock
<1>3. ASSUME LockClear \/ LockSave \/ LockXchg \/ UnlockClear \/ UnlockSet
      PROVE  level' = level
  BY <1>3 DEF LockClear, LockSave, LockXchg, UnlockClear, UnlockSet
<1>4. ASSUME GuardRead \/ GuardClear \/ GuardBlock \/ GuardDrop PROVE level' = level
  BY <1>4 DEF GuardRead, GuardClear, GuardBlock, GuardDrop, trapVars
<1>5. ASSUME \/ \E m \in AppMasks : AppSetMask(m)
             \/ \E on \in BOOLEAN : AppGlobal(on)
             \/ \E cause \in IRQ_MASK_ALL : Register(cause)
      PROVE  level' = level
  BY <1>5 DEF AppSetMask, AppGlobal, Register, trapVars
<1>6. ASSUME NEW cause \in IRQ_MASK_ALL, Interrupt(cause) PROVE level' = level + 1
  BY <1>6 DEF Interrupt, TrapEnter
<1>7. ASSUME TrapDispatch \/ HandlerReturns PROVE level' = level
  BY <1>7 DEF TrapDispatch, HandlerReturns, TrapRestore
<1>8. TrapReturn
  BY <1>1, <1>2, <1>3, <1>4, <1>5, <1>6, <1>7 DEF LockNext
<1> QED
  BY <1>8 DEF TrapReturn, LockInv, StackInv, At

\* A trap gives back the mask and the switch it found.
THEOREM TrapsAreTransparent == ASSUME GuardDiscipline PROVE LockSpec => TrapTransparent
<1> DEFINE Same == level' < level =>
                     mask' = frame[level].mask /\ gie' = frame[level].gie
<1>1. ASSUME LockInv, [LockNext]_spinVars PROVE [Same]_spinVars
  <2> SUFFICES ASSUME LockNext, level' < level
               PROVE  mask' = frame[level].mask /\ gie' = frame[level].gie
    BY <1>1
  <2>1. TrapReturn /\ At("sret") /\ level = 1
    BY <1>1, OnlyReturnLowers
  <2>2. CASE QemuVirt
    BY <1>1, <2>1, <2>2 DEF TrapReturn, LockInv, MaskInv
  <2>3. CASE ~QemuVirt
    <3>1. gie = TRUE /\ gie' = gie /\ mask' = frame[level].mask
      BY <1>1, <2>1, <2>3 DEF TrapReturn, LockInv, SignalInv
    <3>2. frame[level].gie = TRUE
      BY <1>1, <2>1 DEF LockInv, MainInterrupted
    <3> QED
      BY <3>1, <3>2
  <2> QED
    BY <2>2, <2>3
<1>2. LockInv /\ [LockNext]_spinVars => [Same]_spinVars
  BY <1>1
<1> QED
  BY Invariance, <1>2, PTL DEF LockSpec, TrapTransparent
=============================================================================
