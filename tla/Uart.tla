--------------------------------- MODULE Uart ---------------------------------
(***************************************************************************)
(* lib/02core/uart_interupt on qemu_virt: raw_putc and raw_getc put bytes  *)
(* into and take bytes out of two rings, and the external interrupt moves  *)
(* them between the rings and the 16550, under trap_external_dispatch and  *)
(* the PLIC.  A timer callback prints too.                                 *)
(*                                                                         *)
(* A byte is its place in the order of the calls (transmit) or of arrival  *)
(* on the line (receive), so an order can be seen in any sequence of them. *)
(* The 16550 and the PLIC are modelled as QEMU's serial and sifive_plic,   *)
(* as far as the driver can tell them from others.                         *)
(***************************************************************************)
EXTENDS Trap, RingBufferNoAlloc

CONSTANTS
  FifoSize,     \* receive FIFO of the device
  MaxPut,       \* bound: calls of raw_putc
  MaxIn         \* bound: bytes that arrive on the line

ASSUME UartAssumption ==
  /\ QemuVirt
  /\ Capacity > 0
  /\ FifoSize \in Nat \ {0}
  /\ MaxPut \in Nat /\ MaxIn \in Nat
  /\ Values = 0..(IF MaxPut > MaxIn THEN MaxPut ELSE MaxIn)

VARIABLES
  rbr,          \* device: the receive FIFO
  thr,          \* device: the transmit holding register, <<>> when LSR.THRE
  thri,         \* device: the "THR empty" interrupt was not acknowledged
  ier,          \* device: the enabled interrupts, a subset of {"rx", "tx"}
  ip,           \* PLIC: the UART source is pending
  in_service,   \* PLIC: claimed and not completed
  source_on,    \* PLIC: the source is enabled
  external,     \* the UART source has a handler in cause_external_table
  rx, tx,       \* the rings
  op,           \* what each context is doing in this module
  previous,     \* GlobalIrqGuard.previous of each context
  ier_read,     \* raw_putc: the IER it read
  pushed,       \* history: raw_putc calls so far
  arrived,      \* history: bytes that came in on the line
  out,          \* history: bytes that went out
  got,          \* history: bytes raw_getc returned
  lostOut,      \* history: bytes overwritten in tx
  lostIn        \* history: bytes overrun in the FIFO, flushed, or overwritten

deviceVars == <<rbr, thr, thri, ier>>
plicVars == <<ip, in_service, source_on>>
histVars == <<pushed, arrived, out, got, lostOut, lostIn>>
vars == <<irqVars, trapVars, deviceVars, plicVars, external, rx, tx, op,
          previous, ier_read, histVars>>

Ops == {"boot_guard", "boot_off", "boot_fcr", "boot_ring", "boot_handler",
        "boot_source", "boot_mask", "boot_on", "boot_drop", "boot_rest",
        "idle", "put_clear", "put_push", "put_read", "put_write", "put_drop",
        "get_clear", "get_pop", "get_drop", "get_none", "get_again",
        "claim", "iir", "receive", "transmit", "complete", "done", "print"}

Init ==
  /\ TrapInit
  /\ mask = {} /\ gie = FALSE
  /\ handlers = {"EXTERNAL"}     \* init_trap_entry
  /\ rbr = <<>> /\ thr = <<>> /\ thri = FALSE /\ ier = {}
  /\ ip = FALSE /\ in_service = FALSE /\ source_on = FALSE
  /\ external = FALSE
  /\ \E zero \in [Slots -> {0}] : rx = rb_noalloc_init(zero)
  /\ tx = rx
  /\ op = [c \in Contexts |-> IF c = 0 THEN "boot_guard" ELSE "idle"]
  /\ previous = [c \in Contexts |-> FALSE]
  /\ ier_read = [c \in Contexts |-> {}]
  /\ pushed = 0 /\ arrived = 0 /\ out = <<>> /\ got = <<>>
  /\ lostOut = 0 /\ lostIn = 0

Doing(o) == At("run") /\ op[level] = o
Then(o) == op' = [op EXCEPT ![level] = o]

\* The names of what a step leaves alone.
Cpu == <<irqVars, trapVars>>
Driver == <<external, rx, tx, previous, ier_read>>
-------------------------------------------------------------------------------
(* The device and the PLIC *)

\* The interrupt line of the device.
Line == ("rx" \in ier /\ rbr # <<>>) \/ ("tx" \in ier /\ thri)

\* What the PLIC does whenever the line may have changed.  A request that goes
\* away may be forgotten or not, one that comes during service is kept at once
\* or at completion: QEMU's versions differ.
Gateway ==
  /\ \/ Line' /\ ~in_service' /\ ip' = TRUE
     \/ Line' /\ in_service' /\ ip' \in {ip, TRUE}
     \/ ~Line' /\ Line /\ ip' \in {ip, FALSE}
     \/ ~Line' /\ ~Line /\ ip' = ip
  /\ UNCHANGED source_on

\* write_reg(UART_IER, e): switching "tx" on with an empty THR raises the
\* request again.
WriteIer(e) ==
  /\ ier' = e
  /\ thri' = IF ("tx" \in e) = ("tx" \in ier) THEN thri
             ELSE "tx" \in e /\ thr = <<>>

\* A byte leaves.
Transmit ==
  /\ thr # <<>>
  /\ out' = out \o thr
  /\ thr' = <<>>
  /\ thri' = TRUE
  /\ UNCHANGED <<rbr, ier, in_service>>
  /\ Gateway
  /\ UNCHANGED <<Cpu, Driver, op, pushed, arrived, got, lostOut, lostIn>>

\* A byte arrives; a full FIFO loses it.
Arrive ==
  /\ arrived < MaxIn
  /\ arrived' = arrived + 1
  /\ IF Len(rbr) < FifoSize
     THEN rbr' = Append(rbr, arrived') /\ UNCHANGED lostIn
     ELSE lostIn' = lostIn + 1 /\ UNCHANGED rbr
  /\ UNCHANGED <<thr, thri, ier, in_service>>
  /\ Gateway
  /\ UNCHANGED <<Cpu, Driver, op, pushed, out, got, lostOut>>
-------------------------------------------------------------------------------
(* uart_interupt_init, one register or call at a time *)

BootGuard ==
  /\ Doing("boot_guard")
  /\ previous' = [previous EXCEPT ![level] = global_irq_previous]
  /\ global_irq(FALSE)
  /\ Then("boot_off")
  /\ UNCHANGED <<trapVars, deviceVars, plicVars, external, rx, tx, ier_read,
                 histVars>>

BootIerOff ==
  /\ Doing("boot_off")
  /\ WriteIer({})
  /\ Then("boot_fcr")
  /\ UNCHANGED <<rbr, thr, in_service>>
  /\ Gateway
  /\ UNCHANGED <<Cpu, Driver, histVars>>

\* FCR: clears both FIFOs.
BootFcr ==
  /\ Doing("boot_fcr")
  /\ lostIn' = lostIn + Len(rbr)
  /\ rbr' = <<>>
  /\ Then("boot_ring")
  /\ UNCHANGED <<thr, thri, ier, in_service>>
  /\ Gateway
  /\ UNCHANGED <<Cpu, Driver, pushed, arrived, out, got, lostOut>>

BootRings ==
  /\ Doing("boot_ring")
  /\ rx' = rb_noalloc_init(rx.buf)
  /\ tx' = rb_noalloc_init(tx.buf)
  /\ Then("boot_handler")
  /\ UNCHANGED <<Cpu, deviceVars, plicVars, external, previous, ier_read,
                 histVars>>

\* Mutant: the handler is not entered in the external table.
BootHandler_missing ==
  /\ Doing("boot_handler")
  /\ Then("boot_source")
  /\ UNCHANGED <<Cpu, deviceVars, plicVars, external, rx, tx, previous,
                 ier_read, histVars>>

\* trap_set_external_handler(UART0_IRQ, uart_trap_handler)
BootHandler ==
  /\ Doing("boot_handler")
  /\ external' = TRUE
  /\ Then("boot_source")
  /\ UNCHANGED <<Cpu, deviceVars, plicVars, rx, tx, previous, ier_read,
                 histVars>>

\* enable_irq_source
BootSource ==
  /\ Doing("boot_source")
  /\ source_on' = TRUE
  /\ Then("boot_mask")
  /\ UNCHANGED <<Cpu, deviceVars, ip, in_service, Driver, histVars>>

BootMask ==
  /\ Doing("boot_mask")
  /\ enable_irq({"EXTERNAL"})
  /\ Then("boot_on")
  /\ UNCHANGED <<gie, trapVars, deviceVars, plicVars, Driver, histVars>>

\* Mutant: only transmission is enabled.
BootIerOn_tx ==
  /\ Doing("boot_on")
  /\ WriteIer({"tx"})
  /\ Then("boot_drop")
  /\ UNCHANGED <<rbr, thr, in_service>>
  /\ Gateway
  /\ UNCHANGED <<Cpu, Driver, histVars>>

BootIerOn ==
  /\ Doing("boot_on")
  /\ WriteIer({"rx"})
  /\ Then("boot_drop")
  /\ UNCHANGED <<rbr, thr, in_service>>
  /\ Gateway
  /\ UNCHANGED <<Cpu, Driver, histVars>>

BootDrop ==
  /\ Doing("boot_drop")
  /\ global_irq(previous[level])
  /\ previous' = [previous EXCEPT ![level] = FALSE]
  /\ Then("boot_rest")
  /\ UNCHANGED <<trapVars, deviceVars, plicVars, external, rx, tx, ier_read,
                 histVars>>

\* timer_init, as far as it matters here: the timer class and its handler.
BootRest ==
  /\ Doing("boot_rest")
  /\ trap_set_interrupt_handler("TIMER")
  /\ enable_irq({"TIMER"})
  /\ Then("idle")
  /\ UNCHANGED <<gie, level, pc, frame, deviceVars, plicVars, Driver, histVars>>

\* The application opens the master switch, perhaps after its first output.
OpenSwitch ==
  /\ Doing("idle") /\ level = 0
  /\ ~gie
  /\ global_irq(TRUE)
  /\ UNCHANGED <<trapVars, deviceVars, plicVars, Driver, op, histVars>>

Boot == BootGuard \/ BootIerOff \/ BootFcr \/ BootRings \/ BootHandler
          \/ BootSource \/ BootMask \/ BootIerOn \/ BootDrop \/ BootRest
-------------------------------------------------------------------------------
(* raw_putc, by main or by a timer callback *)

\* GlobalIrqGuard::disable reads sstatus, then clears SIE.
PutCall ==
  /\ (Doing("idle") /\ level = 0) \/ Doing("print")
  /\ pushed + level < MaxPut   \* an interrupted raw_putc may be one of them
  /\ previous' = [previous EXCEPT ![level] = global_irq_previous]
  /\ Then("put_clear")
  /\ UNCHANGED <<Cpu, deviceVars, plicVars, external, rx, tx, ier_read,
                 histVars>>

\* Mutant: the guard is a value that was never armed.
PutClear_open ==
  /\ Doing("put_clear")
  /\ Then("put_push")
  /\ UNCHANGED <<Cpu, deviceVars, plicVars, Driver, histVars>>

PutClear ==
  /\ Doing("put_clear")
  /\ global_irq(FALSE)
  /\ Then("put_push")
  /\ UNCHANGED <<trapVars, deviceVars, plicVars, Driver, histVars>>

PutPush ==
  /\ Doing("put_push")
  /\ pushed' = pushed + 1
  /\ tx' = rb_noalloc_push(tx, pushed')
  /\ lostOut' = IF rb_noalloc_is_full(tx) THEN lostOut + 1 ELSE lostOut
  /\ Then("put_read")
  /\ UNCHANGED <<Cpu, deviceVars, plicVars, external, rx, previous, ier_read,
                 arrived, out, got, lostIn>>

\* let ier = read_reg(UART_IER)
PutRead ==
  /\ Doing("put_read")
  /\ ier_read' = [ier_read EXCEPT ![level] = ier]
  /\ Then("put_write")
  /\ UNCHANGED <<Cpu, deviceVars, plicVars, external, rx, tx, previous, histVars>>

PutWrite ==
  /\ Doing("put_write")
  /\ WriteIer(ier_read[level] \cup {"tx"})
  /\ Then("put_drop")
  /\ UNCHANGED <<rbr, thr, in_service>>
  /\ Gateway
  /\ UNCHANGED <<Cpu, Driver, histVars>>

\* The guard is dropped; its value, and the IER read, are dead from here on.
PutDrop ==
  /\ Doing("put_drop")
  /\ global_irq(previous[level])
  /\ previous' = [previous EXCEPT ![level] = FALSE]
  /\ ier_read' = [ier_read EXCEPT ![level] = {}]
  /\ Then(IF level = 0 THEN "idle" ELSE "print")
  /\ UNCHANGED <<trapVars, deviceVars, plicVars, external, rx, tx, histVars>>
-------------------------------------------------------------------------------
(* raw_getc, by main *)

GetCall ==
  /\ (Doing("idle") /\ level = 0) \/ Doing("get_again")
  /\ previous' = [previous EXCEPT ![level] = global_irq_previous]
  /\ Then("get_clear")
  /\ UNCHANGED <<Cpu, deviceVars, plicVars, external, rx, tx, ier_read,
                 histVars>>

GetClear ==
  /\ Doing("get_clear")
  /\ global_irq(FALSE)
  /\ Then("get_pop")
  /\ UNCHANGED <<trapVars, deviceVars, plicVars, Driver, histVars>>

\* Mutant: the newest byte is returned.
GetPop_newest ==
  /\ Doing("get_pop")
  /\ IF rb_noalloc_is_empty(rx)
     THEN Then("get_none") /\ UNCHANGED <<rx, got>>
     ELSE /\ got' = Append(got, rb_noalloc_back(rx))
          /\ rx' = rb_noalloc_pop(rx)
          /\ Then("get_drop")
  /\ UNCHANGED <<Cpu, deviceVars, plicVars, external, tx, previous, ier_read,
                 pushed, arrived, out, lostOut, lostIn>>

GetPop ==
  /\ Doing("get_pop")
  /\ IF rb_noalloc_is_empty(rx)
     THEN Then("get_none") /\ UNCHANGED <<rx, got>>
     ELSE /\ got' = Append(got, rb_noalloc_front(rx))
          /\ rx' = rb_noalloc_pop(rx)
          /\ Then("get_drop")
  /\ UNCHANGED <<Cpu, deviceVars, plicVars, external, tx, previous, ier_read,
                 pushed, arrived, out, lostOut, lostIn>>

\* The guard is dropped on both paths; without a byte the loop goes round.
GetDrop ==
  /\ Doing("get_drop") \/ Doing("get_none")
  /\ global_irq(previous[level])
  /\ previous' = [previous EXCEPT ![level] = FALSE]
  /\ Then(IF op[level] = "get_drop" THEN "idle" ELSE "get_again")
  /\ UNCHANGED <<trapVars, deviceVars, plicVars, external, rx, tx, ier_read,
                 histVars>>
-------------------------------------------------------------------------------
(* Interrupts: the external one, under trap_external_dispatch, and the     *)
(* timer, whose callback prints                                            *)

Interrupt(cause, first) ==
  /\ TrapEnter(cause)
  /\ op' = [op EXCEPT ![level + 1] = first]
  /\ UNCHANGED <<deviceVars, plicVars, Driver, histVars>>

ExternalInterrupt == ip /\ source_on /\ Interrupt("EXTERNAL", "claim")

TimerInterrupt == Interrupt("TIMER", "print")

Dispatch ==
  /\ TrapDispatch
  /\ UNCHANGED <<deviceVars, plicVars, Driver, op, histVars>>

\* claim_external_irq and the table lookup.  Nothing to claim, or a source
\* without a handler, is trap_unhandled.
Claim ==
  /\ Doing("claim")
  /\ IF ip THEN ip' = FALSE /\ in_service' = TRUE
           ELSE UNCHANGED <<ip, in_service>>
  /\ IF ip /\ external THEN Then("iir") /\ UNCHANGED pc
                        ELSE Goto("panic") /\ UNCHANGED op
  /\ UNCHANGED <<irqVars, level, frame, handlers, deviceVars, source_on, Driver,
                 histVars>>

\* read_reg(UART_IIR): reception goes first; reading "THR empty"
\* acknowledges it.
ReadIir ==
  /\ Doing("iir")
  /\ CASE "rx" \in ier /\ rbr # <<>> -> Then("receive") /\ UNCHANGED thri
       [] ~("rx" \in ier /\ rbr # <<>>) /\ "tx" \in ier /\ thri ->
            Then("transmit") /\ thri' = FALSE
       [] OTHER -> Then("complete") /\ UNCHANGED thri
  /\ UNCHANGED <<rbr, thr, ier, in_service>>
  /\ Gateway
  /\ UNCHANGED <<Cpu, Driver, histVars>>

\* receive_available: one turn of the loop.
ReceiveAvailable ==
  /\ Doing("receive")
  /\ IF rbr # <<>>
     THEN /\ rx' = rb_noalloc_push(rx, Head(rbr))
          /\ rbr' = Tail(rbr)
          /\ lostIn' = IF rb_noalloc_is_full(rx) THEN lostIn + 1 ELSE lostIn
          /\ UNCHANGED op
     ELSE /\ Then("iir")
          /\ UNCHANGED <<rx, rbr, lostIn>>
  /\ UNCHANGED <<thr, thri, ier, in_service>>
  /\ Gateway
  /\ UNCHANGED <<Cpu, external, tx, previous, ier_read, pushed, arrived, out,
                 got, lostOut>>

\* Mutant: a second byte is written without reading LSR again.
TransmitAvailable_blind ==
  /\ Doing("transmit")
  /\ CASE thr = <<>> /\ ~rb_noalloc_is_empty(tx) ->
            /\ thr' = <<rb_noalloc_front(IF tx.len > 1 THEN rb_noalloc_pop(tx)
                                                       ELSE tx)>>
            /\ tx' = [tx EXCEPT !.len = IF tx.len > 1 THEN tx.len - 2 ELSE 0]
            /\ thri' = FALSE
            /\ UNCHANGED <<ier, op>>
       [] thr = <<>> /\ rb_noalloc_is_empty(tx) ->
            WriteIer(ier \ {"tx"}) /\ Then("iir") /\ UNCHANGED <<thr, tx>>
       [] OTHER -> Then("iir") /\ UNCHANGED <<thr, thri, ier, tx>>
  /\ UNCHANGED <<rbr, in_service>>
  /\ Gateway
  /\ UNCHANGED <<Cpu, external, rx, previous, ier_read, histVars>>

\* transmit_available: one turn of the loop, from the read of LSR.
TransmitAvailable ==
  /\ Doing("transmit")
  /\ CASE thr = <<>> /\ ~rb_noalloc_is_empty(tx) ->
            /\ thr' = <<rb_noalloc_front(tx)>>
            /\ tx' = rb_noalloc_pop(tx)
            /\ thri' = FALSE
            /\ UNCHANGED <<ier, op>>
       [] thr = <<>> /\ rb_noalloc_is_empty(tx) ->
            WriteIer(ier \ {"tx"}) /\ Then("iir") /\ UNCHANGED <<thr, tx>>
       [] OTHER -> Then("iir") /\ UNCHANGED <<thr, thri, ier, tx>>
  /\ UNCHANGED <<rbr, in_service>>
  /\ Gateway
  /\ UNCHANGED <<Cpu, external, rx, previous, ier_read, histVars>>

\* Mutant: the source is never completed.
Complete_missing ==
  /\ Doing("complete")
  /\ Then("done")
  /\ UNCHANGED <<Cpu, deviceVars, plicVars, Driver, histVars>>

\* complete_external_irq
Complete ==
  /\ Doing("complete")
  /\ in_service' = FALSE
  /\ Then("done")
  /\ UNCHANGED deviceVars
  /\ Gateway
  /\ UNCHANGED <<Cpu, Driver, histVars>>

\* The handler returns to trap_dispatch.
HandlerReturns ==
  /\ Doing("done") \/ Doing("print")
  /\ TrapRestore
  /\ Then("idle")
  /\ UNCHANGED <<deviceVars, plicVars, Driver, histVars>>

Return ==
  /\ TrapReturn
  /\ UNCHANGED <<deviceVars, plicVars, Driver, op, histVars>>
-------------------------------------------------------------------------------
\* What the CPU does of its own accord.  GetCall and PutCall at "idle" are
\* the application's choice and are not owed.
Proceed ==
  \/ Boot
  \/ PutClear \/ PutPush \/ PutRead \/ PutWrite \/ PutDrop
  \/ GetClear \/ GetPop \/ GetDrop
  \/ Dispatch \/ Claim \/ ReadIir \/ ReceiveAvailable \/ TransmitAvailable
  \/ Complete \/ HandlerReturns \/ Return

Next ==
  \/ Transmit \/ Arrive
  \/ OpenSwitch \/ PutCall \/ GetCall
  \/ ExternalInterrupt \/ TimerInterrupt
  \/ Proceed

Spec == Init /\ [][Next]_vars

\* What main() goes on with once it has called the driver.
MainProceeds == level = 0 /\ (Proceed \/ (Doing("get_again") /\ GetCall))

\* The CPU executes and the device sends; main() gets its turn between timer
\* interrupts, whose period is longer than a tick takes; and a pending external
\* interrupt is taken if the switch is opened again and again: the hart looks
\* after every instruction, and an external interrupt goes before a timer.
LiveSpec ==
  /\ Spec
  /\ WF_vars(Proceed)
  /\ SF_vars(MainProceeds)
  /\ WF_vars(Transmit)
  /\ SF_vars(ExternalInterrupt)
-------------------------------------------------------------------------------
(* Properties *)

TypeOK ==
  /\ IrqTypeOK
  /\ level \in Contexts /\ pc \in [Contexts -> TrapPcs]
  /\ op \in [Contexts -> Ops]
  /\ Len(rbr) <= FifoSize /\ Len(thr) <= 1
  /\ thri \in BOOLEAN /\ ier \subseteq {"rx", "tx"}
  /\ ip \in BOOLEAN /\ in_service \in BOOLEAN /\ source_on \in BOOLEAN
  /\ RingOK(rx) /\ RingOK(tx)
  /\ previous \in [Contexts -> BOOLEAN]
  /\ ier_read \in [Contexts -> SUBSET {"rx", "tx"}]

\* An interrupt always finds its handler and a source to claim: neither
\* trap_unhandled of trap/lib.rs is ever reached, whatever the order of boot
\* steps, bytes and prints.
NoUnhandledTrap == \A c \in Contexts : pc[c] # "panic"

\* "Foreground accesses are serialised with the ISR by GlobalIrqGuard"
\* (lib.rs:29): while one context is inside the guard, no other runs, so the
\* rings and the IER are never touched by two.
InsideGuard == {"put_push", "put_read", "put_write", "put_drop",
                "get_pop", "get_drop", "get_none"}
Serialised == \A c \in Contexts : op[c] \in InsideGuard => c = level

Increasing(s) == \A i \in 1..Len(s) - 1 : s[i] < s[i + 1]

\* What left on the line is what raw_putc was given, in order, without a
\* repetition, and short of exactly the bytes a full ring overwrote.
TxInOrder ==
  LET all == out \o thr \o Contents(tx)
  IN  Increasing(all) /\ Len(all) + lostOut = pushed

\* The same of what arrived and what raw_getc returns.
RxInOrder ==
  LET all == got \o Contents(rx) \o rbr
  IN  Increasing(all) /\ Len(all) + lostIn = arrived

\* Every byte printed is sent or overwritten, provided the application does
\* not keep interrupts off for ever.
TxDrains == []<>gie => (~rb_noalloc_is_empty(tx) ~> rb_noalloc_is_empty(tx))

\* A raw_getc that waits returns when a byte arrives, on the same condition.
GetReturns ==
  []<>gie => ((op[0] = "get_again" /\ rbr # <<>>) ~> op[0] = "idle")
=============================================================================
