# A TLA+ model of ShyOS

ShyOS is a teaching operating system written in C and Rust.  The same layers
are linked against two backends: `qemu_virt` (RISC-V S-mode on the QEMU virt
board) and `linux_user` (an ordinary Linux process in which signals play the
part of interrupts).  There is one hart, no scheduler and no address spaces
yet: the concurrency of the system is the concurrency between `main()` and the
interrupt handlers that run on top of it.

This directory holds TLA+ modules translated from the sources under `lib/`, the
TLC configurations that check them and machine-checked proofs about them.
Paths below are relative to the repository's root, `lib/` being `src/lib/` in
`PROJECT.json`, where `map` names the lines every definition stands for.

## 1. Inventory

| component | state it keeps | operations | interacts with |
|---|---|---|---|
| `lib/00arch/irq` | the `sie` CSR and `sstatus.SIE`, the PLIC registers (qemu_virt); the signal mask (linux_user) | `get_irq` `set_irq` `enable_irq` `disable_irq` `global_irq`, `enable_irq_source` `disable_irq_source` `claim_external_irq` `complete_external_irq`, `GlobalIrqGuard` | hardware; spinlock, trap, UART and timer call it |
| `lib/00arch/linux_user_signal` | none of its own (the kernel's mask) | `signal_disable` `signal_enable` `signal_unblock` | the linux_user half of irq |
| `lib/00arch/init` | none | `_shy_os_init` before `main()` | calls every `*_init` in order |
| `lib/00arch/uart` | none (the 16550 registers) | polled `early_raw_putc` `early_raw_getc`, `raw_*` of the polling provider | shares the device with the interrupt driver |
| `lib/00arch/time` | `TIME_BASE` | `init_time` `get_time` `set_timer` | timer |
| `lib/00arch/rand`, `atomic`, `shutdown` | the xorshift seed | `rand` `srand`, `xchg`, `shutdown` | spinlock uses `xchg` |
| `lib/01log/print`, `panic` | none | `early_printf` and its parsers, `panic` | UART |
| `lib/02core/trap` | three dispatch tables | `trap_entry`, `trap_dispatch`, `trap_external_dispatch`, `trap_set_*_handler` | called by hardware; calls handlers, irq |
| `lib/02core/linux_user_trap` | `signal_trap_table` | `signal_trap_register`, `signal_trap_entry` | called by the Linux kernel; calls handlers |
| `lib/02core/spinlock` | `locked` and the saved `mask` of each lock | `spinlock_lock` `spinlock_unlock`, `LazySpinlock` | irq, `xchg` |
| `lib/02core/uart_interupt` | receive and transmit rings | `raw_putc` `raw_getc`, the UART handler | irq, trap, the ring buffer, the device |
| `lib/02core/ringbuffer_no_alloc` | buffer, `head`, `len` | push (overwrites the oldest), pop, front, back, clear | UART driver |
| `lib/02core/string_no_alloc`, `error` | none | `mem*`, `str*`, errno tables | everyone |
| `lib/03basic/simple_alloc` | a table of at most 256 used blocks | `heap_init` `malloc` `free` | every data structure |
| `lib/03basic/obj`, `result` | none | move, clone, drop protocol of elements; `Result` macros | data structures |
| `lib/04data_structure` | vec, rawbuf, deque, queue, stack, ringbuffer, binary heap, hashtable and hashset, linked list, string | the usual ones | allocator, obj |
| `lib/05timer/timer` | `STATIC_TIMER`, a min-heap of software timers under a spinlock | `timer_init` `timer_add` `timer_remove` `timer_tick` | spinlock, binary heap, trap, irq, time |
| `lib/06page_memory/freelist` | the list of free 4 KiB pages | `page_memory_init` `malloc_page` `free_page` | owns the memory above the kernel heap |
| `app/2048`, `app/timer_demo`, `kernel`, `test` | the 2048 board | clients | all of the above |

What makes each correct:

* **irq, trap, spinlock**: a lock keeps every handler out; masks and the switch
  come back as they were, whichever instruction an interrupt hits; nothing waits
  for what it interrupted.
* **timer**: a timer added is called back once, not early, in the order of
  times, unless removed; it is called back in the end; the handler never sees an
  unconstructed queue.
* **UART**: bytes leave and arrive in order, are lost only when a ring
  overflows, and a full ring drains without further calls.
* **ring buffer**: it holds the newest `cap` elements in order.
* **allocators**: live blocks are disjoint and inside the arena; what was freed
  can be allocated again; the two arenas do not overlap.
* **data structures**: each implements its mathematical object, also when an
  allocation fails in the middle; every object they hold has one owner, and every
  loop over them ends.
* **strings and formatted text**: a bounded copy stays in its bounds and says
  when it cut; what is searched, trimmed or cut into tokens is the text that is
  there; what was printed is read back.

The hard parts are the interleavings: a handler between any two instructions of
`main()`, state that is saved in one step and used in another, two backends
whose masks mean opposite things, devices that raise and drop requests by
themselves.  `PROJECT.json` lists each hazard at its line.


## 2. The modules

| module | models | extends / instances |
|---|---|---|
| `Irq` | mask and master switch of both backends | |
| `Trap` | entry, dispatch, restore and return of a trap | `Irq` |
| `Spinlock` | `spinlock_lock`/`unlock`, `GlobalIrqGuard`, arbitrary clients | `Trap` |
| `TimerSpec` | the promise of `05timer` | |
| `Timer` | boot, add, remove, tick, the timer interrupt | `Spinlock`; implements `TimerSpec` |
| `WindowSpec`, `RingBufferNoAlloc`, `RingBufferClient` | the promise of the ring, its operations as operators, a client | the client implements `WindowSpec` |
| `Uart` | the interrupt-driven UART with 16550 and PLIC | `Trap`, `RingBufferNoAlloc` |
| `HeapSpec`, `SimpleAlloc` | the promise of `malloc`/`free`, the allocator | `SimpleAlloc` implements `HeapSpec` |
| `PageSpec`, `PageMemory` | the promise of `lib/pmm`, the free list and the split of memory | `PageMemory` implements `PageSpec` |
| `PriorityQueueSpec`, `BinaryHeap` | the promise of the binary heap, its loops | `BinaryHeap` implements `PriorityQueueSpec` |
| `RawBuf` | the storage of every container: growth and its limits, moving objects | |
| `Vec`, `Deque`, `LinkedList`, `HashTable` | the operations of vector; deque, queue, stack and ring buffer; linked list; hash table and hash set, as operators | `RawBuf` |
| `SequenceSpec`, `MapSpec` | what these promise: a sequence with the discipline of the kind, a map | |
| `TableSpec`, `TableArrays` | a hash table whose calls are single steps; the same as three arrays on a heap of blocks, reserved one after another | both extend `HashTable`; `TableArrays` implements `TableSpec` |
| `Containers` | a client of one container: calls, loops of clear, drop and clone, ownership of objects | the four above; implements `SequenceSpec` and `MapSpec` |
| `StringNoAlloc` | the functions of `02core/string_no_alloc` as operators | |
| `TextLine` | a client that fills, searches, trims and cuts up a line of C text | `StringNoAlloc` |
| `TextSpec`, `String` | the promise of `String`, its operations and a client | `String` extends `RawBuf`, `StringNoAlloc`; implements `TextSpec` |
| `Stdio` | `printf`, `snprintf` and `scanf` of `01log/print`, directive by directive | `StringNoAlloc` |
| `*Proofs` | the proofs of section 6; `RawBufProofs` holds the lemmas on storage that containers and strings share | the module they are about |
| `MC*` | constants for TLC | |

How a state corresponds to the program:

* **One CPU, a stack of contexts.**  Context 0 is `main()`, context k the
  handler that interrupted context k-1; only context `level` runs.  `pc[c]` is
  where a context stands in the primitives of `Trap` and `Spinlock`, `op[c]`
  where it stands in the module on top.  `frame[c]` is what trap entry saved:
  the SIE bit in `sstatus.SPIE`, the local `previous_irq` of `trap_dispatch`,
  or the signal frame of the Linux kernel.
* **Steps are what an interrupt can fall between.**  `disable_irq` on qemu_virt
  is two CSR instructions and so two steps (`LockRead`, `LockClear`); on
  linux_user it is one system call and one step (`LockBlock`).  The lock body,
  the UART's register accesses and each turn of a driver loop are steps.
  Sequential code that no handler shares (the allocators, the free list) takes
  one step per call, and one per loop turn in `BinaryHeap`, in the loops of
  `Containers` over objects, and per directive or token in the text modules.
* **An operation that may be refused is a set of outcomes.**  `Reserved` of
  `RawBuf` yields the granted and the refused one, and everything built on it
  carries both along; the client makes one of them the state.
* **Three arrays are three allocations.**  `HashTable` makes one step of
  `hash_table_init_storage`, in which the storage is granted or refused as a
  whole.  `TableArrays` looks inside: a raw buffer is a pointer to a block and a
  capacity, `heap` holds the blocks granted and not freed, each of the three
  reservations is a step that may be refused, a refusal runs the drop of the
  table as far as it is built, and each turn of the loops that clear, move and
  clone is a step.  What is reached through `NULL` is undefined in C: the model
  has no step for it.  `shown` is the table as its client saw it when it last had
  it, which is what `TableSpec` speaks of.
* **Objects have an identity.**  An element of a container is an owned object;
  `live` records those that somebody owns, and `gone` of an outcome those that
  went back to the caller or were dropped.  Elements that are plain bytes are the
  easier case: nothing happens at a drop, and a clone cannot fail.
* **A mask is a set of classes.**  `mask` is `sie` on qemu_virt and the blocked
  signals on linux_user, because this is what `get_irq` returns; `Deliverable`
  says for each backend when an interrupt can be taken.
* **History.**  Variables marked "history" record what a property has to
  remember (bytes sent, calls made, the last answer); no guard reads one,
  except to bound a run or to use each timer once.

`Timer` does not assume that the lock works: it executes every step of it, and
`ClientOfSpinlock` shows that the combination is a behaviour of `Spinlock`.
The queue inside it is the abstract collection that `PriorityQueueSpec`
describes, and `BinaryHeap` is shown to implement that.  `Uart` calls the ring's
operators themselves.

## 3. What each run checks

| run | constants | properties | what it shows |
|---|---|---|---|
| `spinlock_qemu` | 2 locks, 2 guards, masks {}, {TIMER}, all | `NoSelfDeadlock` `MutualExclusion` `GuardMeansMasked` `MaskAsWanted` `NoReentry` `TrapTransparent` | locks, guards and traps under every interleaving on qemu_virt |
| `spinlock_linux` | the same, guards only outside masked sections | `HeldMeansMasked` | no signal comes while a lock is held |
| `timer_qemu`, `timer_linux` | 2 timers, period 2, time to 2, pushes that may fail | `KeepsPromise` `EveryTimerEnds`, on linux_user `ReadyBeforeTick`, on qemu_virt `ClientOfSpinlock` | boot order, the promise, the use of the lock, and that every timer ends |
| `uart` | rings of 2, FIFO of 2, 4 bytes out, 3 in | `NoUnhandledTrap` `Serialised` `TxInOrder` `RxInOrder` `TxDrains` `GetReturns` | order, losses, dispatch and progress of the driver |
| `memory` | heap: alignment 2, table of 3, 5-bit words; pages: 4 of 3 bytes on a split that is not page-aligned; hash table: 5 elements under 4 keys that collide, capacity 4 growing to 9, 6 blocks, the keys' array granted or refused | `KeepsPromise` of the heap, `FreeListed` `ArenasApart` `KeepsPool` of the pages, `ArraysOwned` `ActsAsTable` of the table's arrays | first fit, full table, overflowing sizes; boot, alignment at both ends, owners that overwrite links; reserved, moved, cleared and freed array by array, a table acts as `HashTable` says and leaks no block |
| `containers` | 3 to 5 elements, first capacity 2, at most 9 slots; heap of 6 elements; ring of 3 | `OwnedOnce` `ListWhole` `KeysReachable` `KeepsSequence` `KeepsMap` `EveryCallEnds`, of the heap `HeapOrdered` `KeepsOrder`, of the external ring `IsWindow` | each container is its mathematical object under every sequence of calls, with every allocation granted or refused, and leaks, loses or doubles nothing |
| `text` | letters a, b, NUL; lines in buffers of 0, 1, 3 and 6 bytes; 5-bit int and 8-bit long | `KeepsText` `CopiesFit` `PartsWhole` `SearchesAgree` `PrintsWhole` `RoundTrip` | `String` is a text that C can read at any time; bounded copies, searches, tokens; printing, cutting and reading back |

The container, the binary heap and the external ring of `containers`, the three
parts of `memory` and the three clients of `text` do not touch one another: a
variable says which is used, and their state spaces add instead of multiplying.

Four runs end in a violation on purpose; each is a place where the repository
says what the code does not do:

* `nested_guards` (a bug): on linux_user `global_irq` (irq_linux_user.c:54)
  reports "was on" unless all three classes were blocked, but only SIGALRM can
  ever be reported as blocked.  The inner of two nested `GlobalIrqGuard`s, or a
  guard inside a spinlock, therefore opens on drop what the outer one closed.
  `irq.h:72` and `irq/src/lib.rs:155` promise the previous state.  Today no
  handler path nests guards on linux_user (its `raw_putc` takes none).  The other
  runs on linux_user open guards only where this cannot happen, which
  `FreeGuards = FALSE` says.
* `list_zero` (a bug): `Obj.md:40-41` asks every owned type to take all zeroes as
  an empty object and to drop it.  `linked_list_clear` (linked_list.c:316) goes on
  until `first` is `LINKED_LIST_NONE`, which is not 0, so the drop of a list that
  was moved from or dropped before never returns.  `containers` drops zeroed
  objects of every other kind (`Zeroable`).
* `hash_oom` (a bug): the run makes a table and clones it.  The clone's keys'
  array is granted and its values' array refused; `hash_table_init_storage` drops
  the table as far as it is built (hashtable.c:87), and `hash_table_clear` counts to
  `keys.cap` (hashtable.c:327) while `states.data` is still `NULL`
  (`CloneAnswers`).  `Obj.md:42` promises that a clone that fails is NULL; a
  refused states' array ends the same way, and so do `hash_table_new` and an
  insertion that makes the table grow.  Nothing defined follows, so the run says
  `CHECK_DEADLOCK FALSE`.  A loop bounded by `states.cap` (`MoreSlots`) would answer:
  with it `CloneAnswers`, `ArraysOwned` and `ActsAsTable` hold with every array
  refused.  The runs `memory` and `containers` refuse the first array or none.
* `reentry` (a comment): `trap/lib.rs:130` gives as the reason for opening every
  class that handlers may be re-entered and that interrupts should not stay off
  while they run.  `enable_irq` only writes `sie`; `sstatus.SIE` stays 0 until `sret`,
  so that no handler is ever interrupted (`HandlerInterruptible` fails, `NoReentry`
  holds).  The locks do not depend on it: they close the classes themselves.

Reading the code against its documentation gave two more disagreements that
no run is about.  `get_irq` of linux_user returns the blocked classes
(`mask_to_sigset`), where `irq/readme.md:42` says a mask is what the CPU accepts;
saving and restoring works either way.
And the readme of `irq` is older than the code: lines 13-15 and
235-240 still call the linux_user functions no-ops.

### Bounds, and why they are enough

* `MaxLevel = 2` lets a handler be interrupted; that it never is, is a result
  (`NoReentry`), not a bound.
* Two locks are the least with nesting, and two guards the least where an inner
  drop could open an outer one.  The three application masks are: nothing
  open, the timer alone, everything.
* Two timers are the least for an order; equal times, a time already past and a
  time never reached all occur with times 0..2.  The clock stops counting at
  `MaxTime` but keeps raising interrupts, so that liveness is not an artefact
  of the end of time.
* A ring of 2 wraps, fills and overruns within 4 bytes; the real 128 differ in
  nothing the driver looks at (and the ring is proved for every capacity).
* `memory`, heap: three blocks in a table of three make every shape of gap (before,
  between, after) and a full table; with 5-bit words `align_up` overflows.
* `memory`, pages: both ends of the provider's memory are unaligned; four pages make a
  list whose links can be reordered.
* The heap in `containers`: six elements are the least number for which removal
  from the middle has to sift up (the comment in `MCContainers` shows the shape).
* `containers`: a first capacity of 2 instead of 5 lets a sequence of four grow
  twice, and 9 slots refuse the next growth for its size; a ring of 3 evicts, and
  its storage is larger than the ring.  Four keys of which two share a start, a
  third starts on the next slot and the fourth at the last slots make probes
  that collide, run over tombstones and wrap; the fourth makes the table grow.
  `HASH_TABLE_MIN_CAPACITY` is 4 instead of 8, the least at which the load limit
  leaves a slot free.  The model's growth steps are the code's.
* `memory`, table: three elements fill a table of four slots, the fourth key makes it
  grow, the fifth element replaces a value.  Six blocks are two tables, the most
  that exist at one time, so that a refusal is always the choice of `malloc` and
  never the bound's (`BlocksAssumption`).
* `text`: a `String` grows four times within six bytes.  A line of up to six
  characters has room for a needle that begins inside a bound and ends behind
  it, for two delimiters side by side and for a cut at every place.  Integers of
  5 and 8 bits have the same least value without a positive counterpart as those
  of 32 and 64.  Each format has two fields with a comma or a space between.

Other bounds limit histories only: `MaxPut`, `MaxIn`, `MaxTime`.

## 4. Fairness

* `Timer!FairSpec`: weak fairness of the boot code and of the steps of an
  operation that was begun (the CPU executes), of the clock, and strong
  fairness of the end of a guard's scope and of the timer interrupt.  Strong,
  because the hart looks for interrupts after every instruction: a pending one
  is taken if interrupts are open again and again, even though `main` may
  close them again each time.
* `Uart!LiveSpec`: weak fairness of the CPU and of transmission, strong fairness
  of `main`'s next step (timer interrupts are a tick apart, so `main` gets its
  turn between them) and of a pending external interrupt, which the hart takes
  before a timer interrupt.
* No fairness is assumed of the application: it may stop printing, reading,
  adding timers, and may keep interrupts off for ever.  `TxDrains` and
  `GetReturns` say "if the switch is open again and again" in the property.
* `MCContainers!MCSpec` and `ContainersFairSpec`: weak fairness of `Turn`, the
  next turn of a loop that was begun; it runs in the caller's context, and no
  fairness is owed by the client's choice of the next call.

## 5. Assumptions about callers

The code does not check these; the models' clients keep to them.

* A context does not lock a lock it holds and unlocks in reverse order.  Both
  follow from the scoping of `CSpinlockGuard` in Rust.
* Masks are set by hand only by `main`, outside locks and guards.
* `timer_init` opens the timer class in whatever mask boot left, so the masks of
  `AppMasks` are closed under adding it (`TimerAssumption`).
* Either the backend is `qemu_virt` or a `GlobalIrqGuard` is not dropped inside a
  lock (`GuardDiscipline`); the run `nested_guards` shows what happens otherwise.
* Timer callbacks do not call `timer_add` or `timer_remove`: the lock is held
  while they run (`PROJECT.json` lists the deadlock as a hazard).
* `malloc` and `free` are not called from handlers; nothing in `lib/` does.
* Owners write only inside pages they own and give back only what they own.
* `cmp` of a binary heap is a total preorder, and an element is in the heap
  once (moving it in gives it away).  `hash` and `eq` of a hash table agree, and
  no object is in two containers.  `OfferAssumption` and `NoCopyAssumption` only
  say what the constants are: known kinds, elements among `Elements`, and a value
  for "there is no copy" that no container and no map has.  `HashAssumption` says
  that a slot's state is no pair (the code keeps them in different arrays) and
  that the least capacity is 4, of 8 in the code: from 4 on the load limit
  leaves a slot.
* Indices given to `vec_insert`, `vec_get` and the like are those of elements; an
  index given to `linked_list_remove` may be any, also one that is no longer used.
* Characters are naturals and `NUL` is 0 (`StringAssumption`, `LineAssumption`);
  what a string has to be when there is none, `NoString`, is a value of its own.
  The pieces and needles given to a line are C texts and so hold no NUL.
* What `string_push_str_n` and `string_insert_str_n` are given lies outside the
  string's own buffer: growth would free it before it is copied.
* `scan_in` negates the least integer, which C leaves undefined
  (early_stdio.c:497-505); the compiler and flags of `mk/config.mk` make it the
  machine's negation, which wraps, and so does `Signed`.
* The pointers given to `string_no_alloc` point to terminated strings, and
  `stpcpy` to enough room; `strlcat` may be given a destination without terminator.
* The arguments are of the types that the directives ask for, and the memory
  given to `snprintf` is at least as long as the size given with it
  (`StdioAssumption`).
* What is typed ends the last field with white space, and a format is read back
  with the arguments it was printed from.  Which fields cannot be read back
  whatever the program does, is `Readable` of `Stdio`: a minus is printed before
  its padding spaces, `%i` takes padding zeroes for octal, `%s` ends at white
  space, and what `scanf` pushed back is lost with the call.

## 6. What is proved

`tlapm` checks these for every value of the constants.  Beside the properties of
the runs, each module's type invariant is proved (`TypesHold`), of the ring that
`front` and `back` are its ends, of the heap that its table stays sorted, and of
a tick that it leaves nothing due.

* **`SpinlockProofs`**, for any set of locks, any nesting and both backends:
  `NoSelfDeadlock`, `HeldMeansMasked`, `MutualExclusion`, `GuardMeansMasked`,
  `MaskAsWanted`, `NoReentry`, `TrapTransparent`, under `QemuVirt \/ ~FreeGuards`
  (without it the finding `nested_guards` is a counterexample).  No property is
  inductive alone.  `LockInv` adds: what the pcs of the running and of the
  interrupted context can be (`StackInv`, `MainInterrupted`); that the word of
  a lock is 1 exactly while somebody holds it (`HeldInv`); that the mask, or
  the copy of it in the register, in the innermost lock or in the frame, is
  always the one the context wanted (`MaskInv`: the outermost lock's saved
  mask is `wanted`, inner ones saved a closed mask); and what SIE and the
  blocked signals are at each pc (`SwitchInv`, `SignalInv`).
* **`SimpleAllocProofs`**, for any alignment, table size and word width: the
  table stays sorted (`TableSorted`), `now` stays in the arena, and the
  allocator implements `HeapSpec`.  The hard half is the refusal: `NoRoom`
  shows that if no gap before, between and after the sorted blocks holds the
  request, then no address does.
* **`PageMemoryProofs`**, for any number of pages and any alignment of the
  memory: the free list is one path through exactly the free pages (`FreeListed`),
  heap and pages are apart, `PageSpec` is implemented.
* **`TimerProofs`**, for any items, period and clock, both backends, under
  `GuardDiscipline`: `ReadyBeforeTick`, `TickLeavesNothingDue`, that `Timer` is a
  client of the spinlock, and `KeepsPromise`.  The invariant is `LockInv` of the
  lock below, which holds because every step of `Timer` is a step of `LockSpec`,
  and `TimerInv`: who does what (`RolesInv`), which code of the lock fits which
  code of the timer (`PhaseInv`), the order of `timer_init` (`BootInv`), and that a
  tick past its loop left nothing due by the time it read (`QueueInv`).  `RootInv` adds that
  the item `tick` peeked at is still the root when it pops.  The queue
  may change between `tick_now` and the loop's end only through the tick itself:
  `TimerIsGuarded` says why.
* **`UartProofs`**, first of the ring, for any capacity: it stays in its buffer, its
  ends are right, and it implements `WindowSpec`.  `SlotIs` replaces `%` by the
  two cases it stands for, after which all is linear arithmetic.  Then of the
  driver, for any ring capacity, FIFO size and traffic: `NoUnhandledTrap`,
  `Serialised`, `TxInOrder`, `RxInOrder`.  `StackInv` says at which pcs of `main`
  a handler can stand over it, `SwitchInv` that the switch is off in boot, in
  guards and in handlers, `HandlerInv` that handlers come before their
  interrupts and that a claim finds its request.  For the bytes, `Rises` states
  the order of the whole path (sent, in THR, in the ring) together with what is
  lost, so that a byte moving on along the path changes nothing.
* **`ContainersProofs`**, first of the binary heap, for any elements, ranks and
  storage limit: the array is a heap between calls and implements
  `PriorityQueueSpec`.  While a sift runs the order may be broken at one place;
  what makes the repair work is `Skips`: the children of that place are in order
  with its parent.  `RootIsGreatest` gets from the order of neighbours to the
  greatest element by taking the least index that would contradict it.

  Then of the containers, for any elements, keys, hashes, capacities and offers,
  and any growth limit: `KeepsSequence`, `KeepsMap`, `ListWhole`, `KeysReachable`
  and `OwnedOnce`.  For the sequences `ContInv` says that the container and its copy hold the objects
  made for them once each, in a buffer of the right shape, and that a copy under
  construction is a prefix of its source with the room reserved for it.  The
  shapes: `VecShape`; `DequeShape`, `last = (first + len) % cap` with the elements
  from `first` on round the end; `ListShape`, two paths, one along `next` and
  `prev`, one along the free list, that pass every node once.  Each operation is
  shown to turn a shape into a shape and the contents into what `SequenceSpec`
  allows.  Where the code loops (the growth of `raw_buf_reserve`, the move of a
  wrapped deque, the nodes that a grown list adds to its free list) the recursive
  function is first shown to exist, as a set of least solutions, and then to have
  the property for every index, from the least index that would contradict it:
  the library's induction takes an operator, which no prover here instantiates.

  For the tables the invariant is `TableInv`.  Between calls a table is
  `TableFit`: a key lies in one slot, the number of occupied slots is `len` and
  leaves a quarter of the slots, and no probe meets an empty slot before the one
  its key lies in (`Reached`).  `KeysReachable` alone is not inductive: it speaks
  of the keys that are there, while an insertion has to know where the probe of a
  key that is *not* there may end.  `FindsKey` and `FindsPlace` are the two
  answers of `find_slot`; a slot that is never made empty leaves every probe as
  it was (`SlotChanges`), which is what the tombstone of a removal is for, and
  only a clear, after which nothing is looked up, makes slots empty.  `Rehashed`
  and clone move one slot after the other: `HoldsUpto` says that the new table has
  what lies in the first slots, and `NextIs` that counting finds the next one.
  What a table owns (`Goods`) and which map it is (`IsMapOf`) depend on the set of
  its pairs alone, so each operation is described by what it does to that set.

* **`TextProofs`**, for any letters, pieces, needles, delimiters, formats and buffer sizes:
  of the line, `CopiesFit`, `PartsWhole` and `SearchesAgree`; of `String`, that
  it implements `TextSpec` (`KeepsText`), for any growth limit and with every
  allocation granted or refused.  The walks of `string_no_alloc` are the least
  members of sets of places (where a NUL, a delimiter, a difference or an
  occurrence is), so that what they return needs no induction.

  The invariant of the line is `LineInv`.  While it is cut up, the line is the
  text it was but for the ends of the tokens found so far (`LineCut`); the tokens
  found are the fields of the text that lie before the pointer `strtok_r` saved
  (`TokensAre`, `PointerIs`), and no token reaches over a delimiter, which is why
  overwriting one delimiter cannot disturb a later token.  While it is filled,
  `Filling` says that the buffer holds a terminated prefix of all that was copied
  into it; `Trimmed` says what a trim left.

  The invariant of `String`, `StringInv`, is `HoldsText` of both strings: the
  buffer reads the text, then a NUL, `len` is the length of the text, and no NUL
  comes before it.  Two loops are recursive functions.  `memmove` copies from
  the one end or from the other, and either order is shown to leave every byte
  where a simultaneous move would (`CopiedIs`); `string_retain` is shown, index by
  index, to have the kept part of what it read in front of the old bytes
  (`Compacting`).  Each call is then shown to leave what `TextSpec` allows of it.

  Of `Stdio`, that printing is right (`PrintsWhole`), for any formats, arguments
  and sizes of the buffer.  `StdioInv` says what the buffer holds at every
  directive (`ShownSo`: the text as far as it fits, then the memory as it was) and
  where the text of each directive lies (`MarkedSo`).  That a field shows its
  argument is a fact about the loops alone: the division loop of `emit_uint` ends,
  at the first quotient that is zero (`DividedIs`), and a reader who multiplies
  and adds from the left has, after each digit, the quotient that the division had
  before it (`MagnitudeIs`); neither padding nor `0x` nor a minus changes that.

Only model-checked are

* `RoundTrip` of `Stdio`.  A proof for any formats would first have to say which
  formats can be read back at all, beyond `Readable`: no number may touch text
  that could belong to it, and each has to fit the type it is read into.  The
  formats of the run are built so.  And what `scanf` stores wraps at powers of 2,
  of which the provers know nothing, not even that `2^n` is a number.
* `ArraysOwned` and `ActsAsTable` of `TableArrays`.  What the proofs
  say of tables is about `HashTable`, where an allocation is refused as a whole;
  that the three arrays act as that table is checked on the small instance only.
* Liveness: `EveryTimerEnds`, `TxDrains`, `GetReturns`, `EveryCallEnds`.  The prover
  has no ENABLED, and so no fairness.

## 7. What is not modelled, and the plan

The plan of modules, runs and proofs is carried out but for the proofs that the
end of section 6 names.

Not modelled, and why:

* The polled console on the device that the interrupt driver owns:
  `early_raw_putc` loses a byte when the interrupt comes between its read of
  LSR and its write of THR.  It is meant for output before `uart_interupt_init`
  and from a panic, where no interrupt comes.
* `binary_heap_clone`, `raw_buf_clone`, the `from_raw_parts` constructors,
  `strdup` and `strndup`: one allocation and one copy each, and nothing else in
  `lib/` calls the last four.
* `memset`, `memzero_explicit` and `mempcpy`, one loop each; `strtok`, which is
  `strtok_r` with one static pointer for all callers.
* The later two arrays of a hash table are refused only in `hash_oom`: what the
  code does then has no next state.  The objects in the slots and the shell that
  `hash_table_clone_obj` allocates for the clone are not blocks of `TableArrays`;
  who owns the objects is `OwnedOnce` of `Containers`.
* Exceptions and panics beyond "the machine stops", the `sscratch` convention of
  `trap.S`, the conversion of the time CSR, `rand`, `shutdown`, the errno tables,
  the wrappers of the Rust crates, the applications, the build system and the
  training notes.
