# libsk and its FreeRTOS demo: models and proofs

The repository is a teaching toolchain for STM32F4 boards (the "GL starter kit"). It
holds libsk, a small support library (pins, a SysTick delay, lock primitives, a
byte FIFO, a driver for a character LCD), ten demos of it, and an eleventh that
brings the FreeRTOS kernel. All of it is written for `main`, interrupt handlers and
the tasks of a preemptive kernel at once, on one Cortex-M4 core. This directory
holds TLA+ models of libsk and of the kernel, TLC runs over small instances of
them, and TLAPS proofs for all instances.

Line numbers of libsk refer to `src/src/*.c` and `src/inc/*.h`; those of the kernel to
`src/basecamp_lab_demos/10_freertos/src/*.c`, called `10_freertos` below.
`PROJECT.json` maps each definition to the lines it stands for, and lists the
hazards, runs, mutants and theorems.

Contents: [inventory](#1-inventory), [modules](#2-modules-and-how-they-read),
[runs](#3-runs), [disagreements found](#4-where-the-code-and-its-comments-disagree),
[proofs](#5-proofs), [limits](#6-what-is-not-shown), [what is left](#7-what-is-left).

## 1. Inventory

### The library

| Part | State | Operations | Used by |
|---|---|---|---|
| Locks, `sync.c:15-56` | one byte per `sk_lock_t`; the core's exclusive monitor | `sk_lock_trylock`, `sk_lock_spinlock`, `sk_lock_unlock` | any context |
| Byte FIFO, `sync.c:60-163` | `buf`, `buflen`, `rdidx`, `wridx`, `isfull` | `sk_bfifo_init`, `_put`, `_get` | a producer and a consumer, often `main` and a handler |
| Tick, `tick.c` | `__sk_nticks`, SysTick's control, reload and divider | `sk_tick_init`, `sk_get_tick_rate_hz`, `sk_tick_delay_ms`, `sys_tick_handler` | the LCD driver (through a function pointer), demos |
| Pins, `pin.c` | none of its own: ODR, IDR and BSRR of a port | `sk_pin_set`, `_read`, `_toggle`, `sk_pin_group_set`, `_read`, `_toggle` | the LCD driver, demos |
| LCD, `lcd_hd44780.c` | `struct sk_lcd` (configuration, `__isinitialized`) and, in the display itself, mode, phase and what it executes | `sk_lcd_init`, `sk_lcd_cmd_*`, `sk_lcd_write_byte`, `sk_lcd_putchar`, `sk_lcd_set_backlight` | demos |
| Intrinsics, macros, results | none | `__ldrexb`, `__strexb`, `__clrex`, `__wfi`, barriers, `sk_err` | all of the above |

How the parts interact:

- The LCD driver writes half bytes with `sk_pin_group_set`, strobes E with
  `sk_pin_set` and waits through the two function pointers of `struct sk_lcd`,
  one of which is `sk_tick_delay_ms` in the demos.
- `sk_tick_delay_ms` shares only the counter with `sys_tick_handler`; it sleeps in
  WFI between its looks at it.
- Locks and FIFO know nothing of each other. The FIFO takes no lock; its comment
  hopes for lock-free use with one producer and one consumer (`sync.c:113`).
- Every context uses the same core, so the interleavings are those of exceptions
  (which nest by priority and run to completion) and of context switches.

What is hard, and what makes each part correct:

| Part | Hard | Correct means |
|---|---|---|
| Locks | exceptions between LDREXB and STREXB; CLREX on a monitor another pair set; spinning | at most one holder; the byte says whether there is one; no starvation by broken pairs |
| FIFO | full and empty look alike; the flag is stored apart from the indexes; interleaving at each access | bytes come out in order, each once; a put is all or nothing |
| Tick | 24-bit register and divider; 32-bit counter; ticks between look and sleep | every tick lasts what the registers were set for; delays neither end early nor oversleep, and end |
| Pins | read-modify-write of a port others use; gaps and inversions | no level is lost; what is set reads back |
| LCD | the display outlives a restart of the MCU in any phase; it is deaf while busy; nothing is read back | each call executes its instruction, once; initialisation finds the phase again |

### The FreeRTOS kernel

FreeRTOS V10.2.1 as `10_freertos/inc/FreeRTOSConfig.h` configures it: preemptive, time
slicing, 5 priorities, mutexes, notifications, software timers, a heap of 24 KiB; a
`configASSERT` that fails masks interrupts and loops for ever.

| Part | State | Operations |
|---|---|---|
| Scheduler, `tasks.c` | ready lists with a bitmap of the priorities in use, two lists of sleepers, suspended and dying tasks, the list of tasks made ready while the scheduler was suspended, tick count, next wake time | `vTaskSwitchContext`, `xTaskIncrementTick`, `vTaskSuspendAll`, `xTaskResumeAll`, the idle task |
| Task control, `tasks.c` | per task: priority, base priority, mutexes held, notification | create, delete, `vTaskDelay`, `vTaskDelayUntil`, suspend, resume, `vTaskPrioritySet`, notifications, each `FromISR` form |
| Queues and mutexes, `queue.c` | the ring, two event lists, two lock counts, holder and recursion count | send (back, front, overwrite), receive, peek, take, give, recursive take and give, reset, `FromISR` forms |
| Event groups, `event_groups.c` | bits, an unordered event list | wait, sync, set, clear, delete |
| Stream and message buffers, `stream_buffer.c` | a ring of bytes with one reader and one writer, whom it notifies | send, receive, reset, `FromISR` forms |
| Software timers, `timers.c` | two lists in the order of expiry, a daemon task, its command queue | start, reset, stop, change period, delete |
| Heap, `heap_4.c` | free blocks in the order of their addresses | `pvPortMalloc`, `vPortFree` |
| Lists, `list.c`; port, `port.c` | | insert, remove, next; SysTick, PendSV |
| Demo, `rtosdemo.c` | | two tasks that blink LEDs every 700 and 300 ms |

They interact through the scheduler: a call that cannot go on puts its task on an
event list and in a list of sleepers; the call, interrupt, tick or timer that ends
the wait moves it back. Critical sections mask the interrupts that call the kernel; long
operations suspend the scheduler instead, so that interrupts, ticks included, go on and
leave their effect in the pending list, in `uxPendedTicks` and in the lock
counts of queues, for `xTaskResumeAll` and `prvUnlockQueue` to make good.

What is hard: everything between a look and a block (a send or a notification
in the gap must not be lost), timeouts that race with a late answer, the tick count
that wraps, priorities that are inherited and given back, and bookkeeping kept in
two places (bitmap and lists, count and ring). What makes it correct is in the list
of properties in section 2.

### The other demos and vendored code

`basecamp_lab_demos/00` to `09` each carry a copy of the libsk of their time and a
small `main`: blinking and soft PWM (00, 01), one interrupt and semihosting (02),
a one-shot timer delay and an early form of the tick (03), the LCD (04), the ADC
with an end-of-conversion handler (05), the 168 MHz clock (06), SPI flash and
I2C (07, 08) and the lock (09). The copies of `tick.c` and `sync.c`, and from demo
07 (the LCD: 05) on those of `pin.c` and `lcd_hd44780.c`, are byte for byte those of
`src/src`, so what is shown here holds for them. A `printf` is vendored in 05.
libopencm3 and the hardware are external: they appear as the registers and
instructions that `src/` uses. Section 6 says why the demos are not modelled.

## 2. Modules and how they read

| Component | Specification | Abstract | Instance for TLC | Proofs |
|---|---|---|---|---|
| Locks | `SkLock` | `AbstractLock` | `MCSkLock` | `SkLockProofs` |
| Byte FIFO, call by call | `BFifo` over `BFifoIndex` | `BoundedQueue` | in the cfg | `BFifoProofs` |
| Byte FIFO, access by access | `BFifoSpsc` over `BFifoIndex` | | `MCBFifoSpsc` | `BFifoSpscProofs` |
| Tick | `Tick` | | in the cfg | `TickProofs` |
| Pins | `Pin` over `PinGroup` | | `MCPin` | `PinProofs` |
| LCD | `Lcd` (driver and display composed) | | `MCLcd` | `LcdProofs` |
| Kernel | `Rtos`, which composes the modules below | | `MCRtos` | |
| &nbsp; lists, scheduler, task control | `RtosLists`, `RtosTasks`, `RtosControl` | | | `RtosListProofs` |
| &nbsp; queues and mutexes | `RtosQueue`, `RtosQueueCalls` | `MessageQueue`, `AbstractLock` | | `RtosProofs` |
| &nbsp; event groups | `RtosEventGroup` | | | |
| &nbsp; stream buffers | `RtosStream` | | | `RtosProofs` |
| &nbsp; timers | `RtosTimers` | | | `RtosProofs` |
| &nbsp; heap | `RtosHeap` | | | `RtosProofs` |
| &nbsp; its properties | `RtosProperties` | | | |

Operators with a suffix, such as `StrexFail_Ignored`, are plausible bugs; no
specification uses them. Each stands before the definition it is a variant of,
and replacing that definition by it must make a run fail (`mutants` in
`PROJECT.json`).

### SkLock

One step per LDREXB, CLREX, STREXB and unlocking store. `pc[c]` is where context
`c` is inside `sk_lock_trylock`, `want[c]` the lock of its call, `spin[c]` whether
the call is `sk_lock_spinlock`, which is the repetition of trylock; `held[c]` is
what calls have returned true for. Around it the processor: `task` runs unless
handlers are `active`, of which the most urgent runs; `IsrEnter`, `IsrReturn` and
`Switch` open the exclusive monitor, as exception entry and exit do on the core.
The monitor has no address (STM32F4 has one reservation for all of memory), so a
pair on another lock in between matters. STREXB therefore also fails when nobody
touched the lock, contrary to its comment (`sync.c:40`); callers that read false as
"somebody holds it" would be wrong.

`sk_lock_unlock` does not look who holds the lock. The model has only holders
unlock, which is the contract in `sync.h:30`.

`ABS` maps `held` to the `holder` of `AbstractLock`: STREXB succeeding is Acquire,
the store of unlock is Release, everything else stutters.

### BFifo, BFifoSpsc

`BFifo` takes one call per step, with each early return and its result code; `out`
is what a get wrote to the caller's array. `Contents` reads the ring as a sequence
and is the refinement mapping to `BoundedQueue`. Lengths start at `MinPut`: 1 in
the run, because of what a put of nothing does (section 4).

`BFifoSpsc` splits the same code at its accesses to shared memory: in put the read
of `rdidx` (and of the flag if the indexes are equal), each byte, the second read
of `rdidx`, the flag, the write index; in get the reads, each byte, the read
index, the flag. Bytes are numbered, so a byte lost, repeated or invented
shows. A `regime` says who may interrupt whom: two tasks, put in a handler, get in
a handler, or both under one lock; and how much of the buffer (`slack`) the
producer never fills.

`uint16_t` plays no part: indexes are below `buflen` and C evaluates the sums in 32 bits.

### Tick

SysTick is the counter it is: `Clock` counts `count` down, from 0 it begins again with the reload
value, and `TickIrq` is the step to 0, with the handler. `cycles` and `lasted` measure the tick under way and
the last whole one in cycles of the AHB clock. `TickInit` clears the count, as the write to
STK_CVR does whatever it writes (`tick.c:47`).

The steps of `sk_tick_delay_ms` are the read of the counter, the computation, each
look in the loop condition, and WFI, with ticks and other interrupts in between.
WFI does not return for an interrupt that was served before it. The widths 2^32
and 2^24, the divider 8 and the 1000 of milliseconds are the constants `Modulus`,
`ReloadModulus`, `Prescale` and `Thousand`. `elapsed` is a history variable: the ticks
since the delay began. The CPU makes at least one step between two ticks while it
is awake (`fresh`): a tick lasts thousands of cycles.

### PinGroup, Pin

A 16-bit value is the set of its one bits. `Densify` and `Sparsify` are the bit
loops, by the rank of a pin in its group. `Pin` splits toggles and group calls
between their load of ODR and their store. `level` is a history variable: what the
port would be had each completed call been one step. A context toggles and sets
its own pins through BSRR. Group calls store the whole port and therefore run while
no other context uses it, the reading of "Access to the corresponding GPIO
registers is not atomic" in `pin.h`.

### Lcd

The driver and the HD44780 in one module, because what matters is their agreement.
`todo` is the list of half bytes a call still has to send, each with the delay
that follows. `Raise`, `SetData`, `Drop`, `Pause` are the strobe of one half byte: E goes up over what was on the
lines before (`lcd_hd44780.c:61`), then the data change (62). The
controller (external, from its data sheet) has `eight` (8-bit mode), `half` (the first
half, if it waits for the second), `busy` (microseconds until it listens again),
and `ran`, the instructions it has executed since the call began. While busy it
ignores what it is handed. In 8-bit mode it takes each half byte for a whole
instruction whose lower four lines, not connected, read as ones. `Restart` is a
reset of the MCU alone, at any point: `isinitialized` and the call are lost, the display stays
as it is, and E, if it was up, may fall and hand over the half byte on the lines, or what they
read as when nobody drives them any more (`Floating`).

`found` remembers whether the last `sk_lcd_init` began before a `Receptive` controller: one in
4-bit mode that is not behind a first half 3. Only for these its half bytes 3, 2, 2 synchronise; a
first half 3 (of a data byte 0x30 to 0x3F, or of `sk_lcd_init` itself) and the next 3 are a
function set to 8-bit mode, and a controller that was just powered on is in 8-bit mode. The
properties say what holds in each case, and `lcd_poweron` shows that no more does.

### Rtos and its modules

Two layers. `RtosTasks`, `RtosQueue` and `RtosHeap` are functions of the kernel's data,
one for each function of the code that other functions call: `k` is a record of
everything in `tasks.c` (the head of the module names each field), `b` the data of
one queue. `RtosCalls`, `RtosQueueCalls`, `RtosControl`, `RtosEventGroup`, `RtosStream` and
`RtosTimers` are the calls of tasks, in steps.

A step is what nothing can come between: one critical section, one part of a call
inside `vTaskSuspendAll`, or `xTaskResumeAll`. `call[t].at` is where task `t` is inside its
call; `call[t]` also holds the locals that live across steps (`left`, `since`,
`inherited`, `size`). So `xQueueReceive` is `TryQueue` (the first critical section),
`SuspendForQueue`, `LockQueue`, `BlockOnQueue` (the look at the time and at the queue, and
the block), `UnlockTx` and `UnlockRx` (the two halves of `prvUnlockQueue`),
`ResumeFromQueue`, then `TryQueue` again or `LateForQueue`. The four blocking
functions of `queue.c` have this one shape and are one set of actions. Between any two
steps `Rtos` may take `xPortSysTickHandler`, `xPortPendSVHandler`, or a call of a
device's handler.

The order of the two halves of PendSV is the hardware's: `pendsv` is set by a yield and
the switch happens when PendSV is served, before anything else of its priority.
While the scheduler is suspended a tick only counts, so it is taken at the last
point before `xTaskResumeAll`, where it makes the same difference as at any other.

What a task does is its script, a sequence of calls repeated for ever, given by the
application (`App`), of which `MCRtos` has nineteen. `main` has created the tasks and
started the scheduler when a behaviour begins. Items, bits and bytes are small
numbers; the bytes of a stream are numbered, as in `BFifoSpsc`. `call[t].age`,
`tm.age`, `s.in` and `s.out` are history variables.

The properties, in `RtosProperties`:

- `ListsAgree`: a task is in one place and there once, whatever moves it; the sleepers are
  in the order of the tick, before and after its wrap (`SleepersInOrder`), and the bitmap
  overlooks no ready task (`Known`).
- `RunsMostUrgent`, `NoHalt`: the bitmap says exactly which ready lists are not empty, the
  most urgent task runs whenever no switch is pending, and no assertion of the kernel
  fails.
- `QueuesNotEarly`, `OnTime`: timeouts and delays end neither early (`NotEarly`) nor late
  (`WakesOnTime`), across the wrap of the tick count and with ticks that came while the
  scheduler was suspended. `QueuesNotEarly` is about the calls for queues, semaphores,
  mutexes and commands, which look at the clock again after each wakeup.
- `SuspendedByCaller`, part of `TypeOK`: only the running task has the scheduler suspended, and
  exactly while it is at one of the places `Inside` of its call; a tick put off meanwhile is
  counted when it resumes.
- `NoLostWakeup`, `NobodyWaitsInVain`: nobody sleeps beside what he waits for, and nobody
  waits for two events, or for one while it is ready.
  While tasks wait on a queue that is not locked, every item in it has a receiver
  on its way.
- `RingImplementsQueue`, `MutexIsLock`, `Inheritance`: queues implement `MessageQueue`;
  mutexes implement `AbstractLock`, the same module that the spinlock of libsk
  implements, and only the holder gives; a holder is as urgent as those who wait
  for it and returns to its own priority.
- `Rendezvous`, `StreamInOrder`, `TimersOnTime`, `HeapPartition`: a meeting of
  `xEventGroupSync` lets nobody past alone; bytes arrive in order, each once; timers
  expire once per period and not before; blocks tile the heap and free neighbours
  are joined.
- `EveryTaskProceeds`: every task that can end ends, every looping one comes round
  again and again.

`AppAssumption` is what the kernel demands of its users, from its own assertions and
headers: only a queue of one item is overwritten; nobody overwrites or resets a mutex
or uses one in an interrupt (`queue.c:1045`, `semphr.h:691`);
what a call names exists, a priority is one there is (`tasks.c:1417`), and `main` creates every
task once. `NewTasks`, part of `TypeOK`, is the one demand on what applications do at run time:
a name stands for one TCB at a time, so a task that is about to be added is in no
list. In the code that is so because `prvInitialiseNewTask` works on memory just
allocated. `TypeOK` also says that the idle task is in its ready list at all times, so that
`vTaskSwitchContext` always finds a task, and with `CountsOK` that a queue holds no more than it has
room for.

`StreamAssumption` is what a stream buffer demands of them: one writer and one reader, each a
task or interrupt handlers (`stream_buffer.h:34`), and lengths are natural numbers. It also
keeps three things out that nothing in the code prevents. A reset looks only for
tasks that are blocked on the buffer (`stream_buffer.c:366`), so it is for a task that alone writes and
reads: in the middle of a call of another task it would take away the bytes that call has
counted, or be undone by the store of a head or tail that call has read before. A task that is deleted between the length of a message and its
data leaves a length without data, so writer and reader of messages are not created again.

A copy into the ring and the store of `xHead` after it are one step, and so are a read and the
store of `xTail`: only the writer moves one and only the reader the other, so that what is copied
before the store is seen by nobody. But the reader of a message moves `xTail` twice, over the
length and over the data, or back over the length where the message is longer than the
reader's room (`stream_buffer.c:824`, `838`), and the writer may come in between: `ReadFromStream`,
`ReadMessageData` and `PutLengthBack` are steps of their own. What is put back is the tail of
before. `RoomForMessages` is the condition under which tasks never do that, and `StreamInOrder`
holds for the applications that meet it; `LongMessageStays` asks for the same without it, and
`rtos_stream` shows it violated. The handlers' calls are one step each: nothing that uses
the buffer interrupts them.

## 3. Runs

| Run | Question | Instance | Holds |
|---|---|---|---|
| `lock_safety` | Do LDREXB and STREXB make a lock, and can spinning go on for nothing? | 2 tasks, 2 handlers that nest, 2 locks, any clients; or polite clients, 1 handler, 1 lock | `MutualExclusion`, `LockWordAgrees`, `Reservation`, `AbstractLockSpec`, `Progress` |
| `bfifo_queue` | Is the ring a bounded queue? | all buffers of 1 to 3 bytes, puts of 1 to 4, gets of 0 to 4 | `FullFlagAgrees`, `QueueSpec`, `AllOrNothing` |
| `spsc_safe` | When is the FIFO safe for two contexts? | buffer of 3; without a lock but one byte unused, and with a lock | `InOrder`, `NoLoss`, `Delivered` |
| `spsc_isr` | Lock-free with put or get in a handler? | buffer of 2, all of it used | violated |
| `tick_delay` | Do delays last what they should? | 8 periods, 3 delays, clear of the counter's end | `PeriodKept`, `DelayLongEnough`, `DelayOnTime`, `DelayEnds` |
| `tick_overflow` | And across the counter's end? | one period, 2 delays | violated |
| `pin_port` | Do calls on one port keep their hands off each other's pins? | 4 pins, 2 contexts, 2 overlapping groups with gaps and an inversion | `LevelsKept`, `SetReadsBack` |
| `lcd_warm` | Does the display do what is asked? | all commands and delay configurations, the display in any mode and phase, restarts anywhere | `InitResynchronises`, `CommandArrives`, `NeverBusy` |
| `lcd_poweron` | And just after power-on? | display in 8-bit mode | `InitSynchronises` violated |
| `rtos` | Does the kernel keep its promises? | 18 applications of 1 to 3 tasks, the idle task and the timer daemon | all of the above list |
| `rtos_timeout` | And when a task gives up on a mutex that is just given? | the 19th application | `NoHalt` violated |
| `rtos_stream` | And when a task has no room for a message? | the application `short` | `LongMessageStays` violated |

`lock_safety`, `bfifo_queue`, `tick_delay`, `pin_port` and `rtos` also check the `TypeOK` of their
module. No run switches the deadlock check off.

Why these bounds are enough to meet the interesting cases:

- **Locks.** Breaking a pair takes one context inside it and one other; a wrong
  CLREX takes a third, on another lock; nesting takes two handlers of different
  priority. `lock_safety` has all of these. Safety is proved for every number of
  contexts and locks.
- **FIFO.** Buffers of 1 (every put fills it), 2 and 3 (partly full at a wrap) start
  with any contents; puts reach one byte past the largest buffer. Reuse of a slot
  on a later lap happens after `buflen` bytes; 6 bytes are two laps of 3. The
  regimes are frozen at the start, so one run covers several.
- **Tick.** `Modulus` = 16, `ReloadModulus` = 6, `Prescale` = 2. The periods are 0;
  odd and even ones that fit; 5 and 10, the last that fit on either side of the
  divider; 7 and 12, the first that do not. Refused periods follow accepted ones.
  Ticks are counted clock by clock, up to two turns of the register.
  Delays of 0 to 4 ticks start at every counter value. `MayWrap` = FALSE keeps a delay
  from starting in the last `Delta + 2` values; `tick_overflow` lifts that.
- **Pins.** The second pin of the first group is inverted and has a gap on both
  sides; the groups overlap in a pin and each contains pins the contexts use one by
  one; dense values have one bit more than the larger group.
- **LCD.** Addresses lie on both sides of both range limits; data bytes have their
  halves equal to, unlike and like a function set; delays come from a
  microsecond function, a millisecond function or both. `Restart` may strike between
  any two edges, inside `sk_lcd_init` too, and again and again; the first `sk_lcd_init` finds the display in
  8-bit mode, in step, or behind a first half 0, 3 or 15, and a restart may hand it any half byte.
- **Kernel.** Each application is small enough to be explored whole and has the case
  it is named for: three tasks on a queue of one slot with an interrupt that sends; a
  queue that fills and is reset; a mutex whose holder sleeps while one waiter times out
  and another does not; a rendezvous twice over; a stream that wraps in the middle of
  a write; messages that come from a handler (`letter`) or a more urgent
  task (`report`) while their reader is between the length and the data, and such that are longer than its
  room (`short`); tasks created and deleted while the heap runs out; timers that expire
  several times before the tick count wraps, with the daemon kept from its work. The
  tick count wraps at `Ticks` = 8 (2^32 in the code; delays last up to 6 ticks), the
  overflow count at `Overflows` = 2. While there is anything to do, `App.interrupts` ticks and
  interrupts may come, 1 to 4, at any points; once only the idle task runs (`Quiet`)
  ticks go on without bound, so all delays and timeouts end and all looping
  applications go on for ever. The daemon's queue has 6 slots (10 in the code) and is
  not filled. The tasks of `blink` have periods of 6 and 3 ticks for 700 and 300 ms, and
  their heap starts as `main` leaves it.

### Fairness

- `lock_safety`, `Progress`. Weak fairness of a context is not enough, since a context is not
  always the running one: `SF` of each context's instructions (the core executes,
  the kernel schedules every task again and again), of `IsrReturn` and `Unlock`, and of
  `StrexOk` as a whole: interrupts come at a finite rate and the pair is a few
  instructions, so not every attempt is broken. The clients are polite:
  handlers never spin and release before they return, a task spins only while it
  holds nothing. Without that the code deadlocks by design (a handler that spins on a
  lock of the task it preempted); that is a hazard in `PROJECT.json`, not a property.
  `Progress` promises no particular competitor its turn: neither does the code.
- `spsc_safe`. `WF` of the producer's and of the consumer's steps: a call once begun
  is carried through, and the consumer keeps asking. `Delivered` is stated for the
  two tasks without a lock; with the lock, delivery depends on the spinlock granting
  turns, which it does not promise.
- `tick_delay`. `WF` of the CPU's steps, of the clock and of the tick: an enabled SysTick keeps
  counting. Other interrupts need not ever come.
- `rtos`. `[]<><<TRUE>>_vars`: the processor does not stop while it can take a step, which
  is `WF_vars(Next)` for a system without deadlock. Nothing is assumed of any one task:
  which task runs is the scheduler's own doing, and interrupts are finitely many
  while there is work. That is why `EveryTaskProceeds` says something about the scheduler.

## 4. Where the code and its comments disagree

Five runs end in a counterexample to what a comment or header says:

| Run | Says | Does |
|---|---|---|
| `spsc_isr` | lock-free for one producer and one consumer, hopefully (`sync.c:113`) | with get in a handler, a get between the comparison at `sync.c:119` and the store of `wridx` leaves a flag that is no longer true: bytes are delivered twice; with put in a handler, a put that fills the FIFO between the stores of `rdidx` and `isfull` in get has its flag cleared: the full FIFO reads as empty |
| `tick_overflow` | "take overflow into account" (`tick.c:79`) | when `next` has wrapped, the loop ends at the wrap, up to `next` ticks early |
| `lcd_poweron` | `sk_lcd_init` sets up the display (`lcd_hd44780.h:153`, `lcd_hd44780.c:221`) | just after power-on the display takes each of the first half bytes as a whole instruction, and the third half byte as the first half of the next command |
| `rtos_stream` | a message too long for the reader is left: "return the buffer to its previous state" (`10_freertos` `stream_buffer.c:835-837`) | the reader has moved `xTail` over the length and puts it back later; a writer in between has used the bytes that seemed free, and the old tail points at what it wrote or into a ring that is overrun |
| `rtos_timeout` | `configASSERT(xInheritanceOccurred == pdFALSE)`: "an adjusted timeout cannot become 0, as if it were 0 the function would have exited" (`10_freertos` `queue.c:1345-1350`) | A waits for C's mutex and C inherits its priority; A's time ends, but C has just given the mutex, so the function does not exit: it loops. A more urgent B takes the mutex first; A finds it empty with 0 ticks left and the assertion stops the system |

What makes the FIFO safe is in `spsc_safe`: a lock around each call, or a producer
that never fills the last byte, since the flag is then never set.

Three more disagree with what is written beside them, and a change of a constant shows it:

- Put is all or nothing (`sync.c:106`), but a put of 0 bytes into an empty FIFO sets `isfull`
  (`sync.c:119`): the FIFO now "holds" `buflen` stale bytes. With `MinPut = 0` in `BFifo_queue.cfg`
  TLC finds `AllOrNothing` violated.
- The period of a tick is given "in clock cycles" (`tick.h:61`), but the reload register is set to it
  (`tick.c:44`) and SysTick counts from there down to 0: a tick lasts period + 1 cycles, or
  period + 8 with the divider. `PeriodKept` says so, and fails for the period itself.
- `sk_lcd_init` also leaves the display out of step when the MCU restarts right behind a first half
  byte 3, of a data byte 0x30 to 0x3F or of `sk_lcd_init` itself: the display takes the next 3 for
  the second half, a function set to 8-bit mode, and the third half byte again for the first half of
  the next command. With `Starts <- Warm` in `Lcd_poweron.cfg` TLC finds `InitSynchronises`
  violated. A second `sk_lcd_init` repairs it.

Met on the way and not shown by a run. In libsk: a delay whose `next` is exactly the
largest `uint32_t` never ends (`tick.c:84`, no counter value exceeds it); the rate
divided by 1000 is truncated, so at less than 1000 Hz every delay is 0 ticks
(`tick.c:76`); a refused period leaves SysTick stopped
(`tick.c:33`); `pin_rw` may be NULL by the header and is dereferenced by every
command (`lcd_hd44780.c:85`); `sk_lcd_putchar` calls `charmap_func` before anything has
checked it (`lcd_hd44780.c:200`).

In the kernel, all outside of what the applications do:

- `vTaskPriorityDisinheritAfterTimeout` clears the ready bit of the new priority
  instead of the old one (`tasks.c:3881`, `3907`); with nested mutexes a bit stays set over an
  empty list and the assertion at `tasks.c:176` fails.
- giving back the last of several mutexes while a task of lower priority waits forgets the
  switch that the drop in priority calls for (`queue.c:809-825`).
- a one-shot timer stays marked active after it has expired in `prvSwitchTimerLists`
  (`timers.c:843`) or at once on its start (`timers.c:748`), unlike `inc/timers.h:412` says.
- the daemon restarts timers through its own queue without waiting and asserts that there is
  room (`timers.c:495`, `756`, `860`).
- `xStreamBufferNextMessageLengthBytes` asserts what does not hold between the length and
  the data of a message being written (`stream_buffer.c:752`), and moves the tail and puts it back like
  a reader without room (`stream_buffer.c:747-750`).
- `xStreamBufferSend` without a timeout never returns for more bytes than the buffer can
  ever hold; `xStreamBufferReset` looks for blocked tasks only (`stream_buffer.c:366`).
- lock counts of queues are `int8_t` (`queue.c:1009`); `xQueueGenericReset` wakes one
  waiting sender only (`queue.c:287`); inheritance is not transitive; a task waiting
  indefinitely for a notification is resumed by `vTaskResume` (`tasks.c:1725`).

## 5. Proofs

`tlapm` checks every theorem to its leaves, from the named assumptions on the
constants and nothing else.

### SkLockProofs

For any tasks, handlers, priorities and locks: `TypeCorrect`, `Exclusion`,
`WordAgreement`, `ReservationHolds`, and `Refinement`: `Spec => AbstractLockSpec`.

Mutual exclusion is not inductive: nothing in it says that a context about to
execute STREXB may. The inductive invariant `IInv` adds

- `Reservation`: while the monitor is exclusive and the running context is at STREXB,
  the byte it loaded from still reads UNLOCKED. Anything that could store in
  between runs after an exception, which opens the monitor.
- `ActiveDistinct`: active handlers differ in priority, so that one context runs
  (`OneRuns`); without it two contexts could both be "the running one" and
  Reservation would not survive the store of the other.
- `LockWordAgrees`: the byte tells whether there is a holder, so that UNLOCKED at
  STREXB means that nobody holds the lock.
- `CallsAreLive`: a context inside a call has a lock, and a handler inside a call is
  active: a handler that has returned leaves no pair half done.

`UseClrex` is a constant of the proofs: `sync.c:32` wonders whether the CLREX could be
omitted, and the theorems hold for both values. It could.

`Refinement` maps the holder by a CHOOSE that mutual exclusion makes unique
(`HolderIs`); StrexOk and Unlock map to Acquire and Release and every other action
leaves the mapping unchanged (`SameHolder`).

### BFifoProofs

- `NumLeftIsFree` is the proof `sync.c:71` asks for ("prove this"): for every
  length, both indexes and the flag, `_sk_bfifo_numleft` is `buflen` minus what
  is between the indexes, and lies in `0..buflen`.
- `IndexesInside` (type invariant: no index ever leaves the buffer) and
  `FlagAgreement` (the flag is set only while the indexes are equal) hold for
  every buffer length and all lengths put and asked for. `TypeOK /\ FullFlagAgrees` is
  inductive as it stands.
- `FifoIsQueue`: the ring implements `BoundedQueue`. A put stores along the ring byte
  by byte, so `Contents` is first shown to be the list of what lies from the read index
  on (`ContentsListed`), then each call to append to it, to take from it or to leave
  it (`PutAppends`, `GetTakes`, `RefusedKeeps`).
- `PutsAllOrNothing`: the slots a put writes are those the count says are free
  (`PutCounts`, `PutSlot`).

The last two assume `MinPut # 0`: the put of no bytes into an empty FIFO sets the full
flag (section 4).

### BFifoSpscProofs

`OrderKept` and `NothingLost`, for every buffer length, number of bytes and interleaving of
the accesses of one producer and one consumer, under `SafeUse`: in every regime a byte is kept
free (`slack >= 1`) or the calls exclude each other. Without either the flag is
written by both sides, and the run `spsc_isr` shows what happens then. The
inductive invariant adds to the two properties

- `Apart`: either the calls exclude each other and one side is idle, or the flag is clear
  and a byte stays free, that of the put under way included;
- `FlagAgrees`: the flag tells whether the ring is full, but where a put has still to
  move the index or a get has still to clear the flag; and the put under way fits. It fitted when the call
  looked, and the other side can only have made room since: this is where
  there must be one producer and one consumer;
- `Numbered`: the slot that is k behind the read index holds the k-th byte sent and not
  freed, those stored ahead of the write index included;
- `Ordered`: what was got is what was freed and the bytes of the get under way;
- `InLoops`: the counters of the two loops stay below the length of their call.

### TickProofs

`AcceptsAsDocumented`: for every width and divider, a period is accepted exactly if
it is below the register's modulus, or a multiple of the divider below divider times
modulus. `TickLasts` (`Spec => []PeriodKept`): every tick of a running SysTick lasts the period given and
one clock of SysTick more, the first tick after `sk_tick_init` included. It needs that a multiple
survives division and multiplication (`QuotientExact`), and as invariants that divider and reload value make up
the period and that the cycles so far are those the counter has gone through, in clocks of
SysTick. `TypeCorrect` is the type invariant.

`LongEnough` and `OnTime`: with `MayWrap` = FALSE a delay returns after more than the
ticks it computed and at most two more, for every width, clock, period and delay.
The inductive invariant `DInv` has, besides the types, `NoWrap` (while a delay goes on
the counter is the value read plus `elapsed`, and stays below its end) and
`MostTicks`: how many ticks may have come at each place of the delay. The second
extra tick is the one that comes between the look at the counter and WFI and does not
wake the core; `MostTicks` needs `fresh` to show that no third one comes.

### PinProofs

`RoundTrip` and `RoundTripBack`: gathering undoes scattering and the reverse, for
every finite group. The rank of a pin in its group increases (`RankIncreases`), is
injective and covers `0..n-1` (`RankRange`, by cardinality). `PortKeepsLevels`,
`PortReadsBack` and `PortTyped` hold for every port, context and group. `LevelsKept`
is not inductive, because a store is computed from a register read earlier:
`ReadsFresh` says that what was read is still there on the pins the call stores.

### LcdProofs

`Synchronises`, `Arrives` and `NotWhileBusy`, for every set of delay configurations, all calls
with all their parameters, every state the display may be in when the MCU comes up, restarts
between any two edges and whatever the lines then read as. The inductive invariant says, for each half byte
that is still to be sent, what the controller must be like:

- `InitReady(j)`, with j half bytes of `sk_lcd_init` to go. The first three are the
  point: after the first the controller has half a byte or none, after the second it is in 8-bit
  mode or has half a byte 2, and only the third brings it to 4-bit mode in either
  case (`ResyncFirst`, `ResyncSecond`, `ResyncThird`).
- `CmdReady(j)`: the first half is kept, the second makes the controller execute what was asked
  for, because it decodes what the driver encodes (`DecodesBack`).
- `Awaited`: the controller is never busy for longer than the delay that comes next. That the delay is
  as long as asked for, also where only milliseconds can be waited, is `DelayedEnough`.
- `Recovering(j)`: the same when `sk_lcd_init` began before a controller that is not receptive: the first
  half byte leads to 8-bit mode or finds the controller there, the second out of it, and no later one is a 3. So the
  next `sk_lcd_init` finds it receptive: the second of two in a row synchronises.
- `Edges`: the lines hold the half byte of the call when E falls, and what a restart hands over while E is
  up is any half byte: `Possible` is all that is known of the controller then.

### RtosProofs: queues and mutexes

`RingRefines`: `Spec => RingImplementsQueue`, for every application that satisfies
`AppAssumption`: any tasks, priorities, scripts, interrupts, lengths and items.
`RingInvariant` is the invariant behind it:

- `RingOK`: the write position is as far ahead of the read position as there are
  items, and every slot holds an item of the queue. The read position points one
  behind the oldest item, which is why an emptied ring has `r` just before `w`.
- `InScript`: every task is inside its script, so that the call under way is one that
  `AppAssumption` speaks of. Without it a step could send something that is no item.

Each kind of access is one lemma on `Contents`: `BackAppends`, `FrontPrepends`,
`OverwriteReplaces`, `TakeTails`, `ResetEmpties`. They need remainders, which the provers do not
do well; `Wraps`, `SlotAhead`, `SlotBehind` and `SlotsUp` say once what the ring does at its ends.
`NextMoves` then takes the actions of the whole kernel one by one: most leave the
ring alone (`AsideMoves`), whatever they do to lists of tasks.

`MutexExcludes`: no step passes a mutex from holder to holder, and `MutexOwned`: besides, only the
holder lets it go, while no assertion has failed. The invariant is `MutexOK`: a mutex
that can be taken has no holder. The hypothesis of `MutexOwned`, `[]KernelRuns`, is needed:
what keeps a task from giving another's mutex is the assertion in
`xTaskPriorityDisinherit`, and the model, like the code up to the end of the critical
section, finishes the step in which it fails. That assertions do not fail is
`NoHalt`, which TLC checks for the applications, and which `rtos_timeout` shows not
to hold for all.

### RtosProofs: time, heap, streams

The arithmetic of the tick count, for every width (`TicksAssumption` asks for more than 2):
`TimeOutExact` says that `xTaskCheckForTimeOut` is right for up to a whole turn of
the tick count since the call began (beyond one it can be wrong, since it takes a
count that is lower than it was for a count within the turn); `DelayUntilExact` that
the two-case comparison of `vTaskDelayUntil` is right whether the tick count, the wake
time, both or none have wrapped; `TimerInRightList` that
timers are put on the right side of the wrap (for sleepers that is part of `TasksInOnePlace`). `Turns` reduces each remainder to a case
split.

The heap, for every heap the applications start with that its blocks partition
(`HeapAssumption`: the heap of each, of `App[p].units` units, satisfies `HeapOK`; the
units of a stack and of a TCB are numbers). The invariant `HeapOK` says what `HeapPartition`
says and besides that the free list is in the order of addresses with a gap between
neighbours (`InOrderApart`): without the order, the search in
`prvInsertBlockIntoFreeList` would not find the neighbours to join with. `BlocksBelowIs` says where
that search stops; `SplicedUnits` that a run of the list which is replaced by one
block over the same units and the new ones leaves the rest as it was; `InsertedUnits`, from
these, that a freed block is joined with whatever touches it, on either side or
both. From there `FreeKeepsHeap` and `MallocKeepsHeap` (split or whole, with or without
room) are about sets of units. `HeapPartitioned` goes through the actions: only creation and
deletion of tasks, the idle task that frees what is left of a deleted one, and
the two calls themselves touch the heap. What these proofs need of induction, the least
index with a property, is `LeastIs`, from the well-foundedness of the numbers.

For every length and position of the ring: `SpaceAndBytes`, `WriteAppends` and
`ReadAdvances` say what the functions on the ring do to the bytes a reader will see,
from `StreamOK` (both positions inside the ring), which they preserve.

`StreamsInOrder` (`Spec => StreamInOrder`, which speaks of the applications with
`RoomForMessages`) is about the calls that use them, one step of the code at a time, in every
application that satisfies the assumptions: the writer and the reader may be tasks or handlers, of
any priority, and be preempted anywhere. Its inductive invariant is `StreamInv`:

- `BufferOK` and `InOrderIn`: what is in the ring is what was written and not yet read, in
  order. For messages (`Framed`) each length is followed by so many consecutive bytes, up to the
  end of the ring's content, where `Partly` says that the length of a message may be there without its
  data: `prvWriteMessageToBuffer` writes them in two steps, and a reader can come in between. The
  reader takes them in two steps as well: between them the length it has read still counts as the first of
  the unread bytes (`Unread`).
- `PlaceOK`: what a call has found out and still counts on. It looks at the buffer in one
  step and moves bytes in a later one; the space it found (`SpaceFor`, `DataFor`) and the bytes
  (`BytesFor`, `RestFor`) are still there because only the other side has moved since, and that can
  only make them more. This is where one writer and one reader are needed, and that no task is ever at
  `putBack`: `RoomForMessages`.

Three lemmas on `Framed` say what a length written (`LengthFramed`), its data written (`DataFramed`) and a
message read (`MessageFramed`) do to the messages in the ring; each is stated for the function from
positions to numbers that marks where messages begin. All other steps are aside (`AsideFor`):
they leave the buffer's bytes and the calls on it as they are, except for a task that is
created anew.

### RtosListProofs

`TasksInOnePlace`: `Spec /\ []NewTasks => []ListsAgree`, for every application that satisfies
`AppAssumption`, with any tasks, priorities, queues, groups, timers and interrupts. The
inductive invariant is `ListsInv`:

- `KernelOK`: `ListsAgree`, with `Asleep` for the order of the sleepers, and `Shape`, the
  fields of the kernel that say where the tasks are and at which priority. The event
  lists and the number of pended ticks are among them, since calls move tasks by what those
  say. `Asleep(z, n)` says that both lists of sleepers are sorted and that those of the
  current one wake n ticks from now at the earliest: 1 between calls, 0 inside the tick, which
  has counted and not yet woken those whose time it is. When the tick count wraps, the
  two lists change places: the current one is empty then, as nobody in it can be due after
  the last tick there is.
- `QueuesOK`, `WaitersOK`, `TimersOK`: queues, stream buffers and timers from which the
  kernel takes a task, a time, or the number of turns of a loop: the holder of a mutex that
  is to inherit, the counts of a lock, the waiters of a stream, the finitely many timers; and
  for the daemon's queue (`MailOK`) that what is in it are commands, since the daemon
  computes with what they carry.
- `Stamps`, `Sampled`: what a call has noted of the tick count is a tick count, and
  the daemon finds the timer list as it was when it looked. Wake times are computed
  from these.
- `InScript` and `Fits`: each task is at a point that belongs to the call its script
  names, so that what the call names is what `AppAssumption` allows there.

- `SuspendedByCaller`: whether the scheduler is suspended can be read off the place of the
  running task. `SchedulerNesting` states it. For it each step of a task is shown to do one of three
  things (`Passes`): it works on the kernel (`Works`), suspends the scheduler (`Suspends`) or
  resumes it (`Resumes`), and to move no task but its own (`Alone`).

`TypesOK`: `Spec /\ []NewTasks => []TypeOK`. Three more invariants go along with `ListsInv` and `CountsInv`:

- `RootInv`: the idle task is in the ready list of priority 0. It runs when nothing else does, makes no call that
  waits (`IdleHome`: it is only ever at the places of its own loop), and no call of another task
  suspends, deletes or delays it or gives it another priority.
- `InRing`: head and tail of the stream buffer are in the ring, in every application: also where a reader without
  room puts back a tail, which is the tail it found when it began. It needs no room for messages:
  what one call writes or reads is less than the ring is long.
- interrupts come no more often than the application lets them.

There is one lemma for each function of `tasks.c` that moves a task, up to
`xTaskIncrementTick`, `xTaskResumeAll` and mutex inheritance (`RemoveStateOK`,
`SleepUntilOK`, `RequeueOK`, ...), then one for each step of a call, and the loops
in them by `LoopRuns`. Two functions leave the invariant for a moment: the
priority of a task has changed and its list has not, for which `Placed` is the invariant
with that task left out; and a task that is removed from one list and not yet in the
next, which is `Nowhere`. The place where the proof would fail without care is the
change of a priority: `vTaskPrioritySet`, inheritance and disinheritance look for the
task in the list of the priority it had, which is where `OnePlace` says it
must be.

`LoopRuns` is the induction. The loops of the kernel are folds, and the induction theorems of
the library take an operator as a parameter, which the provers cannot instantiate. So
the eight bodies are one operator, `Body(loop, z, x)`, with the name of the loop for a parameter, and
`Outcome(loop, z, l, n, y)` says that y is what comes of n rounds over l that begin with z: there
is a function whose every value comes from the one before by the body. `LoopRuns`
shows from the definition of the folds in the community modules that each loop's result is its
outcome, and along such a function an invariant climbs from 0 to n (`Climb`, from the
well-foundedness of the numbers).

`QueueTimeouts`: `Spec /\ []NewTasks => QueuesNotEarly`. What it needs besides `ListsInv` is
`AllPatient`: a call that was to wait for ever still has all of its time left; any other
that has not yet waited for as long as it was given has some left, it is at no place where a call
gives up, and since it noted the time (`since`) the tick count has gone on by no more than the
call has aged and not yet accounted for (`Within`). The last part is what makes the comparison in
`xTaskCheckForTimeOut` right (`CheckOK`): less than a turn has gone by, so a tick count that is
not lower than it was means that there was no wrap. Time goes by in two places, the tick
(`TickLater`) and `xTaskResumeAll`, which makes up for the ticks put off (`Later`, `PatienceLater`);
every other step of the kernel leaves the clock alone, which is why `KernelOK(y, z)` says so
(`SameTime`).

`QueueCountsOK`: `Spec /\ []NewTasks => []CountsOK`. The inductive invariant is `CountsInv`:
each queue is still of the length and kind its application gave it and is `Counted`, which is
the conjunct of `CountsOK` for it. `Remains(b, c, i)` says that of what one function of
`queue.c` makes of a queue, and `QueueCounts`, `TimerCounts` and `InterruptCounts` say it of steps. The items of a
receiver are there in the step that takes them because `queue.c` looks and takes in one critical
section; a mutex goes from one holder to none and back only with its count.

## 6. What is not shown

Only model-checked: all liveness (`Progress`, `Delivered`, `DelayEnds`,
`EveryTaskProceeds`), which needs fairness and ENABLED and is out of the prover's
reach; and of the kernel `NoHalt`, `RunsMostUrgent`, `OnTime`, `NoLostWakeup`,
`NobodyWaitsInVain`, `Inheritance`, `Rendezvous` and `TimersOnTime`, on the instances of
section 3. `NoHalt`, `Inheritance` and `RunsMostUrgent` do not hold for every application
(section 4 lists the calls that break them), so they need a demand on applications
beyond `AppAssumption`. `NewTasks` is a hypothesis of the theorems of `RtosListProofs`, and `[]KernelRuns`
(no assertion has failed) of `MutexOwned`; TLC checks both for the applications.
`OnTime` is proved for the arithmetic it rests on (`TimeOutExact`, `DelayUntilExact`) and
model-checked for the calls that use it: unlike a call for a queue, a wait for bits or for a
notification that is suspended and resumed by `vTaskSuspend` and `vTaskResume` does not look at the
clock again and ends early.

Not modelled in libsk:

- memory barriers: on one core with one bus master the steps are in program order;
- `glsk_pins_init`, the board tables and `sk_pin_read`: fixed lists of register
  writes, one load;
- `sk_lcd_charmap_*`: tables; `sk_lcd_set_backlight`: one write to a pin. If that pin is
  on the port of the data lines and a handler writes it during a command, as the LCD
  demo can do, the read-modify-write of `sk_pin_group_set` undoes it: the case that
  `Pin` excludes by the rule of `pin.h:165`;
- a missing `pin_rw`, and a `charmap_func` called before `sk_lcd_init`: what the
  code then does depends on what is at address 0;
- the NVIC priority of SysTick: no property depends on it.

Not modelled in the kernel:

- what the configuration leaves out: co-routines (`croutine.c`), queue sets, static
  allocation, the MPU, tickless idle, run-time statistics, hooks, trace, stack checks,
  thread-local storage, `xTaskAbortDelay`, the application tag;
- queries that change nothing (`uxQueueMessagesWaiting`, `eTaskGetState`, `xTimerIsTimerActive` and the
  like) and `vTaskList`; `xStreamBufferNextMessageLengthBytes`, which moves the tail and puts it back;
- the registry of queues, which is for debuggers, and pended function calls;
- the registers and stacks that a switch saves (assembly in `port.c`): a task is
  its place in its call; how the first task is started; NVIC set-up;
- nested mutexes, and the other uses listed at the end of section 4, which break the
  properties.

The demos 00 to 02, 06, 07 and 08 are straight-line: register writes, busy waits and
one transfer after the other over blocking library calls. Demo 03's one-shot delay and
demo 05's ADC loop do wait in WFI for a handler that may have run before, like
`tick.c`, and 05 waits for a start flag that may be over before it is looked at; whether
that happens depends on clock cycles and sampling times that the source does not
give. `printf` is formatting.

The map covers less of the repository than its line count suggests it could: two
thirds of the lines are the interface headers of FreeRTOS (mostly comments and
macros), the vendored `printf`, the parts of the kernel that the configuration compiles
out, and the copies of libsk in the demos, whose code is mapped once, in `src/src`.

## 7. What is left

The plan was locks, FIFO, tick, pins, LCD, then the kernel, each with its abstract
specification and its proofs; it is done. A team that goes on would find most to gain in
these:

1. an application with nested mutexes, once `tasks.c:3907` and `queue.c:809` are
   corrected: `NoHalt`, `RunsMostUrgent` and `Inheritance` are stated so that they
   could hold there (`Inheritance` for holders of one);
2. more from `ListsInv`: that a task waits for one event (`EventsAgree`), by the same walk
   through the functions; and that the bitmap has no priority too many (the first part of
   `RunsMostUrgent`), for applications that keep clear of `tasks.c:3907`;
3. `NewTasks` from a demand on the scripts: between two creations of a task there is its
   deletion and the idle task's turn.

The proofs of `RtosProofs` take about 12 minutes from nothing and those of
`RtosListProofs` as long; the others take seconds to a few minutes each.
