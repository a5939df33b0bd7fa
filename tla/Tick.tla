-------------------------------- MODULE Tick --------------------------------
(***************************************************************************)
(* src/src/tick.c: the SysTick set up by sk_tick_init and counting down, the *)
(* tick counter its handler increments, and sk_tick_delay_ms sleeping        *)
(* between its looks at the counter.  Widths and frequencies are constants:  *)
(* 2^32, 2^24, 8 and 1000 in the code.                                       *)
(***************************************************************************)
EXTENDS Integers

CONSTANTS
    Modulus,        \* values of uint32_t
    ReloadModulus,  \* values of the SysTick reload register
    Prescale,       \* the AHB divider of SysTick
    Thousand,       \* milliseconds in a second
    Frequency,      \* rcc_ahb_frequency
    Periods,        \* the periods given to sk_tick_init
    Delays,         \* the delays given to sk_tick_delay_ms
    MayWrap         \* delays may come near the end of the counter

ASSUME WidthAssumption ==
    /\ Modulus \in Nat \ {0} /\ ReloadModulus \in Nat \ {0}
    /\ Prescale \in Nat \ {0} /\ Thousand \in Nat \ {0} /\ Frequency \in Nat
ASSUME InputAssumption == Periods \subseteq 0..(Modulus - 1) /\ Delays \subseteq 0..(Modulus - 1)
ASSUME MayWrapAssumption == MayWrap \in BOOLEAN

VARIABLES
    on, div8, reload,    \* SysTick: enabled, clocked by AHB/8, STK_RVR
    period,              \* the period the last successful sk_tick_init was given
    count,               \* STK_CVR
    cycles, lasted,      \* clock cycles of this tick so far, of the last whole one
    nticks,              \* __sk_nticks
    pc,                  \* where the delay is ("idle": none)
    ms, cur, next,       \* its argument and its two locals
    elapsed,             \* the ticks since it read the counter
    fresh                \* the CPU has run since the last tick

systick == <<on, div8, reload, period>>
counter == <<count, cycles, lasted>>
local   == <<ms, cur, next>>
vars    == <<systick, counter, nticks, pc, local, elapsed, fresh>>

-----------------------------------------------------------------------------
(* sk_tick_init *)

Divided(p) == p % Prescale = 0
Reload(p)  == IF Divided(p) THEN p \div Prescale ELSE p
Fits_Wide(p) == Reload(p) <= ReloadModulus
Fits(p)    == Reload(p) < ReloadModulus

Refused(p) ==
    \/ p = 0 /\ UNCHANGED <<systick, nticks>>
    \/ p # 0 /\ ~Fits(p) /\ on' = FALSE /\ UNCHANGED <<div8, reload, period, nticks>>

Accepted(p) ==
    /\ p # 0 /\ Fits(p)
    /\ on' = TRUE /\ div8' = Divided(p) /\ reload' = Reload(p) /\ period' = p
    /\ nticks' = 0

\* The current value is not written: the tick cut short goes on.
TickInit_NotCleared(p) ==
    /\ pc = "idle"
    /\ \/ Refused(p) /\ UNCHANGED counter
       \/ Accepted(p) /\ count' = count /\ cycles' = 0 /\ lasted' = 0
    /\ fresh' = TRUE
    /\ UNCHANGED <<pc, local, elapsed>>

\* A refused period has already stopped the counter; zero is refused before.
\* Writing STK_CVR clears it, whatever is written.
TickInit(p) ==
    /\ pc = "idle"
    /\ \/ Refused(p) /\ UNCHANGED counter
       \/ Accepted(p) /\ count' = 0 /\ cycles' = 0 /\ lasted' = 0
    /\ fresh' = TRUE
    /\ UNCHANGED <<pc, local, elapsed>>

-----------------------------------------------------------------------------
(* sk_get_tick_rate_hz; the core divides by zero to zero. *)

Quotient(a, b) == IF b = 0 THEN 0 ELSE a \div b

RateHz == IF div8 THEN Quotient(Frequency, reload) \div Prescale
                  ELSE Quotient(Frequency, reload)

\* uint32_t delta
Delta(t) == ((RateHz \div Thousand) * t) % Modulus

-----------------------------------------------------------------------------
(* sk_tick_delay_ms *)

DelayRead(t) ==
    /\ pc = "idle"
    /\ on
    /\ MayWrap \/ nticks + Delta(t) + 2 < Modulus
    /\ ms' = t /\ cur' = nticks /\ elapsed' = 0
    /\ pc' = "compute"
    /\ fresh' = TRUE
    /\ UNCHANGED <<systick, counter, nticks, next>>

\* The counter is read again instead of cur.
DelayCompute_FromNow ==
    /\ pc = "compute"
    /\ next' = (nticks + Delta(ms)) % Modulus
    /\ pc' = "check"
    /\ fresh' = TRUE
    /\ UNCHANGED <<systick, counter, nticks, ms, cur, elapsed>>

DelayCompute ==
    /\ pc = "compute"
    /\ next' = (cur + Delta(ms)) % Modulus
    /\ pc' = "check"
    /\ fresh' = TRUE
    /\ UNCHANGED <<systick, counter, nticks, ms, cur, elapsed>>

Waiting_Equality == nticks # next
Waiting_TooShort == IF next < cur THEN nticks > next ELSE nticks < next

\* The condition of the loop that is taken.
Waiting == IF next < cur THEN nticks > next ELSE nticks <= next

DelayCheck ==
    /\ pc = "check"
    /\ pc' = IF Waiting THEN "wfi" ELSE "idle"
    /\ fresh' = TRUE
    /\ UNCHANGED <<systick, counter, nticks, local, elapsed>>

\* __WFI with nothing pending: an interrupt that came after the look at the
\* counter has been served, and does not wake the core again.
DelaySleep ==
    /\ pc = "wfi"
    /\ pc' = "asleep"
    /\ fresh' = TRUE
    /\ UNCHANGED <<systick, counter, nticks, local, elapsed>>

-----------------------------------------------------------------------------
(* SysTick and the interrupts. *)

\* Cycles of the AHB clock in one of SysTick.
Divider == IF div8 THEN Prescale ELSE 1

\* SysTick counts down, and from zero begins again with the reload value.
Clock ==
    /\ on /\ count # 1
    /\ count' = IF count = 0 THEN reload ELSE count - 1
    /\ cycles' = cycles + Divider
    /\ UNCHANGED <<systick, lasted, nticks, pc, local, elapsed, fresh>>

Woken == IF pc = "asleep" THEN "check" ELSE pc

\* The counter reaches zero: sys_tick_handler.  A tick lasts far longer than a turn of the loop: the CPU
\* runs in between.  elapsed stops counting beyond one lap of the counter.
TickIrq ==
    /\ on /\ count = 1
    /\ fresh \/ pc \in {"idle", "asleep"}
    /\ count' = 0 /\ lasted' = cycles + Divider /\ cycles' = 0
    /\ nticks' = (nticks + 1) % Modulus
    /\ elapsed' = IF pc # "idle" /\ elapsed < 2 * Modulus THEN elapsed + 1 ELSE elapsed
    /\ pc' = Woken
    /\ fresh' = FALSE
    /\ UNCHANGED <<systick, local>>

\* Any other interrupt ends the sleep too.
OtherIrq ==
    /\ pc = "asleep"
    /\ pc' = "check"
    /\ UNCHANGED <<systick, counter, nticks, local, elapsed, fresh>>

-----------------------------------------------------------------------------

Init ==
    /\ on = FALSE /\ div8 = FALSE /\ reload = 0 /\ period = 0
    /\ count = 0 /\ cycles = 0 /\ lasted = 0
    /\ nticks = 0
    /\ pc = "idle" /\ ms = 0 /\ cur = 0 /\ next = 0
    /\ elapsed = 0 /\ fresh = TRUE

Cpu == DelayCompute \/ DelayCheck \/ DelaySleep

Next ==
    \/ \E p \in Periods : TickInit(p)
    \/ \E t \in Delays : DelayRead(t)
    \/ Cpu
    \/ Clock \/ TickIrq \/ OtherIrq

Spec == Init /\ [][Next]_vars

\* The core executes what it has begun, and an enabled SysTick goes on counting.
FairSpec == Spec /\ WF_vars(Cpu) /\ WF_vars(Clock) /\ WF_vars(TickIrq)

-----------------------------------------------------------------------------
(* Properties. *)

\* The values the variables range over.
TypeOK ==
    /\ on \in BOOLEAN /\ div8 \in BOOLEAN /\ fresh \in BOOLEAN
    /\ reload \in 0..(ReloadModulus - 1)
    /\ period \in Periods \cup {0}
    /\ count \in 0..(ReloadModulus - 1) /\ cycles \in Nat /\ lasted \in Nat
    /\ nticks \in 0..(Modulus - 1)
    /\ pc \in {"idle", "compute", "check", "wfi", "asleep"}
    /\ ms \in Delays \cup {0}
    /\ cur \in 0..(Modulus - 1) /\ next \in 0..(Modulus - 1)
    /\ elapsed \in 0..(2 * Modulus)

Returns == pc = "check" /\ pc' = "idle"

\* The documented sleep "until the desired tick value is reached" (tick.h:84):
\* a delay never returns before its ticks have passed, one more being needed
\* because the first may be nearly over when the counter is read.
DelayLongEnough == [][Returns => elapsed > Delta(ms)]_vars

\* And it does not oversleep: the tick that comes between the look at the
\* counter and WFI costs one tick more, never two.
DelayOnTime == [][Returns => elapsed <= Delta(ms) + 2]_vars

\* A delay comes to an end, whatever interrupts fall between its steps.
DelayEnds == (pc # "idle") ~> (pc = "idle")

\* Every tick, the first one after sk_tick_init included, lasts one clock of
\* SysTick longer than the period asked for (which tick.h:61 gives in clock
\* cycles) and no other length: neither the divider, the width of the register,
\* a refused period nor a tick cut short by the next sk_tick_init changes it.
PeriodKept == lasted # 0 => lasted = period + Divider

=============================================================================
