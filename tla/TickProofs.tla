----------------------------- MODULE TickProofs -----------------------------
(* sk_tick_init and sk_tick_delay_ms for every width of the counter and of  *)
(* the reload register, every divider, clock, period and delay.             *)
EXTENDS Tick, TLAPS

\* A period without remainder is put together again from its quotient.
LEMMA QuotientExact ==
    ASSUME NEW p \in Nat, NEW d \in Nat \ {0}, p % d = 0
    PROVE  (p \div d) \in Nat /\ (p \div d) * d = p
OBVIOUS

\* Dividing by d and comparing with n is comparing with d times n.
LEMMA QuotientBound ==
    ASSUME NEW p \in Nat, NEW d \in Nat \ {0}, NEW n \in Nat, p % d = 0
    PROVE  p \div d < n <=> p < d * n
<1> DEFINE q == p \div d
<1>1. q \in Nat /\ q * d = p
  BY QuotientExact
<1> HIDE DEF q
<1>2. CASE q < n
  <2>1. q + 1 <= n
    BY <1>1, <1>2
  <2>2. d * (q + 1) <= d * n
    BY <1>1, <2>1
  <2> QED
    BY <1>1, <1>2, <2>2
<1>3. CASE ~(q < n)
  <2>1. d * n <= d * q
    BY <1>1, <1>3
  <2> QED
    BY <1>1, <1>3, <2>1
<1> QED
  BY <1>2, <1>3 DEF q

\* tick.h:67: "Either any 24 bit, or 27 bit with lower 3 bits set to 0" is what
\* sk_tick_init accepts, no more and no less.
THEOREM AcceptsAsDocumented ==
    ASSUME NEW p \in Nat
    PROVE  Fits(p) <=> \/ p < ReloadModulus
                       \/ p % Prescale = 0 /\ p < Prescale * ReloadModulus
<1> ReloadModulus \in Nat /\ Prescale \in Nat \ {0}
  BY WidthAssumption
<1>1. CASE p % Prescale = 0
  <2>1. Fits(p) <=> p < Prescale * ReloadModulus
    BY <1>1, QuotientBound DEF Fits, Reload, Divided
  <2>2. ReloadModulus <= Prescale * ReloadModulus
    OBVIOUS
  <2> QED
    BY <1>1, <2>1, <2>2
<1>2. CASE p % Prescale # 0
  BY <1>2 DEF Fits, Reload, Divided
<1> QED
  BY <1>1, <1>2


-----------------------------------------------------------------------------

\* Only sk_tick_init touches the SysTick registers.
LEMMA OthersKeepSystick ==
    ASSUME [Next]_vars, ~(\E p \in Periods : TickInit(p))
    PROVE  UNCHANGED systick
BY DEF Next, Cpu, DelayRead, DelayCompute, DelayCheck, DelaySleep, Clock, TickIrq, OtherIrq, vars

\* The counter moves on by itself only.
LEMMA OthersKeepCounter ==
    ASSUME [Next]_vars, ~(\E p \in Periods : TickInit(p)), ~Clock, ~TickIrq
    PROVE  UNCHANGED counter
BY DEF Next, Cpu, DelayRead, DelayCompute, DelayCheck, DelaySleep, OtherIrq, vars

-----------------------------------------------------------------------------
(* How long a tick lasts. *)

\* A running SysTick has a divider and a reload value that make up exactly the
\* period asked for, and has spent one clock on the reload and one on each
\* step down from there.
Spent == IF count = 0 THEN 0 ELSE (reload - count + 1) * Divider

CounterOK ==
    /\ on \in BOOLEAN /\ div8 \in BOOLEAN
    /\ reload \in Nat /\ period \in Nat /\ count \in 0..reload
    /\ cycles \in Nat /\ lasted \in Nat
    /\ on => reload * Divider = period /\ reload # 0 /\ cycles = Spent
    /\ PeriodKept

\* What sk_tick_init writes makes up the period.
LEMMA AcceptedOK ==
    ASSUME NEW p \in Periods, Accepted(p)
    PROVE  /\ reload' \in Nat \ {0} /\ period' \in Nat /\ div8' \in BOOLEAN
           /\ reload' * Divider' = period'
<1>1. p \in Nat \ {0} /\ Prescale \in Nat \ {0}
  BY InputAssumption, WidthAssumption DEF Accepted
<1>2. CASE Divided(p)
  <2> DEFINE d == p \div Prescale
  <2>1. d \in Nat /\ d * Prescale = p
    BY <1>1, <1>2, QuotientExact DEF Divided
  <2>2. reload' = d /\ period' = p /\ div8' = TRUE
    BY <1>2 DEF Accepted, Reload, Divided
  <2> HIDE DEF d
  <2>3. d # 0
    BY <1>1, <2>1
  <2> QED
    BY <1>1, <2>1, <2>2, <2>3 DEF Divider
<1>3. CASE ~Divided(p)
  <2>1. reload' = p /\ period' = p /\ div8' = FALSE
    BY <1>3 DEF Accepted, Reload, Divided
  <2>2. Divider' = 1 /\ p * 1 = p
    BY <1>1, <2>1 DEF Divider
  <2> QED
    BY <1>1, <2>1, <2>2
<1> QED
  BY <1>2, <1>3

LEMMA CounterStep == CounterOK /\ [Next]_vars => CounterOK'
<1> SUFFICES ASSUME CounterOK, [Next]_vars
             PROVE  CounterOK'
  OBVIOUS
<1>1. Prescale \in Nat \ {0}
  BY WidthAssumption
<1>2. Divider \in Nat \ {0}
  BY <1>1 DEF Divider
<1>3. ASSUME NEW p \in Periods, TickInit(p)
      PROVE  CounterOK'
  <2>1. CASE UNCHANGED <<systick, counter>>
    BY <2>1 DEF CounterOK, PeriodKept, Spent, Divider, systick, counter
  <2>2. CASE on' = FALSE /\ UNCHANGED <<div8, reload, period, counter>>
    BY <2>2 DEF CounterOK, PeriodKept, Spent, Divider, counter
  <2>3. CASE Accepted(p) /\ count' = 0 /\ cycles' = 0 /\ lasted' = 0
    <3>1. on' = TRUE
      BY <2>3 DEF Accepted
    <3>2. Spent' = 0
      BY <2>3 DEF Spent
    <3> QED
      BY <2>3, <3>1, <3>2, AcceptedOK DEF CounterOK, PeriodKept
  <2> QED
    BY <1>3, <2>1, <2>2, <2>3 DEF TickInit, Refused
<1>4. CASE Clock
  <2> DEFINE n == reload - count + 1
  <2>1. UNCHANGED <<on, div8, reload, period, lasted>> /\ Divider' = Divider
    BY <1>4 DEF Clock, systick, Divider
  <2>2. CASE count = 0
    <3>1. count' = reload /\ cycles' = Divider /\ reload # 0
      BY <1>2, <1>4, <2>2 DEF Clock, CounterOK, Spent
    <3>2. (reload - reload + 1) * Divider = Divider
      BY <1>2 DEF CounterOK
    <3>3. Spent' = Divider
      BY <2>1, <3>1, <3>2 DEF Spent
    <3> QED
      BY <1>2, <2>1, <3>1, <3>3 DEF CounterOK, PeriodKept
  <2>3. CASE count # 0
    <3>1. count' = count - 1 /\ count' # 0 /\ cycles' = n * Divider + Divider
      BY <1>4, <2>3 DEF Clock, CounterOK, Spent
    <3>2. n \in Nat /\ reload - count' + 1 = n + 1
      BY <3>1, <2>3 DEF CounterOK
    <3> HIDE DEF n
    <3>3. n * Divider + Divider = (n + 1) * Divider
      BY <1>2, <3>2
    <3>4. Spent' = cycles'
      BY <2>1, <3>1, <3>2, <3>3 DEF Spent
    <3>5. cycles' \in Nat
      BY <1>2, <3>1, <3>2
    <3>6. count' \in 0..reload
      BY <2>3, <3>1 DEF CounterOK
    <3> QED
      BY <2>1, <3>4, <3>5, <3>6 DEF CounterOK, PeriodKept
  <2> QED
    BY <2>2, <2>3
<1>5. CASE TickIrq
  <2>1. /\ UNCHANGED <<on, div8, reload, period>> /\ Divider' = Divider
        /\ count' = 0 /\ cycles' = 0 /\ lasted' = cycles + Divider
    BY <1>5 DEF TickIrq, systick, Divider
  <2>2. cycles = reload * Divider
    BY <1>5 DEF TickIrq, CounterOK, Spent
  <2>3. lasted' = period + Divider /\ Spent' = 0
    BY <1>5, <2>1, <2>2 DEF TickIrq, CounterOK, Spent
  <2> QED
    BY <1>2, <2>1, <2>3 DEF CounterOK, PeriodKept
<1>6. CASE ~(\E p \in Periods : TickInit(p)) /\ ~Clock /\ ~TickIrq
  <2>1. UNCHANGED <<systick, counter>>
    BY <1>6, OthersKeepSystick, OthersKeepCounter
  <2> QED
    BY <2>1 DEF CounterOK, PeriodKept, Spent, Divider, systick, counter
<1> QED
  BY <1>3, <1>4, <1>5, <1>6

LEMMA InitCounter == Init => CounterOK
<1> SUFFICES ASSUME Init
             PROVE  CounterOK
  OBVIOUS
<1>1. on = FALSE /\ div8 = FALSE /\ reload = 0 /\ period = 0 /\ count = 0 /\ cycles = 0 /\ lasted = 0
  BY DEF Init
<1>2. PeriodKept /\ count \in 0..reload
  BY <1>1 DEF PeriodKept
<1>3. ~on /\ on \in BOOLEAN /\ div8 \in BOOLEAN
  BY <1>1
<1>4. reload \in Nat /\ period \in Nat /\ cycles \in Nat /\ lasted \in Nat
  BY <1>1
<1> QED
  BY <1>2, <1>3, <1>4, Zenon DEF CounterOK

\* Every tick lasts one clock of SysTick more than the period asked for, for
\* every width of the register, every divider and every period accepted.
THEOREM TickLasts == Spec => []PeriodKept
<1>1. CounterOK => PeriodKept
  BY DEF CounterOK
<1> QED
  BY InitCounter, <1>1, CounterStep, PTL DEF Spec


-----------------------------------------------------------------------------
(* How long a delay lasts. *)

\* A tick count is a number of its width.
LEMMA DeltaRange ==
    ASSUME NEW t \in Nat, reload \in Nat
    PROVE  Delta(t) \in 0..(Modulus - 1)
<1>1. Modulus \in Nat \ {0} /\ Prescale \in Nat \ {0} /\ Thousand \in Nat \ {0} /\ Frequency \in Nat
  BY WidthAssumption
<1>2. Quotient(Frequency, reload) \in Nat
  BY <1>1 DEF Quotient
<1>3. RateHz \in Nat
  BY <1>1, <1>2 DEF RateHz
<1>4. RateHz \div Thousand \in Nat
  BY <1>1, <1>3
<1>5. (RateHz \div Thousand) * t \in Nat
  BY <1>4
<1> QED
  BY <1>1, <1>5 DEF Delta

\* The registers and the counter hold numbers of their width.
Widths ==
    /\ reload \in Nat
    /\ nticks \in 0..(Modulus - 1) /\ cur \in 0..(Modulus - 1) /\ next \in 0..(Modulus - 1)
    /\ ms \in Nat /\ elapsed \in Nat
    /\ fresh \in BOOLEAN
    /\ pc \in {"idle", "compute", "check", "wfi", "asleep"}

\* The ticks that may have come when a delay is at each of its places: one
\* since the CPU last ran, and one between the look at the counter and WFI.
MostTicks ==
    /\ pc = "compute" => elapsed <= IF fresh THEN 0 ELSE 1
    /\ pc = "check"   => elapsed <= Delta(ms) + IF fresh THEN 1 ELSE 2
    /\ pc = "wfi"     => elapsed <= Delta(ms) + IF fresh THEN 0 ELSE 1
    /\ pc = "asleep"  => elapsed <= Delta(ms) + 1 /\ fresh

\* While a delay goes on the counter stays below its end.
NoWrap ==
    pc # "idle" =>
        /\ cur + Delta(ms) + 2 < Modulus
        /\ nticks = cur + elapsed
        /\ pc # "compute" => next = cur + Delta(ms)

DInv == Widths /\ MostTicks /\ NoWrap

LEMMA WidthsStep == Widths /\ [Next]_vars => Widths'
<1> SUFFICES ASSUME Widths, [Next]_vars
             PROVE  Widths'
  OBVIOUS
<1> USE DEF Widths
<1>1. Modulus \in Nat \ {0} /\ Prescale \in Nat \ {0}
  BY WidthAssumption
<1>2. ASSUME NEW p \in Periods, TickInit(p)
      PROVE  Widths'
  <2>1. p \in Nat
    BY InputAssumption, <1>1
  <2>2. Reload(p) \in Nat
    BY <2>1, <1>1 DEF Reload
  <2>3. reload' \in Nat /\ nticks' \in 0..(Modulus - 1) /\ fresh' = TRUE
    BY <1>1, <1>2, <2>2 DEF TickInit, Refused, Accepted, systick
  <2> QED
    BY <1>2, <2>3 DEF TickInit, local
<1>3. ASSUME NEW t \in Delays, DelayRead(t)
      PROVE  Widths'
  <2>1. t \in Nat
    BY InputAssumption, <1>1
  <2> QED
    BY <1>3, <2>1 DEF DelayRead, systick
<1>4. CASE DelayCompute
  <2>1. Delta(ms) \in Nat
    BY DeltaRange, <1>1
  <2>2. (cur + Delta(ms)) % Modulus \in 0..(Modulus - 1)
    BY <1>1, <2>1
  <2> QED
    BY <1>4, <2>2 DEF DelayCompute, systick
<1>5. CASE DelayCheck
  BY <1>5 DEF DelayCheck, systick, local
<1>6. CASE DelaySleep
  BY <1>6 DEF DelaySleep, systick, local
<1>7. CASE TickIrq
  <2>1. (nticks + 1) % Modulus \in 0..(Modulus - 1)
    BY <1>1
  <2>2. elapsed' \in Nat
    BY <1>7 DEF TickIrq
  <2> QED
    BY <1>7, <2>1, <2>2 DEF TickIrq, Woken, systick, local
<1>8. CASE OtherIrq
  BY <1>8 DEF OtherIrq, systick, local
<1>10. CASE Clock
  BY <1>10 DEF Clock, systick, local
<1>9. CASE UNCHANGED vars
  BY <1>9 DEF vars, systick, local
<1> QED
  BY <1>2, <1>3, <1>4, <1>5, <1>6, <1>7, <1>8, <1>9, <1>10 DEF Next, Cpu

LEMMA TypeStep == TypeOK /\ CounterOK /\ [Next]_vars => TypeOK'
<1> SUFFICES ASSUME TypeOK, CounterOK, [Next]_vars
             PROVE  TypeOK'
  OBVIOUS
<1>1. Widths'
  <2>1. Widths
    BY InputAssumption, WidthAssumption DEF TypeOK, Widths
  <2> QED
    BY <2>1, WidthsStep
<1>2. /\ on' \in BOOLEAN /\ div8' \in BOOLEAN
      /\ reload' \in 0..(ReloadModulus - 1) /\ period' \in Periods \cup {0}
  <2>1. CASE UNCHANGED systick
    BY <2>1 DEF TypeOK, systick
  <2>2. ASSUME NEW p \in Periods, TickInit(p), ~UNCHANGED systick
        PROVE  /\ on' \in BOOLEAN /\ div8' \in BOOLEAN
               /\ reload' \in 0..(ReloadModulus - 1) /\ period' \in Periods \cup {0}
    <3>1. p \in Nat /\ Prescale \in Nat \ {0} /\ ReloadModulus \in Nat
      BY InputAssumption, WidthAssumption
    <3>2. Reload(p) \in Nat
      BY <3>1 DEF Reload
    <3>3. Fits(p) => Reload(p) \in 0..(ReloadModulus - 1)
      BY <3>1, <3>2 DEF Fits
    <3>4. Divided(p) \in BOOLEAN
      BY DEF Divided
    <3>5. CASE on' = FALSE /\ UNCHANGED <<div8, reload, period>>
      BY <3>5 DEF TypeOK
    <3>6. CASE Fits(p) /\ on' = TRUE /\ div8' = Divided(p) /\ reload' = Reload(p) /\ period' = p
      BY <3>3, <3>4, <3>6
    <3> QED
      BY <2>2, <3>5, <3>6 DEF TickInit, Refused, Accepted
  <2>3. CASE ~(\E p \in Periods : TickInit(p))
    BY <2>1, <2>3, OthersKeepSystick
  <2> QED
    BY <2>1, <2>2, <2>3
<1>3. ms' \in Delays \cup {0} /\ elapsed' \in 0..(2 * Modulus)
  <2>1. Modulus \in Nat
    BY WidthAssumption
  <2> QED
    BY <2>1 DEF TypeOK, Next, Cpu, TickInit, Clock, DelayRead, DelayCompute, DelayCheck,
           DelaySleep, TickIrq, OtherIrq, local, vars
<1>4. count' \in 0..(ReloadModulus - 1) /\ cycles' \in Nat /\ lasted' \in Nat
  <2>1. CounterOK'
    BY CounterStep
  <2> QED
    BY <1>2, <2>1, WidthAssumption DEF CounterOK
<1> QED
  BY <1>1, <1>2, <1>3, <1>4 DEF TypeOK, Widths

\* Every variable keeps its type: no refused period reaches the register.
THEOREM TypeCorrect == Spec => []TypeOK
<1>1. Init => TypeOK
  <2>1. 0 \in 0..(ReloadModulus - 1) /\ 0 \in 0..(Modulus - 1) /\ 0 \in 0..(2 * Modulus)
    BY WidthAssumption
  <2> SUFFICES ASSUME Init
               PROVE  TypeOK
    OBVIOUS
  <2>2. on = FALSE /\ div8 = FALSE /\ fresh = TRUE
    BY DEF Init
  <2> QED
    BY <2>1, <2>2 DEF Init, TypeOK
<1> QED
  BY <1>1, InitCounter, CounterStep, TypeStep, PTL DEF Spec

\* What a delay computes does not change while SysTick is left alone.
LEMMA DeltaSame ==
    ASSUME UNCHANGED <<systick, ms>>
    PROVE  Delta(ms)' = Delta(ms)
BY DEF Delta, RateHz, Quotient, systick

LEMMA DelayStep ==
    ASSUME ~MayWrap, DInv, Widths', [Next]_vars
    PROVE  MostTicks' /\ NoWrap'
<1>1. Modulus \in Nat \ {0} /\ Delta(ms) \in Nat
  BY DeltaRange, WidthAssumption DEF DInv, Widths
<1> USE DEF DInv, Widths, MostTicks, NoWrap
<1>2. ASSUME NEW p \in Periods, TickInit(p)
      PROVE  MostTicks' /\ NoWrap'
  BY <1>2 DEF TickInit
<1>3. ASSUME NEW t \in Delays, DelayRead(t)
      PROVE  MostTicks' /\ NoWrap'
  <2>1. Delta(ms)' = Delta(t)
    BY <1>3 DEF DelayRead, Delta, RateHz, Quotient, systick
  <2>2. cur' + Delta(ms)' + 2 < Modulus
    BY <1>3, <2>1 DEF DelayRead
  <2> QED
    BY <1>3, <2>2 DEF DelayRead
<1>s. ASSUME UNCHANGED <<systick, ms>> PROVE Delta(ms)' = Delta(ms)
  BY <1>s, DeltaSame
<1>4. CASE DelayCompute
  <2>1. Delta(ms)' = Delta(ms)
    BY <1>4, <1>s DEF DelayCompute
  <2>2. next' = cur + Delta(ms)
    BY <1>1, <1>4 DEF DelayCompute
  <2> QED
    BY <1>1, <1>4, <2>1, <2>2 DEF DelayCompute
<1>5. CASE DelayCheck
  <2>1. Delta(ms)' = Delta(ms)
    BY <1>5, <1>s DEF DelayCheck, local
  <2>2. Waiting => elapsed <= Delta(ms)
    BY <1>1, <1>5 DEF DelayCheck, Waiting
  <2> QED
    BY <1>1, <1>5, <2>1, <2>2 DEF DelayCheck, local
<1>6. CASE DelaySleep
  <2>1. Delta(ms)' = Delta(ms)
    BY <1>6, <1>s DEF DelaySleep, local
  <2> QED
    BY <1>1, <1>6, <2>1 DEF DelaySleep, local
<1>7. CASE TickIrq
  <2>1. CASE pc = "idle"
    BY <1>7, <2>1 DEF TickIrq, Woken
  <2>2. CASE pc # "idle"
    <3>1. Delta(ms)' = Delta(ms)
      BY <1>7, <1>s DEF TickIrq, local
    <3>2. fresh \/ pc = "asleep"
      BY <1>7, <2>2 DEF TickIrq
    <3>3. elapsed <= Delta(ms) + 1
      BY <1>1, <2>2, <3>2
    <3>4. nticks' = cur + elapsed + 1 /\ elapsed' = elapsed + 1
      BY <1>1, <1>7, <2>2, <3>3 DEF TickIrq
    <3> QED
      BY <1>1, <1>7, <2>2, <3>1, <3>2, <3>3, <3>4 DEF TickIrq, Woken, local
  <2> QED
    BY <2>1, <2>2
<1>8. CASE OtherIrq
  <2>1. Delta(ms)' = Delta(ms)
    BY <1>8, <1>s DEF OtherIrq, local
  <2> QED
    BY <1>1, <1>8, <2>1 DEF OtherIrq, local
<1>10. CASE Clock
  <2>1. Delta(ms)' = Delta(ms)
    BY <1>10, <1>s DEF Clock, local
  <2> QED
    BY <1>10, <2>1 DEF Clock, local
<1>9. CASE UNCHANGED vars
  <2>1. Delta(ms)' = Delta(ms)
    BY <1>9, <1>s DEF vars, local
  <2> QED
    BY <1>9, <2>1 DEF vars, local
<1> QED
  BY <1>2, <1>3, <1>4, <1>5, <1>6, <1>7, <1>8, <1>9, <1>10 DEF Next, Cpu

LEMMA InitDInv == Init => DInv
BY WidthAssumption DEF Init, DInv, Widths, MostTicks, NoWrap

\* Whatever the widths, the clock and the period: a delay clear of the end of
\* the counter lasts more than the ticks computed for it.
THEOREM LongEnough ==
    ASSUME ~MayWrap
    PROVE  Spec => DelayLongEnough
<1>1. DInv /\ [Next]_vars => DInv'
  BY WidthsStep, DelayStep DEF DInv
<1>2. DInv /\ [Next]_vars => [Returns => elapsed > Delta(ms)]_vars
  <2> SUFFICES ASSUME DInv, [Next]_vars, Returns
               PROVE  elapsed > Delta(ms)
    OBVIOUS
  <2>1. DelayCheck /\ ~Waiting
    BY DEF Returns, Next, Cpu, TickInit, DelayRead, DelayCompute, DelayCheck, DelaySleep,
           Clock, TickIrq, OtherIrq, Woken, vars
  <2>2. Delta(ms) \in Nat
    BY DeltaRange, WidthAssumption DEF DInv, Widths
  <2> QED
    BY <2>1, <2>2 DEF Waiting, DelayCheck, DInv, Widths, NoWrap
<1> QED
  BY InitDInv, <1>1, <1>2, PTL DEF Spec, DelayLongEnough

\* And at most two ticks more.
THEOREM OnTime ==
    ASSUME ~MayWrap
    PROVE  Spec => DelayOnTime
<1>1. DInv /\ [Next]_vars => DInv'
  BY WidthsStep, DelayStep DEF DInv
<1>2. DInv => [Returns => elapsed <= Delta(ms) + 2]_vars
  <2> SUFFICES ASSUME DInv, Returns
               PROVE  elapsed <= Delta(ms) + 2
    OBVIOUS
  <2>1. Delta(ms) \in Nat
    BY DeltaRange, WidthAssumption DEF DInv, Widths
  <2> QED
    BY <2>1 DEF Returns, DInv, Widths, MostTicks
<1> QED
  BY InitDInv, <1>1, <1>2, PTL DEF Spec, DelayOnTime

=============================================================================
