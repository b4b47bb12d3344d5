----------------------------- MODULE TimerProofs -----------------------------
(***************************************************************************)
(* Theorems about Timer, for every frequency, divisor and duration.  The   *)
(* inductive invariant is TimerInv; the rest is the arithmetic of the two  *)
(* conversions, one rounding up and one rounding down.                     *)
(***************************************************************************)
EXTENDS Timer, TLAPS

Types ==
    /\ mouse \in BOOLEAN /\ unmasked \in BOOLEAN
    /\ pulses \in Nat /\ TICKS \in Nat /\ until \in Nat
    /\ pc \in {"awake", "check", "halting", "halted", "spin"}
    /\ call \in [ms : Nat, ticks : Nat, pulses : Nat]

\* the tick counter follows the oscillator, and the bound
TicksArePulses == TICKS = pulses \div PIT_DIVISOR /\ TICKS <= MaxTicks

\* while IRQ0 is masked nothing is counted
MaskedIsStill == ~unmasked => TICKS = 0

\* the target of a sleep is the unsaturated sum, in ticks rounded up
TargetIsRoundedUp ==
    /\ call.ticks = call.pulses \div PIT_DIVISOR
    /\ call.ticks <= TICKS
    /\ until >= call.ticks
    /\ (until - call.ticks) * (PIT_DIVISOR * SECOND) >= call.ms * PIT_FREQUENCY

\* a sleep is left only after its target
AwakeIsLate == pc = "awake" => TICKS >= until

TimerInv == Types /\ TicksArePulses /\ MaskedIsStill /\ TargetIsRoundedUp /\ AwakeIsLate

------------------------------------------------------------------------------
(* Arithmetic.                                                             *)

\* Multiplication is monotone.
LEMMA TimesMonotone ==
    ASSUME NEW a \in Nat, NEW b \in Nat, NEW c \in Nat, a <= b
    PROVE  /\ a * c <= b * c
           /\ a * c \in Nat
OBVIOUS

\* A positive factor can be cancelled.
LEMMA TimesCancel ==
    ASSUME NEW a \in Nat, NEW b \in Nat, NEW c \in Nat \ {0}, a * c <= b * c
    PROVE  a <= b
<1> SUFFICES ASSUME b + 1 <= a PROVE FALSE
    OBVIOUS
<1>1. (b + 1) * c <= a * c
    BY TimesMonotone
<1>2. (b + 1) * c = b * c + c /\ b * c \in Nat /\ a * c \in Nat
    OBVIOUS
<1> QED  BY <1>1, <1>2

\* What the quotient of a division is.
LEMMA Quotient ==
    ASSUME NEW a \in Nat, NEW b \in Nat \ {0}
    PROVE  /\ a \div b \in Nat
           /\ (a \div b) * b <= a
           /\ a < (a \div b + 1) * b
OBVIOUS

\* A quotient is the largest factor that fits.
LEMMA QuotientIsLargest ==
    ASSUME NEW a \in Nat, NEW b \in Nat \ {0}, NEW q \in Nat, q * b <= a
    PROVE  q <= a \div b
OBVIOUS

\* Less than a divisor is nothing of it.
LEMMA SmallQuotient ==
    ASSUME NEW a \in Nat, NEW b \in Nat \ {0}, a < b
    PROVE  a \div b = 0
<1> DEFINE q == a \div b
<1>1. q \in Nat /\ q * b <= a
    BY Quotient
<1> HIDE DEF q
<1>2. CASE 1 <= q
    <2>1. 1 * b <= q * b
        BY <1>1, <1>2, TimesMonotone
    <2> QED  BY <1>1, <2>1
<1> QED  BY <1>1, <1>2 DEF q

\* One pulse more is at most one tick more.
LEMMA OneMoreTick ==
    ASSUME NEW n \in Nat, NEW b \in Nat \ {0}
    PROVE  (n + 1) \div b <= n \div b + 1
<1> DEFINE q == n \div b
           r == (n + 1) \div b
<1>1. q \in Nat /\ n < (q + 1) * b
    BY Quotient
<1>2. r \in Nat /\ r * b <= n + 1
    BY Quotient
<1> HIDE DEF q, r
<1>3. r * b \in Nat /\ (q + 1) * b \in Nat
    BY <1>1, <1>2
<1>4. r * b <= (q + 1) * b
    BY <1>1, <1>2, <1>3
<1>5. r <= q + 1
    BY <1>1, <1>2, <1>4, TimesCancel
<1> QED  BY <1>5 DEF q, r

\* Rounding up, as ticks_for_ms does, never asks for less.
LEMMA RoundedUp ==
    ASSUME NEW n \in Nat, NEW b \in Nat \ {0}
    PROVE  /\ (n + b - 1) \div b \in Nat
           /\ ((n + b - 1) \div b) * b >= n
<1> DEFINE a == n + b - 1
<1> DEFINE c == a \div b
<1>1. a \in Nat
    OBVIOUS
<1>2. c \in Nat /\ a < (c + 1) * b
    BY <1>1, Quotient
<1>3. (c + 1) * b = c * b + b /\ c * b \in Nat
    BY <1>2
<1> HIDE DEF c
<1>4. c * b >= n
    BY <1>2, <1>3
<1> QED  BY <1>2, <1>4 DEF c

\* Rounding down, as uptime_ms does, loses nothing of a difference that was
\* whole: m divisors more are a quotient that is m larger.
LEMMA QuotientGrows ==
    ASSUME NEW a \in Nat, NEW d \in Nat, NEW m \in Nat, NEW b \in Nat \ {0},
           d >= a + m * b
    PROVE  d \div b >= a \div b + m
<1> DEFINE q == a \div b
<1>1. q \in Nat /\ q * b <= a
    BY Quotient
<1> HIDE DEF q
<1>2. (q + m) * b = q * b + m * b /\ q * b \in Nat /\ m * b \in Nat
    BY <1>1
<1>3. (q + m) * b <= d
    BY <1>1, <1>2
<1>4. q + m <= d \div b
    BY <1>1, <1>3, QuotientIsLargest
<1> QED  BY <1>4 DEF q

\* Nothing saturates below the bound on the ticks.
LEMMA BelowTheBound ==
    ASSUME NEW n \in Nat, n <= MaxTicks
    PROVE  /\ n < U64_MAX
           /\ n * PIT_DIVISOR \in Nat /\ n * PIT_DIVISOR < U64_MAX
           /\ (n * PIT_DIVISOR) * SECOND \in Nat
           /\ (n * PIT_DIVISOR) * SECOND < U64_MAX
<1> USE TimerAssumption, UptimeAssumption
<1>1. n * PIT_DIVISOR <= MaxTicks * PIT_DIVISOR /\ n * PIT_DIVISOR \in Nat
      /\ MaxTicks * PIT_DIVISOR \in Nat
    BY TimesMonotone
<1>2. (n * PIT_DIVISOR) * SECOND <= MaxTicks * PIT_DIVISOR * SECOND
      /\ (n * PIT_DIVISOR) * SECOND \in Nat
    BY <1>1, TimesMonotone
<1>3. n <= n * PIT_DIVISOR
    OBVIOUS
<1>4. n * PIT_DIVISOR <= (n * PIT_DIVISOR) * SECOND
    BY <1>1
<1> HIDE UptimeAssumption, TimerAssumption
<1>5. MaxTicks * PIT_DIVISOR * SECOND \in Nat /\ U64_MAX \in Nat
      /\ MaxTicks * PIT_DIVISOR * SECOND < U64_MAX
    BY <1>1, TimerAssumption, UptimeAssumption
<1> QED  BY <1>1, <1>2, <1>3, <1>4, <1>5

\* uptime_ms below that bound.
LEMMA UptimeUnsaturated ==
    ASSUME NEW n \in Nat, n <= MaxTicks
    PROVE  UptimeMs(n) = ((n * PIT_DIVISOR) * SECOND) \div PIT_FREQUENCY
<1>1. Saturating(n * PIT_DIVISOR) = n * PIT_DIVISOR
    BY BelowTheBound, TimerAssumption DEF Saturating
<1>2. Saturating((n * PIT_DIVISOR) * SECOND) = (n * PIT_DIVISOR) * SECOND
    BY BelowTheBound, TimerAssumption DEF Saturating
<1> QED  BY <1>1, <1>2 DEF UptimeMs

\* The target of a sleep the bound admits is not saturated and is long enough.
LEMMA Target ==
    ASSUME NEW ms \in Nat, NEW t \in Nat, t + TicksForMs(ms) <= MaxTicks
    PROVE  /\ TicksForMs(ms) \in Nat
           /\ TicksForMs(ms) * (PIT_DIVISOR * SECOND) >= ms * PIT_FREQUENCY
           /\ Saturating(t + TicksForMs(ms)) = t + TicksForMs(ms)
<1> DEFINE K == PIT_DIVISOR * SECOND
           c == (ms * PIT_FREQUENCY + K - 1) \div K
<1>1. K \in Nat \ {0} /\ ms * PIT_FREQUENCY \in Nat /\ U64_MAX \in Nat /\ MaxTicks \in Nat
    BY TimerAssumption
<1>2. c \in Nat /\ c * K >= ms * PIT_FREQUENCY
    <2> HIDE DEF K
    <2> QED  BY <1>1, RoundedUp
<1>3. TicksForMs(ms) = IF c <= U64_MAX THEN c ELSE U64_MAX
    BY DEF TicksForMs, Saturating
<1> HIDE DEF c, K
<1>4. TicksForMs(ms) \in Nat /\ TicksForMs(ms) <= MaxTicks
    BY <1>1, <1>2, <1>3
<1>5. TicksForMs(ms) = c
    BY <1>1, <1>2, <1>3, <1>4, BelowTheBound
<1>6. t + TicksForMs(ms) \in Nat /\ t + TicksForMs(ms) < U64_MAX
    BY <1>4, BelowTheBound
<1> QED  BY <1>1, <1>2, <1>4, <1>5, <1>6 DEF Saturating, K

------------------------------------------------------------------------------
(* The inductive invariant.                                                *)

\* The programmed PIT satisfies the inductive invariant.
LEMMA InitEstablishesTimerInv == Init => TimerInv
<1> SUFFICES ASSUME Init PROVE TimerInv
    OBVIOUS
<1>1. 0 \div PIT_DIVISOR = 0 /\ 0 <= MaxTicks
    BY TimerAssumption
<1>2. TicksArePulses /\ TargetIsRoundedUp /\ AwakeIsLate
    BY <1>1, TimerAssumption DEF Init, TicksArePulses, TargetIsRoundedUp, AwakeIsLate
<1>3. mouse \in BOOLEAN /\ unmasked \in BOOLEAN
    BY Zenon DEF Init
<1>4. Types /\ MaskedIsStill
    BY <1>3 DEF Init, Types, MaskedIsStill
<1> QED  BY <1>2, <1>4 DEF TimerInv

\* What every step of the PIT and the PIC does to a sleep: the counter stays
\* the quotient of the pulses and never goes back.
LEMMA CounterStep ==
    ASSUME TimerInv, UNCHANGED <<until, call>>,
           mouse' \in BOOLEAN, unmasked' \in BOOLEAN,
           pulses' \in Nat, TICKS' = pulses' \div PIT_DIVISOR,
           TICKS' >= TICKS, TICKS' <= MaxTicks, MaskedIsStill',
           pc' = pc \/ (pc = "halted" /\ pc' = "check")
    PROVE  TimerInv'
<1> USE DEF TimerInv
<1>1. TICKS' \in Nat
    BY Quotient, TimerAssumption
<1>2. Types'
    BY <1>1 DEF Types
<1>3. TicksArePulses'
    BY DEF TicksArePulses
<1>4. TargetIsRoundedUp'
    BY <1>1 DEF TargetIsRoundedUp, Types
<1>5. AwakeIsLate'
    BY <1>1 DEF AwakeIsLate, Types
<1> QED  BY <1>2, <1>3, <1>4, <1>5

\* A pulse moves the counter by at most one tick and never back, and not at
\* all while IRQ0 is masked.
LEMMA OscillateStep ==
    ASSUME TimerInv, Oscillate
    PROVE  TimerInv'
<1> USE DEF TimerInv
<1>1. /\ TICKS' = pulses' \div PIT_DIVISOR
      /\ UNCHANGED <<mouse, unmasked, until, call>>
      /\ pc' = pc \/ (pc = "halted" /\ pc' = "check")
    BY DEF Oscillate, pic
<1>2. CASE ~unmasked
    <2>1. pulses' = (pulses + 1) % PIT_DIVISOR
        BY <1>2 DEF Oscillate
    <2>2. pulses' \in 0 .. PIT_DIVISOR - 1
        BY <2>1, TimerAssumption DEF Types
    <2>3. TICKS' = 0
        <3>1. pulses' \in Nat /\ pulses' < PIT_DIVISOR
            BY <2>2, TimerAssumption
        <3>2. pulses' \div PIT_DIVISOR = 0
            BY <3>1, SmallQuotient, TimerAssumption
        <3> QED  BY <1>1, <3>2
    <2>4. TICKS = 0 /\ pulses' \in Nat
        BY <1>2, <2>2, TimerAssumption DEF MaskedIsStill
    <2>5. MaskedIsStill'
        BY <2>3 DEF MaskedIsStill
    <2>6. TICKS' >= TICKS /\ TICKS' <= MaxTicks
        BY <2>3, <2>4, TimerAssumption
    <2> QED  BY <1>1, <2>4, <2>5, <2>6, CounterStep DEF Types
<1>3. CASE unmasked
    <2> DEFINE p == IF TICKS < MaxTicks THEN pulses + 1 ELSE pulses
    <2>1. pulses' = p
        BY <1>3 DEF Oscillate
    <2>2. p \in Nat /\ p >= pulses
        BY DEF Types
    <2>3. TICKS' \in Nat /\ TICKS' >= TICKS
        BY <1>1, <2>1, <2>2, Quotient, QuotientIsLargest, TimerAssumption DEF TicksArePulses, Types
    <2>4. TICKS' <= MaxTicks
        <3>1. CASE TICKS < MaxTicks
            <4>1. TICKS' <= TICKS + 1
                BY <3>1, <1>1, <2>1, OneMoreTick, TimerAssumption DEF TicksArePulses, Types
            <4> QED  BY <3>1, <4>1, <2>3, TimerAssumption DEF Types
        <3>2. CASE ~(TICKS < MaxTicks)
            BY <3>2, <1>1, <2>1 DEF TicksArePulses
        <3> QED  BY <3>1, <3>2
    <2>5. MaskedIsStill'
        BY <1>1, <1>3 DEF MaskedIsStill
    <2>6. pulses' \in Nat
        BY <2>1, <2>2
    <2> QED  BY <1>1, <2>3, <2>4, <2>5, <2>6, CounterStep DEF Types
<1> QED  BY <1>2, <1>3 DEF Types

\* Opening IRQ0 delivers at most one remembered tick.
LEMMA EnableMouseStep ==
    ASSUME TimerInv, EnableMouse
    PROVE  TimerInv'
<1> USE DEF TimerInv
<1>1. PICK remembered \in {0, 1} :
        /\ TICKS + remembered <= MaxTicks
        /\ pulses' = pulses + remembered * PIT_DIVISOR
        /\ TICKS' = TICKS + remembered
    BY DEF EnableMouse
<1>2. pulses' \in Nat
    BY <1>1, TimerAssumption DEF Types
<1>3. TICKS' = pulses' \div PIT_DIVISOR
    <2>1. CASE remembered = 0
        BY <1>1, <2>1, TimerAssumption DEF TicksArePulses, Types
    <2>2. CASE remembered = 1
        <3>1. pulses' = pulses + PIT_DIVISOR
            BY <1>1, <2>2, TimerAssumption DEF Types
        <3>2. (pulses + PIT_DIVISOR) \div PIT_DIVISOR = pulses \div PIT_DIVISOR + 1
            BY TimerAssumption DEF Types
        <3> QED  BY <1>1, <2>2, <3>1, <3>2 DEF TicksArePulses
    <2> QED  BY <2>1, <2>2
<1>4. TICKS' >= TICKS /\ TICKS' <= MaxTicks
    BY <1>1 DEF Types
<1>5. UNCHANGED <<mouse, pc, until, call>> /\ unmasked' = TRUE
    BY DEF EnableMouse
<1>6. MaskedIsStill'
    BY <1>5 DEF MaskedIsStill
<1> QED  BY <1>2, <1>3, <1>4, <1>5, <1>6, CounterStep DEF Types

\* sleep_ms and sleep_block compute a target that is far enough away.
LEMMA SleepStep ==
    ASSUME TimerInv, NEW ms \in Durations, NEW loop \in {"check", "spin"}, Sleep(ms, loop)
    PROVE  TimerInv'
<1> USE DEF TimerInv
<1>1. ms \in Nat
    BY TimerAssumption
<1>2. /\ TicksForMs(ms) \in Nat
      /\ TicksForMs(ms) * (PIT_DIVISOR * SECOND) >= ms * PIT_FREQUENCY
      /\ until' = TICKS + TicksForMs(ms)
    BY <1>1, Target DEF Sleep, Types
<1>3. /\ UNCHANGED <<mouse, unmasked, pulses, TICKS>> /\ pc' = loop
      /\ call' = [ms |-> ms, ticks |-> TICKS, pulses |-> pulses]
    BY DEF Sleep, pic
<1>4. Types'
    BY <1>1, <1>2, <1>3 DEF Types
<1>5. TicksArePulses' /\ MaskedIsStill' /\ AwakeIsLate'
    BY <1>3 DEF TicksArePulses, MaskedIsStill, AwakeIsLate
<1>6. TargetIsRoundedUp'
    <2>1. until' - TICKS = TicksForMs(ms) /\ until' >= TICKS
        BY <1>2 DEF Types
    <2>2. call'.ticks = TICKS /\ call'.pulses = pulses /\ call'.ms = ms
        BY <1>3
    <2> QED  BY <1>2, <1>3, <2>1, <2>2 DEF TargetIsRoundedUp, TicksArePulses, Types
<1> QED  BY <1>4, <1>5, <1>6

\* Every step keeps the inductive invariant.
LEMMA NextPreservesTimerInv == TimerInv /\ [Next]_vars => TimerInv'
<1> SUFFICES ASSUME TimerInv, [Next]_vars PROVE TimerInv'
    OBVIOUS
<1>1. CASE Oscillate
    BY <1>1, OscillateStep
<1>2. CASE \E ms \in Durations : \E loop \in {"check", "spin"} : Sleep(ms, loop)
    BY <1>2, SleepStep
<1>3. CASE OtherIrq \/ Check \/ Halt
    BY <1>3 DEF OtherIrq, Check, Halt, Expired, pic, TimerInv, Types, TicksArePulses,
        MaskedIsStill, TargetIsRoundedUp, AwakeIsLate
<1>4. CASE UNCHANGED vars
    BY <1>4 DEF vars, TimerInv, Types, TicksArePulses, MaskedIsStill, TargetIsRoundedUp, AwakeIsLate
<1>5. CASE EnableMouse
    BY <1>5, EnableMouseStep
<1> QED  BY <1>1, <1>2, <1>3, <1>4, <1>5 DEF Next

\* The inductive invariant holds in every reachable state.
LEMMA TimerInvHolds == Spec => []TimerInv
BY InitEstablishesTimerInv, NextPreservesTimerInv, PTL DEF Spec

------------------------------------------------------------------------------

\* On the uptime clock a sleep is never too short.
LEMMA UptimeIsLongEnough ==
    ASSUME TimerInv, pc = "awake"
    PROVE  UptimeMs(TICKS) - UptimeMs(call.ticks) >= call.ms
<1> DEFINE T == TICKS
           t == call.ticks
           K == PIT_DIVISOR * SECOND
<1>1. /\ T \in Nat /\ t \in Nat /\ call.ms \in Nat /\ until \in Nat
      /\ t <= until /\ until <= T /\ T <= MaxTicks /\ t <= MaxTicks
      /\ (until - t) * K >= call.ms * PIT_FREQUENCY
    BY TimerAssumption DEF TimerInv, Types, TicksArePulses, TargetIsRoundedUp, AwakeIsLate
<1>2. /\ UptimeMs(T) = ((T * PIT_DIVISOR) * SECOND) \div PIT_FREQUENCY
      /\ UptimeMs(t) = ((t * PIT_DIVISOR) * SECOND) \div PIT_FREQUENCY
    BY <1>1, UptimeUnsaturated
<1>3. (T * PIT_DIVISOR) * SECOND = T * K /\ (t * PIT_DIVISOR) * SECOND = t * K
    BY <1>1, TimerAssumption
<1>4. K \in Nat \ {0}
    BY TimerAssumption
<1> HIDE DEF K, T, t
<1>5. T * K \in Nat /\ t * K \in Nat /\ call.ms * PIT_FREQUENCY \in Nat
    BY <1>1, <1>4, TimerAssumption
<1>6. T * K >= t * K + call.ms * PIT_FREQUENCY
    <2>1. until * K <= T * K /\ until * K \in Nat
        BY <1>1, <1>4, TimesMonotone
    <2>2. (until - t) * K = until * K - t * K
        BY <1>1, <1>4
    <2> QED  BY <1>1, <1>5, <2>1, <2>2
<1>7. (T * K) \div PIT_FREQUENCY >= (t * K) \div PIT_FREQUENCY + call.ms
    BY <1>1, <1>5, <1>6, QuotientGrows, TimerAssumption
<1>8. (T * K) \div PIT_FREQUENCY \in Nat /\ (t * K) \div PIT_FREQUENCY \in Nat
    BY <1>5, Quotient, TimerAssumption
<1> QED  BY <1>1, <1>2, <1>3, <1>7, <1>8 DEF T, t

\* On the oscillator's clock it is short by less than a tick.
LEMMA PulsesAreLongEnough ==
    ASSUME TimerInv, pc = "awake"
    PROVE  (pulses - call.pulses + PIT_DIVISOR) * SECOND > call.ms * PIT_FREQUENCY
<1> DEFINE T == TICKS
           t == call.ticks
           D == PIT_DIVISOR
<1>1. /\ T \in Nat /\ t \in Nat /\ call.ms \in Nat /\ until \in Nat
      /\ pulses \in Nat /\ call.pulses \in Nat
      /\ t <= until /\ until <= T
      /\ (until - t) * (D * SECOND) >= call.ms * PIT_FREQUENCY
    BY DEF TimerInv, Types, TicksArePulses, TargetIsRoundedUp, AwakeIsLate
<1>2. T * D <= pulses /\ call.pulses < (t + 1) * D
    BY <1>1, Quotient, TimerAssumption DEF TimerInv, TicksArePulses, TargetIsRoundedUp
<1>3. D \in Nat \ {0} /\ SECOND \in Nat \ {0} /\ PIT_FREQUENCY \in Nat
    BY TimerAssumption
<1> HIDE DEF T, t, D
<1>4. /\ until * D <= T * D /\ until * D \in Nat /\ T * D \in Nat /\ t * D \in Nat
      /\ (t + 1) * D = t * D + D /\ (until - t) * D = until * D - t * D
    BY <1>1, <1>3, TimesMonotone
<1> DEFINE x == pulses - call.pulses + D
           y == (until - t) * D
<1>5. x \in Nat /\ y \in Nat /\ x >= y + 1
    BY <1>1, <1>2, <1>3, <1>4, TimesMonotone
<1>6. y * SECOND = (until - t) * (D * SECOND)
    BY <1>1, <1>3
<1> HIDE DEF x, y
<1>7. x * SECOND >= (y + 1) * SECOND /\ (y + 1) * SECOND = y * SECOND + SECOND
      /\ y * SECOND \in Nat /\ x * SECOND \in Nat
    BY <1>3, <1>5, TimesMonotone
<1>8. x * SECOND > call.ms * PIT_FREQUENCY
    <2>1. call.ms * PIT_FREQUENCY \in Nat
        BY <1>1, <1>3
    <2> QED  BY <1>1, <1>3, <1>6, <1>7, <2>1
<1> QED  BY <1>8 DEF x, D

\* A sleep lasts at least as long as it was asked to on the clock its caller
\* can read, and is short by less than one tick on the oscillator's.
THEOREM SleepsLastLongEnough == Spec => []SleepsAreLongEnough
<1>1. TimerInv => SleepsAreLongEnough
    BY UptimeIsLongEnough, PulsesAreLongEnough DEF SleepsAreLongEnough
<1> QED  BY <1>1, TimerInvHolds, PTL

==============================================================================
