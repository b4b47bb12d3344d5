------------------------------- MODULE Timer -------------------------------
(***************************************************************************)
(* timer/mod.rs: sleep_ms and sleep_block against the PIT interrupt, and   *)
(* the conversions between ticks and milliseconds.  Both sleeps return at  *)
(* once when interrupts are off, so the handler is never held back here;   *)
(* but they ask nothing about the PIC.  enable_runtime leaves IRQ0 masked  *)
(* and only enable_mouse, a function of the mouse feature, opens it.       *)
(***************************************************************************)
EXTENDS Integers

CONSTANTS
    PIT_FREQUENCY,  \* oscillator pulses per second
    PIT_DIVISOR,    \* pulses per tick
    SECOND,         \* milliseconds per second, 1000
    U64_MAX,        \* largest value of a u64
    Durations,      \* arguments of the sleeps
    MaxTicks        \* bound: ticks counted

ASSUME TimerAssumption ==
    /\ PIT_FREQUENCY \in Nat \ {0} /\ PIT_DIVISOR \in Nat \ {0}
    /\ SECOND \in Nat \ {0} /\ U64_MAX \in Nat /\ MaxTicks \in Nat
    /\ Durations \subseteq Nat

\* the kernel is up for less than the centuries after which the saturating
\* products of uptime_ms stand still
ASSUME UptimeAssumption == MaxTicks * PIT_DIVISOR * SECOND < U64_MAX

VARIABLES
    mouse,     \* is the kernel built with the mouse feature?
    unmasked,  \* PIC: is IRQ0 unmasked?
    pulses,    \* PIT: pulses, the periods that ran out masked left out
    TICKS,
    pc,        \* "awake"; "check", "halting", "halted" in sleep_ms; "spin"
    until,     \* the local target
    call       \* history: argument, TICKS and pulses of the last sleep

pic == <<mouse, unmasked>>

vars == <<mouse, unmasked, pulses, TICKS, pc, until, call>>

Saturating(n) == IF n <= U64_MAX THEN n ELSE U64_MAX

\* uptime_ms
UptimeMs(ticks) == Saturating(Saturating(ticks * PIT_DIVISOR) * SECOND) \div PIT_FREQUENCY

\* mutant: rounded down
TicksForMsDown(ms) == (ms * PIT_FREQUENCY) \div (PIT_DIVISOR * SECOND)

\* ticks_for_ms: rounded up
TicksForMs(ms) ==
    Saturating((ms * PIT_FREQUENCY + PIT_DIVISOR * SECOND - 1) \div (PIT_DIVISOR * SECOND))

\* mutant: the wait ends only on the very tick
ExpiredExactly(target) == TICKS = target

\* expired, and the loops' condition
Expired(target) == TICKS >= target

------------------------------------------------------------------------------

\* after enable_runtime, which unmasks the keyboard alone
Init ==
    /\ mouse \in BOOLEAN /\ unmasked = FALSE
    /\ pulses = 0 /\ TICKS = 0 /\ pc = "awake" /\ until = 0
    /\ call = [ms |-> 0, ticks |-> 0, pulses |-> 0]

\* the oscillator; when the counter runs out the interrupt, if it is unmasked,
\* is counted and ends a hlt (at the bound interrupts go on, uncounted)
Oscillate ==
    /\ pulses' = IF ~unmasked THEN (pulses + 1) % PIT_DIVISOR
                 ELSE IF TICKS < MaxTicks THEN pulses + 1 ELSE pulses
    /\ TICKS' = pulses' \div PIT_DIVISOR
    /\ pc' = IF pc = "halted" /\ unmasked /\ pulses' % PIT_DIVISOR = 0 THEN "check" ELSE pc
    /\ UNCHANGED <<pic, until, call>>

\* the shell, ready, opens IRQ0, IRQ2 and IRQ12; the PIC may have remembered
\* one run-out of the counter, which is now delivered
EnableMouse ==
    /\ mouse /\ ~unmasked /\ pc = "awake"
    /\ unmasked' = TRUE
    /\ \E remembered \in {0, 1} :
        /\ TICKS + remembered <= MaxTicks
        /\ pulses' = pulses + remembered * PIT_DIVISOR
        /\ TICKS' = TICKS + remembered
    /\ UNCHANGED <<mouse, pc, until, call>>

\* another device's interrupt ends a hlt
OtherIrq ==
    /\ pc = "halted"
    /\ pc' = "check"
    /\ UNCHANGED <<pic, pulses, TICKS, until, call>>

\* sleep_ms and sleep_block up to their loops
Sleep(ms, loop) ==
    /\ pc = "awake"
    /\ TICKS + TicksForMs(ms) <= MaxTicks
    /\ until' = Saturating(TICKS + TicksForMs(ms))
    /\ pc' = loop
    /\ call' = [ms |-> ms, ticks |-> TICKS, pulses |-> pulses]
    /\ UNCHANGED <<pic, pulses, TICKS>>

\* the loop's condition; an interrupt may come between it and the hlt
Check ==
    /\ pc \in {"check", "spin"}
    /\ pc' = IF Expired(until) THEN "awake" ELSE IF pc = "check" THEN "halting" ELSE "spin"
    /\ UNCHANGED <<pic, pulses, TICKS, until, call>>

Halt ==
    /\ pc = "halting"
    /\ pc' = "halted"
    /\ UNCHANGED <<pic, pulses, TICKS, until, call>>

Next ==
    \/ Oscillate
    \/ EnableMouse
    \/ OtherIrq
    \/ \E ms \in Durations : \E loop \in {"check", "spin"} : Sleep(ms, loop)
    \/ Check
    \/ Halt

\* the PIT keeps running and the processor executes the loops; nothing says
\* that the shell ever gets to enable_mouse
Spec == Init /\ [][Next]_vars /\ WF_vars(Oscillate) /\ WF_vars(Check) /\ WF_vars(Halt)

------------------------------------------------------------------------------
(* Properties.                                                             *)

\* A caller that reads the uptime before and after a sleep finds that at least
\* the time it asked for has passed; on the oscillator's clock a sleep is
\* short by less than one tick.
SleepsAreLongEnough ==
    pc = "awake" =>
        /\ UptimeMs(TICKS) - UptimeMs(call.ticks) >= call.ms
        /\ (pulses - call.pulses + PIT_DIVISOR) * SECOND > call.ms * PIT_FREQUENCY

\* With the timer unmasked a sleep ends, although a tick may fall between the
\* check and the hlt.  The doc of sleep_ms asks for less (timer/mod.rs:54,
\* "Requires interrupts to be enabled"): while the PIC masks IRQ0 no tick is
\* counted and the loop does not end.
SleepsEnd == unmasked ~> pc = "awake"

==============================================================================
