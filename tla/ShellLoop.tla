----------------------------- MODULE ShellLoop -----------------------------
(***************************************************************************)
(* The shell's event loop (shell/mod.rs) against the interrupt handlers    *)
(* that feed it: IRQ masks, the CPU's interrupt flag, the keyboard and     *)
(* mouse queues, the dropped-byte counters and the hlt the loop ends in.   *)
(*                                                                         *)
(* One step of the loop is one atomic operation of the code; an interrupt  *)
(* can be taken between any two of them while interrupts are enabled.      *)
(* Scancodes are reduced to what the loop tells apart; the tasks to the    *)
(* dispatches they still need (module Scheduler has the details).          *)
(*                                                                         *)
(* owed, overflowed, ctrlsDown, bothDown and misread are history variables *)
(* or the state of the physical keyboard.                                  *)
(***************************************************************************)
EXTENDS Integers, Sequences

CONSTANTS
    Builds,         \* the values of mouseBuild that occur
    RB_SIZE,        \* capacity of each input queue
    TaskWork,       \* dispatches the spawned tasks need until they exit
    InitialBudget,  \* the budget of run_ready before the prompt
    TASK_BUDGET,    \* the budget of run_ready in the loop
    ReportPeriod,   \* drops are reported at multiples of this tick count
    MaxKeys,        \* bound: bytes the keyboard sends
    MaxMouse        \* bound: bytes the mouse sends

ASSUME ShellAssumption ==
    /\ Builds \subseteq BOOLEAN
    /\ RB_SIZE \in Nat \ {0}
    /\ TaskWork \in Nat
    /\ InitialBudget \in Nat
    /\ TASK_BUDGET \in Nat \ {0}
    /\ ReportPeriod \in Nat \ {0}
    /\ MaxKeys \in Nat /\ MaxMouse \in Nat

VARIABLES
    mouseBuild,    \* the kernel is built with the mouse feature
    pc,            \* the operation the shell performs next, or "halted"
    interrupts,    \* RFLAGS.IF
    unmasked,      \* the IRQs the PIC lets through
    timerPending,  \* IRQ0 is latched
    output,        \* the 8042 output buffer: "empty", "mouse" or a scancode
    ticks,         \* TICKS modulo ReportPeriod
    now,           \* the loop's local now, modulo ReportPeriod
    keys,          \* KEYBOARD_QUEUE
    mouseBytes,    \* number of bytes in MOUSE_QUEUE
    keyDropped,    \* KEYBOARD_DROPPED
    mouseDropped,  \* MOUSE_DROPPED
    ctrlHeld,      \* CTRL_HELD
    work,          \* dispatches the tasks still need
    sent,          \* history: bytes each device has sent
    owed,          \* history: scancodes taken and neither decoded nor reported
    overflowed,    \* history: a keyboard byte was dropped
    ctrlsDown,     \* how many of the two physical Ctrl keys are down
    bothDown,      \* history: both were down at once
    misread        \* history: a key was read with the wrong Ctrl state

cpu     == <<pc, interrupts>>
ctrls   == <<ctrlsDown, bothDown>>
devices == <<mouseBuild, unmasked, timerPending, output, sent, ctrls>>
queues  == <<keys, mouseBytes, keyDropped, mouseDropped, ctrlHeld>>
history == <<owed, overflowed, misread>>
vars    == <<cpu, devices, queues, history, ticks, now, work>>

\* key: some key, typed with Ctrl down or not; ack: a controller response
Scancodes == {"ctrl+", "ctrl-", "key", "ctrl-key", "ack"}
Lower(a, b) == IF a <= b THEN a ELSE b

LoopTop == IF mouseBuild THEN "pollMouse" ELSE "readTicks"

Init ==
    /\ mouseBuild \in Builds
    /\ pc = "enableRuntime" /\ interrupts = TRUE
    /\ unmasked = {}
    /\ timerPending = FALSE
    /\ output = "empty"
    /\ sent = [d \in {"keyboard", "mouse"} |-> 0]
    /\ ctrlsDown = 0 /\ bothDown = FALSE
    /\ keys = <<>> /\ mouseBytes = 0
    /\ keyDropped = 0 /\ mouseDropped = 0
    /\ ctrlHeld = FALSE
    /\ owed = 0
    /\ overflowed = FALSE /\ misread = FALSE
    /\ ticks = 0 /\ now = 0
    /\ work = TaskWork

------------------------------------------------------------------------------
(* The devices.                                                            *)

PitFires ==
    /\ timerPending' = TRUE
    /\ UNCHANGED <<mouseBuild, cpu, unmasked, output, sent, ctrls, queues,
                   history, ticks, now, work>>

\* the keyboard puts a byte into the empty output buffer
KeyboardSends(code) ==
    /\ output = "empty"
    /\ sent["keyboard"] < MaxKeys
    /\ code = "ctrl+" => ctrlsDown < 2
    /\ code \in {"ctrl-", "ctrl-key"} => ctrlsDown > 0
    /\ code = "key" => ctrlsDown = 0
    /\ output' = code
    /\ sent' = [sent EXCEPT !["keyboard"] = @ + 1]
    /\ ctrlsDown' = CASE code = "ctrl+" -> ctrlsDown + 1
                      [] code = "ctrl-" -> ctrlsDown - 1
                      [] OTHER -> ctrlsDown
    /\ bothDown' = (bothDown \/ ctrlsDown' = 2)
    /\ UNCHANGED <<mouseBuild, cpu, unmasked, timerPending, queues, history,
                   ticks, now, work>>

MouseSends ==
    /\ mouseBuild
    /\ output = "empty"
    /\ sent["mouse"] < MaxMouse
    /\ output' = "mouse"
    /\ sent' = [sent EXCEPT !["mouse"] = @ + 1]
    /\ UNCHANGED <<mouseBuild, cpu, unmasked, timerPending, ctrls, queues,
                   history, ticks, now, work>>

------------------------------------------------------------------------------
(* The interrupt handlers.  A handler runs with interrupts disabled, so it *)
(* is one step; returning from it also ends a hlt.                         *)

Delivered(irq) == interrupts /\ irq \in unmasked

Resume == pc' = IF pc = "halted" THEN LoopTop ELSE pc

TimerIrq ==
    /\ Delivered("timer")
    /\ timerPending
    /\ timerPending' = FALSE
    /\ ticks' = (ticks + 1) % ReportPeriod
    /\ Resume
    /\ UNCHANGED <<mouseBuild, interrupts, unmasked, output, sent, ctrls,
                   queues, history, now, work>>

\* keyboard handler: acknowledgements are discarded, a scancode is pushed, or
\* counted when the queue is full
KeyboardIrq ==
    /\ Delivered("keyboard")
    /\ output \in Scancodes
    /\ output' = "empty"
    /\ IF output = "ack"
       THEN UNCHANGED <<keys, keyDropped, owed, overflowed>>
       ELSE /\ owed' = owed + 1
            /\ IF Len(keys) < RB_SIZE
               THEN /\ keys' = Append(keys, output)
                    /\ UNCHANGED <<keyDropped, overflowed>>
               ELSE /\ keyDropped' = keyDropped + 1
                    /\ overflowed' = TRUE
                    /\ UNCHANGED keys
    /\ Resume
    /\ UNCHANGED <<mouseBuild, interrupts, unmasked, timerPending, sent,
                   ctrls, mouseBytes, mouseDropped, ctrlHeld,
                   misread, ticks, now, work>>

\* mouse handler: every byte is pushed, or counted when the queue is full
MouseIrq ==
    /\ Delivered("mouse")
    /\ output = "mouse"
    /\ output' = "empty"
    /\ mouseBytes' = Lower(mouseBytes + 1, RB_SIZE)
    /\ mouseDropped' = IF mouseBytes < RB_SIZE THEN mouseDropped
                       ELSE mouseDropped + 1
    /\ Resume
    /\ UNCHANGED <<mouseBuild, interrupts, unmasked, timerPending, sent,
                   ctrls, keys, keyDropped, ctrlHeld, history, ticks, now,
                   work>>

------------------------------------------------------------------------------
(* The shell.                                                              *)

Goto(from, to) == pc = from /\ pc' = to

\* interrupts::enable_runtime: IRQ1 only
EnableRuntime ==
    /\ Goto("enableRuntime", "spawnTasks")
    /\ unmasked' = {"keyboard"}
    /\ UNCHANGED <<mouseBuild, interrupts, timerPending, output, sent,
                   ctrls, queues, history, ticks, now, work>>

\* shell::init before the loop: both tasks are spawned and run_ready(_, 10)
SpawnTasks ==
    /\ Goto("spawnTasks", IF mouseBuild THEN "enableMouse" ELSE LoopTop)
    /\ work' = work - Lower(work, InitialBudget)
    /\ UNCHANGED <<interrupts, devices, queues, history, ticks, now>>

\* mutant: the timer stays masked
EnableMouseOnly ==
    /\ Goto("enableMouse", LoopTop)
    /\ unmasked' = {"keyboard", "mouse"}
    /\ UNCHANGED <<mouseBuild, interrupts, timerPending, output, sent,
                   ctrls, queues, history, ticks, now, work>>

\* interrupts::enable_mouse: IRQ0, IRQ1, the cascade and IRQ12
EnableMouse ==
    /\ Goto("enableMouse", LoopTop)
    /\ unmasked' = {"timer", "keyboard", "mouse"}
    /\ UNCHANGED <<mouseBuild, interrupts, timerPending, output, sent,
                   ctrls, queues, history, ticks, now, work>>

\* mouse::poll takes one byte
PollMouse ==
    /\ Goto("pollMouse", "readTicks")
    /\ mouseBytes' = IF mouseBytes = 0 THEN 0 ELSE mouseBytes - 1
    /\ UNCHANGED <<interrupts, devices, keys, keyDropped, mouseDropped,
                   ctrlHeld, history, ticks, now, work>>

ReadTicks ==
    /\ Goto("readTicks", "runTasks")
    /\ now' = ticks
    /\ UNCHANGED <<interrupts, devices, queues, history, ticks, work>>

RunTasks ==
    /\ Goto("runTasks", "report")
    /\ work' = work - Lower(work, TASK_BUDGET)
    /\ UNCHANGED <<interrupts, devices, queues, history, ticks, now>>

\* mutant: the counter is read and not reset
ReportAgain ==
    /\ Goto("report", IF mouseBuild THEN "reportMouse" ELSE "pollKeyboard")
    /\ owed' = IF now = 0 THEN owed - keyDropped ELSE owed
    /\ UNCHANGED <<interrupts, devices, queues, overflowed, misread, ticks, now, work>>

\* KEYBOARD_DROPPED.swap(0) at a multiple of ReportPeriod
Report ==
    /\ Goto("report", IF mouseBuild THEN "reportMouse" ELSE "pollKeyboard")
    /\ IF now = 0
       THEN /\ owed' = owed - keyDropped
            /\ keyDropped' = 0
       ELSE UNCHANGED <<owed, keyDropped>>
    /\ UNCHANGED <<interrupts, devices, keys, mouseBytes, mouseDropped,
                   ctrlHeld, overflowed, misread, ticks, now, work>>

ReportMouse ==
    /\ Goto("reportMouse", "pollKeyboard")
    /\ mouseDropped' = IF now = 0 THEN 0 ELSE mouseDropped
    /\ UNCHANGED <<interrupts, devices, keys, mouseBytes, keyDropped, ctrlHeld,
                   history, ticks, now, work>>

\* mutant: a Ctrl release is taken for a press
CtrlAfterAnyEvent(code) ==
    IF code \in {"ctrl+", "ctrl-"} THEN TRUE ELSE ctrlHeld

\* CTRL_HELD after keyboard::poll has decoded a scancode
CtrlAfter(code) ==
    IF code = "ctrl+" THEN TRUE ELSE IF code = "ctrl-" THEN FALSE ELSE ctrlHeld

\* mutant: the keyboard is polled only when drops are reported
PollKeyboardWithReport ==
    /\ Goto("pollKeyboard", "disableInterrupts")
    /\ IF keys = <<>> \/ now # 0
       THEN UNCHANGED <<keys, ctrlHeld, owed, misread>>
       ELSE /\ keys' = Tail(keys)
            /\ owed' = owed - 1
            /\ ctrlHeld' = CtrlAfter(Head(keys))
            /\ misread' = (misread \/ (Head(keys) = "key" /\ ctrlHeld)
                              \/ (Head(keys) = "ctrl-key" /\ ~ ctrlHeld))
    /\ now' = 0
    /\ UNCHANGED <<interrupts, devices, mouseBytes, keyDropped, mouseDropped,
                   overflowed, ticks, work>>

\* keyboard::poll takes one scancode; a key is handled as Ctrl+key or as text;
\* the loop's local now is not used any more
PollKeyboard ==
    /\ Goto("pollKeyboard", "disableInterrupts")
    /\ IF keys = <<>>
       THEN UNCHANGED <<keys, ctrlHeld, owed, misread>>
       ELSE /\ keys' = Tail(keys)
            /\ owed' = owed - 1
            /\ ctrlHeld' = CtrlAfter(Head(keys))
            /\ misread' = (misread \/ (Head(keys) = "key" /\ ctrlHeld)
                              \/ (Head(keys) = "ctrl-key" /\ ~ ctrlHeld))
    /\ now' = 0
    /\ UNCHANGED <<interrupts, devices, mouseBytes, keyDropped, mouseDropped,
                   overflowed, ticks, work>>

\* mutant: interrupts stay enabled during the check
CheckEnabled ==
    /\ Goto("disableInterrupts", "checkQueues")
    /\ UNCHANGED <<interrupts, devices, queues, history, ticks, now, work>>

DisableInterrupts ==
    /\ Goto("disableInterrupts", "checkQueues")
    /\ interrupts' = FALSE
    /\ UNCHANGED <<devices, queues, history, ticks, now, work>>

CheckQueues ==
    /\ Goto("checkQueues", IF keys = <<>> /\ mouseBytes = 0
                           THEN "enableAndHlt" ELSE "enableInterrupts")
    /\ UNCHANGED <<interrupts, devices, queues, history, ticks, now, work>>

\* sti; hlt: no interrupt is taken between the two
EnableAndHlt ==
    /\ Goto("enableAndHlt", "halted")
    /\ interrupts' = TRUE
    /\ UNCHANGED <<devices, queues, history, ticks, now, work>>

EnableInterrupts ==
    /\ Goto("enableInterrupts", LoopTop)
    /\ interrupts' = TRUE
    /\ UNCHANGED <<devices, queues, history, ticks, now, work>>

\* the steps only a kernel with the mouse feature has
MouseStep == EnableMouse \/ PollMouse \/ ReportMouse

Shell ==
    \/ EnableRuntime \/ SpawnTasks \/ MouseStep \/ ReadTicks \/ RunTasks
    \/ Report \/ PollKeyboard \/ DisableInterrupts \/ CheckQueues
    \/ EnableAndHlt \/ EnableInterrupts

Next ==
    \/ PitFires
    \/ \E code \in Scancodes : KeyboardSends(code)
    \/ MouseSends
    \/ TimerIrq
    \/ KeyboardIrq
    \/ MouseIrq
    \/ Shell

Spec == Init /\ [][Next]_vars

\* The CPU executes the loop, takes a pending interrupt as soon as the flag
\* and the mask allow it (interrupts are off only for moments, hence strong
\* fairness), and the PIT keeps firing.
Fairness ==
    /\ WF_vars(Shell)
    /\ SF_vars(TimerIrq) /\ SF_vars(KeyboardIrq) /\ SF_vars(MouseIrq)
    /\ WF_vars(PitFires)

LiveSpec == Spec /\ Fairness

------------------------------------------------------------------------------
(* Properties.                                                             *)

\* No lost wake-up: the CPU never sleeps while a byte is queued, wherever an
\* input interrupt falls relative to the queue check.
NeverSleepsOnInput == pc = "halted" => keys = <<>> /\ mouseBytes = 0

\* Every scancode the handler took is decoded, still queued, counted as
\* dropped or already reported: the handler's fetch_add and the loop's
\* swap(0) never lose or repeat a count, and no queue outgrows its capacity.
EveryByteIsAccounted ==
    /\ owed = Len(keys) + keyDropped
    /\ Len(keys) <= RB_SIZE /\ mouseBytes <= RB_SIZE

\* A key is read with the wrong Ctrl state only after a byte was dropped, or
\* after both Ctrl keys were down: poll keeps one flag for the two, and the
\* first release clears it.
CtrlIsTrackedUnlessDropped == misread => overflowed \/ bothDown

\* Queued scancodes are always read in the end, also in a kernel whose timer
\* never runs.
InputIsRead == keys # <<>> ~> keys = <<>>

\* The tasks spawned by the shell run to their end without any input, in a
\* kernel with the mouse feature: enable_runtime leaves the timer masked and
\* only enable_mouse lets IRQ0 through.
TasksFinish == mouseBuild => <>(work = 0)

==============================================================================
