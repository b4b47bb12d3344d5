--------------------------- MODULE ShellLoopProofs ---------------------------
(***************************************************************************)
(* Theorems about ShellLoop, for every queue capacity, task load, report   *)
(* period and number of bytes.  The inductive invariant is LoopInv.        *)
(***************************************************************************)
EXTENDS ShellLoop, TLAPS

LoopStages == {"enableRuntime", "spawnTasks", "enableMouse", "pollMouse",
               "readTicks", "runTasks", "report", "reportMouse", "pollKeyboard",
               "disableInterrupts", "checkQueues", "enableAndHlt",
               "enableInterrupts", "halted"}

\* what the handler queues: everything but acknowledgements
KeyCodes == Scancodes \ {"ack"}

Types ==
    /\ mouseBuild \in BOOLEAN
    /\ pc \in LoopStages
    /\ interrupts \in BOOLEAN
    /\ output \in Scancodes \cup {"empty", "mouse"}
    /\ keys \in Seq(KeyCodes)
    /\ mouseBytes \in Nat
    /\ keyDropped \in Nat
    /\ mouseDropped \in Nat
    /\ ctrlHeld \in BOOLEAN
    /\ owed \in Int
    /\ overflowed \in BOOLEAN
    /\ ctrlsDown \in 0 .. 2
    /\ bothDown \in BOOLEAN
    /\ misread \in BOOLEAN

\* the decision to sleep is taken and carried out with interrupts off, on
\* queues that only a handler can fill
SleepIsDecidedInPeace ==
    /\ pc \in {"checkQueues", "enableAndHlt", "enableInterrupts"} => ~ interrupts
    /\ pc \in {"enableAndHlt", "halted"} => keys = <<>> /\ mouseBytes = 0

\* the Ctrl state in which a scancode was sent, and the one it leaves, while
\* only one Ctrl key is in use
DownBefore(code) == code \in {"ctrl-", "ctrl-key"}
DownAfter(code) == code \in {"ctrl+", "ctrl-key"}

\* the Ctrl state behind the last queued scancode
QueueEnd == IF keys = <<>> THEN ctrlHeld ELSE DownAfter(keys[Len(keys)])

\* From CTRL_HELD through the queue and the output buffer to the key itself,
\* each scancode finds the state its predecessor left.
CtrlChain ==
    /\ keys # <<>> => (ctrlHeld <=> DownBefore(keys[1]))
    /\ \A i \in 1 .. Len(keys) - 1 : DownAfter(keys[i]) <=> DownBefore(keys[i + 1])
    /\ output \in KeyCodes =>
           /\ QueueEnd <=> DownBefore(output)
           /\ DownAfter(output) <=> ctrlsDown > 0
    /\ output \notin KeyCodes => (QueueEnd <=> ctrlsDown > 0)

CtrlTrail ==
    /\ ctrlsDown = 2 => bothDown
    /\ ~ overflowed /\ ~ bothDown => CtrlChain /\ ~ misread

LoopInv ==
    /\ Types
    /\ SleepIsDecidedInPeace
    /\ EveryByteIsAccounted
    /\ CtrlTrail

USE ShellAssumption

------------------------------------------------------------------------------

\* The shell before its first instruction satisfies the inductive invariant.
LEMMA InitEstablishesLoopInv == Init => LoopInv
<1> SUFFICES ASSUME Init PROVE LoopInv
    OBVIOUS
<1>1. Types
    <2>1. mouseBuild \in BOOLEAN
        BY DEF Init, ShellAssumption
    <2>2. keys \in Seq(KeyCodes)
        BY DEF Init
    <2>3. interrupts \in BOOLEAN /\ ctrlHeld \in BOOLEAN /\ overflowed \in BOOLEAN
          /\ bothDown \in BOOLEAN /\ misread \in BOOLEAN
        BY DEF Init
    <2> QED  BY <2>1, <2>2, <2>3 DEF Init, Types, LoopStages, Scancodes
<1>2. SleepIsDecidedInPeace /\ EveryByteIsAccounted
    BY DEF Init, SleepIsDecidedInPeace, EveryByteIsAccounted
<1>3. CtrlTrail
    BY DEF Init, CtrlTrail, CtrlChain, QueueEnd, KeyCodes, Scancodes
<1> QED  BY <1>1, <1>2, <1>3 DEF LoopInv

\* The PIT and the mouse touch nothing the invariant speaks of but the output
\* buffer.
LEMMA PitAndMouseStep ==
    ASSUME LoopInv, PitFires \/ MouseSends
    PROVE  LoopInv'
<1> USE DEF LoopInv
<1>1. UNCHANGED <<mouseBuild, pc, interrupts, keys, mouseBytes, keyDropped,
                  mouseDropped, ctrlHeld, owed, overflowed, ctrlsDown, bothDown,
                  misread>>
    BY DEF PitFires, MouseSends, cpu, queues, history, ctrls
<1>2. output' = output \/ (output = "empty" /\ output' = "mouse")
    BY DEF PitFires, MouseSends
<1>3. Types'
    BY <1>1, <1>2 DEF Types
<1>4. SleepIsDecidedInPeace' /\ EveryByteIsAccounted'
    BY <1>1 DEF SleepIsDecidedInPeace, EveryByteIsAccounted
<1>5. CtrlTrail'
    <2>1. "empty" \notin KeyCodes /\ "mouse" \notin KeyCodes
        BY DEF KeyCodes, Scancodes
    <2>2. QueueEnd' <=> QueueEnd
        BY <1>1 DEF QueueEnd
    <2> QED  BY <1>1, <1>2, <2>1, <2>2 DEF CtrlTrail, CtrlChain
<1> QED  BY <1>3, <1>4, <1>5

\* The keyboard sends a code that fits the state of its Ctrl keys.
LEMMA KeyboardSendsStep ==
    ASSUME LoopInv, NEW code \in Scancodes, KeyboardSends(code)
    PROVE  LoopInv'
<1> USE DEF LoopInv
<1>1. UNCHANGED <<mouseBuild, pc, interrupts, keys, mouseBytes, keyDropped,
                  mouseDropped, ctrlHeld, owed, overflowed, misread>>
    BY DEF KeyboardSends, cpu, queues, history
<1>2. /\ output = "empty" /\ output' = code
      /\ code = "ctrl+" => ctrlsDown < 2 /\ ctrlsDown' = ctrlsDown + 1
      /\ code = "ctrl-" => ctrlsDown > 0 /\ ctrlsDown' = ctrlsDown - 1
      /\ code = "ctrl-key" => ctrlsDown > 0 /\ ctrlsDown' = ctrlsDown
      /\ code = "key" => ctrlsDown = 0 /\ ctrlsDown' = ctrlsDown
      /\ code = "ack" => ctrlsDown' = ctrlsDown
      /\ bothDown' = (bothDown \/ ctrlsDown' = 2)
    BY DEF KeyboardSends
<1>3. Types'
    BY <1>1, <1>2 DEF Types, Scancodes
<1>4. SleepIsDecidedInPeace' /\ EveryByteIsAccounted'
    BY <1>1 DEF SleepIsDecidedInPeace, EveryByteIsAccounted
<1>5. CtrlTrail'
    <2>1. ctrlsDown' = 2 => bothDown'
        BY <1>2
    <2>2. ASSUME ~ overflowed', ~ bothDown'
          PROVE  CtrlChain' /\ ~ misread'
        <3>1. ~ overflowed /\ ~ bothDown /\ ctrlsDown' # 2
            BY <2>2, <1>1, <1>2
        <3>2. CtrlChain /\ ~ misread
            BY <3>1 DEF CtrlTrail
        <3>3. (QueueEnd' <=> QueueEnd) /\ (QueueEnd <=> ctrlsDown > 0)
            BY <3>2, <1>1, <1>2 DEF CtrlChain, QueueEnd, KeyCodes, Scancodes
        <3>4. code \in KeyCodes =>
                  /\ DownBefore(code) <=> ctrlsDown > 0
                  /\ DownAfter(code) <=> ctrlsDown' > 0
            <4>1. ctrlsDown \in 0 .. 1 /\ ctrlsDown' \in 0 .. 1
                BY <1>3, <3>1, <2>1 DEF Types, CtrlTrail
            <4>2. CASE code = "ctrl+"
                BY <4>1, <4>2, <1>2 DEF DownBefore, DownAfter
            <4>3. CASE code = "ctrl-"
                BY <4>1, <4>3, <1>2 DEF DownBefore, DownAfter
            <4>4. CASE code = "key"
                BY <4>1, <4>4, <1>2 DEF DownBefore, DownAfter
            <4>5. CASE code = "ctrl-key"
                BY <4>1, <4>5, <1>2 DEF DownBefore, DownAfter
            <4> QED  BY <4>2, <4>3, <4>4, <4>5 DEF KeyCodes, Scancodes
        <3>5. code \notin KeyCodes => ctrlsDown' = ctrlsDown
            BY <1>2 DEF KeyCodes, Scancodes
        <3> QED  BY <1>1, <1>2, <3>2, <3>3, <3>4, <3>5 DEF CtrlChain
    <2> QED  BY <2>1, <2>2 DEF CtrlTrail
<1> QED  BY <1>3, <1>4, <1>5

\* The handlers run only while interrupts are on, so never between the check
\* of the queues and the hlt.
LEMMA HandlerStage ==
    ASSUME LoopInv, interrupts, Resume
    PROVE  /\ pc' \in LoopStages
           /\ pc' \notin {"checkQueues", "enableAndHlt", "enableInterrupts", "halted"}
BY DEF LoopInv, Types, LoopStages, SleepIsDecidedInPeace, Resume, LoopTop

\* The timer and mouse handlers leave the keyboard alone.
LEMMA TimerAndMouseIrqStep ==
    ASSUME LoopInv, TimerIrq \/ MouseIrq
    PROVE  LoopInv'
<1> USE DEF LoopInv
<1>1. UNCHANGED <<mouseBuild, interrupts, keys, keyDropped, ctrlHeld, owed,
                  overflowed, ctrlsDown, bothDown, misread>>
    BY DEF TimerIrq, MouseIrq, queues, history, ctrls
<1>2. output' = output \/ (output = "mouse" /\ output' = "empty")
    BY DEF TimerIrq, MouseIrq
<1>3. interrupts /\ Resume
    BY DEF TimerIrq, MouseIrq, Delivered
<1>4. mouseBytes' \in Nat /\ mouseBytes' <= RB_SIZE /\ mouseDropped' \in Nat
    BY DEF TimerIrq, MouseIrq, Types, EveryByteIsAccounted, Lower, queues
<1>5. Types'
    BY <1>1, <1>2, <1>3, <1>4, HandlerStage DEF Types
<1>6. SleepIsDecidedInPeace' /\ EveryByteIsAccounted'
    BY <1>1, <1>3, <1>4, HandlerStage DEF SleepIsDecidedInPeace, EveryByteIsAccounted
<1>7. CtrlTrail'
    <2>1. "empty" \notin KeyCodes /\ "mouse" \notin KeyCodes
        BY DEF KeyCodes, Scancodes
    <2>2. QueueEnd' <=> QueueEnd
        BY <1>1 DEF QueueEnd
    <2> QED  BY <1>1, <1>2, <2>1, <2>2 DEF CtrlTrail, CtrlChain
<1> QED  BY <1>5, <1>6, <1>7

\* The keyboard handler moves the code in the output buffer to the queue's end.
LEMMA KeyboardIrqStep ==
    ASSUME LoopInv, KeyboardIrq
    PROVE  LoopInv'
<1> USE DEF LoopInv
<1>1. UNCHANGED <<mouseBuild, interrupts, mouseBytes, mouseDropped, ctrlHeld,
                  ctrlsDown, bothDown, misread>>
    BY DEF KeyboardIrq, ctrls
<1>2. interrupts /\ Resume /\ output \in Scancodes /\ output' = "empty"
    BY DEF KeyboardIrq, Delivered
<1>3. "empty" \notin KeyCodes
    BY DEF KeyCodes, Scancodes
<1>4. CASE output = "ack"
    <2>1. UNCHANGED <<keys, keyDropped, owed, overflowed>>
        BY <1>4 DEF KeyboardIrq
    <2>2. Types'
        BY <1>1, <1>2, <2>1, HandlerStage DEF Types
    <2>3. SleepIsDecidedInPeace' /\ EveryByteIsAccounted'
        BY <1>1, <1>2, <2>1, HandlerStage DEF SleepIsDecidedInPeace, EveryByteIsAccounted
    <2>4. CtrlTrail'
        <3>1. output \notin KeyCodes /\ (QueueEnd' <=> QueueEnd)
            BY <1>1, <1>4, <2>1 DEF KeyCodes, QueueEnd
        <3> QED  BY <1>1, <1>2, <1>3, <2>1, <3>1 DEF CtrlTrail, CtrlChain
    <2> QED  BY <2>2, <2>3, <2>4
<1>5. CASE output # "ack" /\ Len(keys) < RB_SIZE
    <2>1. /\ output \in KeyCodes
          /\ owed' = owed + 1 /\ keys' = Append(keys, output)
          /\ UNCHANGED <<keyDropped, overflowed>>
        BY <1>2, <1>5 DEF KeyboardIrq, KeyCodes
    <2>2. /\ keys' \in Seq(KeyCodes) /\ keys' # <<>>
          /\ Len(keys') = Len(keys) + 1
          /\ \A i \in 1 .. Len(keys) : keys'[i] = keys[i]
          /\ keys'[Len(keys) + 1] = output
          /\ Len(keys) \in Nat
        BY <2>1 DEF Types
    <2>3. Types'
        BY <1>1, <1>2, <2>1, <2>2, HandlerStage DEF Types
    <2>4. SleepIsDecidedInPeace'
        BY <1>1, <1>2, HandlerStage DEF SleepIsDecidedInPeace
    <2>5. EveryByteIsAccounted'
        BY <1>1, <1>5, <2>1, <2>2 DEF EveryByteIsAccounted, Types
    <2>6. CtrlTrail'
        <3>1. ASSUME ~ overflowed, ~ bothDown
              PROVE  CtrlChain'
            <4>1. CtrlChain
                BY <3>1 DEF CtrlTrail
            <4>2. (QueueEnd <=> DownBefore(output)) /\ (DownAfter(output) <=> ctrlsDown > 0)
                BY <2>1, <4>1 DEF CtrlChain
            <4>3. QueueEnd' <=> DownAfter(output)
                BY <2>2 DEF QueueEnd
            <4>4. ctrlHeld' <=> DownBefore(keys'[1])
                <5>1. CASE keys = <<>>
                    BY <5>1, <1>1, <2>1, <4>2 DEF QueueEnd
                <5>2. CASE keys # <<>>
                    <6>1. keys'[1] = keys[1]
                        BY <5>2, <2>2 DEF Types
                    <6> QED  BY <5>2, <6>1, <1>1, <4>1 DEF CtrlChain
                <5> QED  BY <5>1, <5>2
            <4>5. ASSUME NEW i \in 1 .. Len(keys') - 1
                  PROVE  DownAfter(keys'[i]) <=> DownBefore(keys'[i + 1])
                <5>1. CASE i = Len(keys)
                    <6>1. keys # <<>> /\ keys'[i] = keys[Len(keys)] /\ keys'[i + 1] = output
                        BY <5>1, <4>5, <2>2
                    <6> QED  BY <6>1, <4>2 DEF QueueEnd
                <5>2. CASE i # Len(keys)
                    <6>1. i \in 1 .. Len(keys) - 1 /\ keys'[i] = keys[i] /\ keys'[i + 1] = keys[i + 1]
                        BY <5>2, <4>5, <2>2
                    <6> QED  BY <6>1, <4>1 DEF CtrlChain
                <5> QED  BY <5>1, <5>2
            <4> QED  BY <1>1, <1>2, <1>3, <2>2, <4>2, <4>3, <4>4, <4>5 DEF CtrlChain
        <3> QED  BY <1>1, <2>1, <3>1 DEF CtrlTrail
    <2> QED  BY <2>3, <2>4, <2>5, <2>6
<1>6. CASE output # "ack" /\ ~ (Len(keys) < RB_SIZE)
    <2>1. /\ owed' = owed + 1 /\ keyDropped' = keyDropped + 1
          /\ overflowed' = TRUE /\ keys' = keys
        BY <1>6 DEF KeyboardIrq
    <2>2. Types'
        BY <1>1, <1>2, <2>1, HandlerStage DEF Types
    <2>3. SleepIsDecidedInPeace'
        BY <1>1, <1>2, HandlerStage DEF SleepIsDecidedInPeace
    <2>4. EveryByteIsAccounted'
        BY <1>1, <2>1 DEF EveryByteIsAccounted, Types
    <2>5. CtrlTrail'
        BY <1>1, <2>1 DEF CtrlTrail
    <2> QED  BY <2>2, <2>3, <2>4, <2>5
<1> QED  BY <1>4, <1>5, <1>6

\* The steps of the loop that leave the keyboard queue and the Ctrl state alone.
LEMMA QuietShellStep ==
    ASSUME LoopInv,
           \/ EnableRuntime \/ SpawnTasks \/ MouseStep \/ ReadTicks \/ RunTasks
           \/ Report \/ DisableInterrupts \/ CheckQueues
           \/ EnableAndHlt \/ EnableInterrupts
    PROVE  LoopInv'
<1> USE DEF LoopInv
<1>1. UNCHANGED <<mouseBuild, output, keys, ctrlHeld, overflowed, ctrlsDown,
                  bothDown, misread>>
    BY DEF EnableRuntime, SpawnTasks, MouseStep, EnableMouse, PollMouse, ReportMouse,
        ReadTicks, RunTasks, Report, DisableInterrupts, CheckQueues, EnableAndHlt,
        EnableInterrupts, devices, queues, history, ctrls
<1>2. /\ mouseBytes' \in Nat /\ mouseBytes' <= mouseBytes
      /\ mouseDropped' \in Nat
    BY DEF Types, EnableRuntime, SpawnTasks, MouseStep, EnableMouse, PollMouse, ReportMouse,
        ReadTicks, RunTasks, Report, DisableInterrupts, CheckQueues, EnableAndHlt,
        EnableInterrupts, queues
<1>3. \/ UNCHANGED <<keyDropped, owed>>
      \/ (keyDropped' = 0 /\ owed' = owed - keyDropped)
    BY DEF Types, EnableRuntime, SpawnTasks, MouseStep, EnableMouse, PollMouse, ReportMouse,
        ReadTicks, RunTasks, Report, DisableInterrupts, CheckQueues, EnableAndHlt,
        EnableInterrupts, queues, history
<1>4. pc' \in LoopStages
    BY DEF Types, EnableRuntime, SpawnTasks, MouseStep, EnableMouse, PollMouse, ReportMouse,
        ReadTicks, RunTasks, Report, DisableInterrupts, CheckQueues, EnableAndHlt,
        EnableInterrupts, Goto, LoopTop, LoopStages
<1>5. Types'
    <2>1. interrupts' \in BOOLEAN
        BY DEF Types, EnableRuntime, SpawnTasks, MouseStep, EnableMouse, PollMouse,
            ReportMouse, ReadTicks, RunTasks, Report, DisableInterrupts, CheckQueues,
            EnableAndHlt, EnableInterrupts
    <2> QED  BY <1>1, <1>2, <1>3, <1>4, <2>1 DEF Types
<1>6. SleepIsDecidedInPeace'
    BY DEF Types, SleepIsDecidedInPeace, EnableRuntime, SpawnTasks, MouseStep, EnableMouse,
        PollMouse, ReportMouse, ReadTicks, RunTasks, Report, DisableInterrupts,
        CheckQueues, EnableAndHlt, EnableInterrupts, Goto, LoopTop, queues
<1>7. EveryByteIsAccounted'
    <2>1. Len(keys) \in Nat /\ Len(keys') = Len(keys)
        BY <1>1 DEF Types
    <2>2. owed \in Int /\ keyDropped \in Nat /\ mouseBytes \in Nat
        BY DEF Types
    <2>3. owed = Len(keys) + keyDropped /\ Len(keys) <= RB_SIZE /\ mouseBytes <= RB_SIZE
        BY DEF EveryByteIsAccounted
    <2>4. owed' = Len(keys') + keyDropped'
        BY <1>3, <2>1, <2>2, <2>3
    <2>5. mouseBytes' <= RB_SIZE
        BY <1>2, <2>2, <2>3 DEF ShellAssumption
    <2> QED  BY <2>1, <2>3, <2>4, <2>5 DEF EveryByteIsAccounted
<1>8. CtrlTrail'
    <2>1. QueueEnd' <=> QueueEnd
        BY <1>1 DEF QueueEnd
    <2> QED  BY <1>1, <2>1 DEF CtrlTrail, CtrlChain
<1> QED  BY <1>5, <1>6, <1>7, <1>8

\* keyboard::poll takes the first queued code; it was sent in the state that
\* CTRL_HELD shows.
LEMMA PollKeyboardStep ==
    ASSUME LoopInv, PollKeyboard
    PROVE  LoopInv'
<1> USE DEF LoopInv
<1>1. UNCHANGED <<mouseBuild, interrupts, output, mouseBytes, keyDropped,
                  mouseDropped, overflowed, ctrlsDown, bothDown>>
    BY DEF PollKeyboard, devices, ctrls
<1>2. pc' = "disableInterrupts"
    BY DEF PollKeyboard, Goto
<1>3. SleepIsDecidedInPeace'
    BY <1>2 DEF SleepIsDecidedInPeace
<1>4. CASE keys = <<>>
    <2>1. UNCHANGED <<keys, ctrlHeld, owed, misread>>
        BY <1>4 DEF PollKeyboard
    <2>2. Types' /\ EveryByteIsAccounted'
        BY <1>1, <1>2, <2>1 DEF Types, LoopStages, EveryByteIsAccounted
    <2>3. CtrlTrail'
        <3>1. QueueEnd' <=> QueueEnd
            BY <1>1, <2>1 DEF QueueEnd
        <3> QED  BY <1>1, <2>1, <3>1 DEF CtrlTrail, CtrlChain
    <2> QED  BY <1>3, <2>2, <2>3
<1>5. CASE keys # <<>>
    <2>1. /\ keys' = Tail(keys) /\ owed' = owed - 1
          /\ ctrlHeld' = CtrlAfter(keys[1])
          /\ misread' = (misread \/ (keys[1] = "key" /\ ctrlHeld)
                            \/ (keys[1] = "ctrl-key" /\ ~ ctrlHeld))
        BY <1>5 DEF PollKeyboard, Types
    <2>2. /\ keys' \in Seq(KeyCodes) /\ keys[1] \in KeyCodes
          /\ Len(keys) \in Nat \ {0} /\ Len(keys') = Len(keys) - 1
          /\ \A i \in 1 .. Len(keys') : keys'[i] = keys[i + 1]
        BY <1>5, <2>1 DEF Types
    <2>3. Types'
        <3>1. ctrlHeld' \in BOOLEAN
            BY <2>1 DEF Types, CtrlAfter
        <3>2. misread' \in BOOLEAN
            BY <2>1 DEF Types
        <3> QED  BY <1>1, <1>2, <2>1, <2>2, <3>1, <3>2 DEF Types, LoopStages
    <2>4. EveryByteIsAccounted'
        BY <1>1, <2>1, <2>2 DEF EveryByteIsAccounted, Types
    <2>5. CtrlTrail'
        <3>1. ASSUME ~ overflowed, ~ bothDown
              PROVE  CtrlChain' /\ ~ misread'
            <4>1. CtrlChain /\ ~ misread
                BY <3>1 DEF CtrlTrail
            <4>2. ctrlHeld <=> DownBefore(keys[1])
                BY <1>5, <4>1 DEF CtrlChain
            <4>3. ~ misread'
                BY <2>1, <4>1, <4>2 DEF DownBefore
            <4>4. ctrlHeld' <=> DownAfter(keys[1])
                BY <2>1, <2>2, <4>2 DEF DownBefore, DownAfter, CtrlAfter, KeyCodes, Scancodes
            <4>5. CASE keys' = <<>>
                <5>1. Len(keys) = 1
                    BY <4>5, <2>2
                <5>2. (QueueEnd <=> DownAfter(keys[1])) /\ (QueueEnd' <=> ctrlHeld')
                    BY <1>5, <4>5, <5>1 DEF QueueEnd
                <5> QED  BY <1>1, <2>2, <4>1, <4>3, <4>4, <4>5, <5>1, <5>2 DEF CtrlChain
            <4>6. CASE keys' # <<>>
                <5>1. Len(keys') \in Nat \ {0} /\ Len(keys) - 1 = Len(keys')
                    BY <4>6, <2>2
                <5>2. QueueEnd' <=> QueueEnd
                    BY <1>5, <4>6, <5>1, <2>2 DEF QueueEnd
                <5>3. ctrlHeld' <=> DownBefore(keys'[1])
                    <6>1. keys'[1] = keys[2] /\ 1 \in 1 .. Len(keys) - 1
                        BY <5>1, <2>2
                    <6>2. DownAfter(keys[1]) <=> DownBefore(keys[1 + 1])
                        BY <6>1, <4>1 DEF CtrlChain
                    <6> QED  BY <6>1, <6>2, <4>4
                <5>4. ASSUME NEW i \in 1 .. Len(keys') - 1
                      PROVE  DownAfter(keys'[i]) <=> DownBefore(keys'[i + 1])
                    <6>1. i + 1 \in 1 .. Len(keys) - 1 /\ keys'[i] = keys[i + 1]
                          /\ keys'[i + 1] = keys[(i + 1) + 1]
                        BY <5>4, <5>1, <2>2
                    <6> QED  BY <6>1, <4>1 DEF CtrlChain
                <5> QED  BY <1>1, <4>1, <4>3, <5>2, <5>3, <5>4 DEF CtrlChain
            <4> QED  BY <4>5, <4>6
        <3> QED  BY <1>1, <3>1 DEF CtrlTrail
    <2> QED  BY <1>3, <2>3, <2>4, <2>5
<1> QED  BY <1>4, <1>5

\* Every step keeps the inductive invariant.
LEMMA NextPreservesLoopInv == LoopInv /\ [Next]_vars => LoopInv'
<1> SUFFICES ASSUME LoopInv, [Next]_vars PROVE LoopInv'
    OBVIOUS
<1>1. CASE PitFires \/ MouseSends
    BY <1>1, PitAndMouseStep
<1>2. CASE \E code \in Scancodes : KeyboardSends(code)
    BY <1>2, KeyboardSendsStep
<1>3. CASE TimerIrq \/ MouseIrq
    BY <1>3, TimerAndMouseIrqStep
<1>4. CASE KeyboardIrq
    BY <1>4, KeyboardIrqStep
<1>5. CASE Shell
    BY <1>5, QuietShellStep, PollKeyboardStep DEF Shell
<1>6. CASE UNCHANGED vars
    <2>1. UNCHANGED <<mouseBuild, pc, interrupts, output, keys, mouseBytes,
                      keyDropped, mouseDropped, ctrlHeld, owed, overflowed,
                      ctrlsDown, bothDown, misread>>
        BY <1>6 DEF vars, cpu, devices, queues, history, ctrls
    <2>2. QueueEnd' <=> QueueEnd
        BY <2>1 DEF QueueEnd
    <2> QED
        BY <2>1, <2>2 DEF LoopInv, Types, SleepIsDecidedInPeace, EveryByteIsAccounted,
            CtrlTrail, CtrlChain
<1> QED  BY <1>1, <1>2, <1>3, <1>4, <1>5, <1>6 DEF Next

\* The inductive invariant holds in every reachable state.
LEMMA LoopInvHolds == Spec => []LoopInv
BY InitEstablishesLoopInv, NextPreservesLoopInv, PTL DEF Spec

------------------------------------------------------------------------------

\* No lost wake-up: hlt is reached only with empty queues, wherever the input
\* interrupts fall relative to cli, the check and sti.
THEOREM ShellNeverSleepsOnInput == Spec => []NeverSleepsOnInput
<1>1. LoopInv => NeverSleepsOnInput
    BY DEF LoopInv, SleepIsDecidedInPeace, NeverSleepsOnInput
<1> QED  BY <1>1, LoopInvHolds, PTL

\* The handler's fetch_add and the loop's swap(0) never lose or repeat a drop,
\* and no queue outgrows its capacity.
THEOREM ShellAccountsForEveryByte == Spec => []EveryByteIsAccounted
<1>1. LoopInv => EveryByteIsAccounted
    BY DEF LoopInv
<1> QED  BY <1>1, LoopInvHolds, PTL

\* While no byte is dropped and one Ctrl key is used at a time, every key is
\* decoded with the Ctrl state it was typed in, however late it is polled.
THEOREM ShellTracksCtrl == Spec => []CtrlIsTrackedUnlessDropped
<1>1. LoopInv => CtrlIsTrackedUnlessDropped
    BY DEF LoopInv, CtrlTrail, CtrlIsTrackedUnlessDropped
<1> QED  BY <1>1, LoopInvHolds, PTL

==============================================================================
