---------------------------- MODULE Ps2Handshake ----------------------------
(***************************************************************************)
(* initialize_controller of mouse/mod.rs, which sets up the mouse port of  *)
(* the PS/2 controller, and what interrupts::init does around it: errors   *)
(* are ignored, left-over bytes are drained, interrupts are enabled.       *)
(*                                                                         *)
(* The controller is external and works at its own pace: it takes a byte   *)
(* from its input buffer or answers through its output buffer at any time, *)
(* or never.  The byte at the head of the output buffer requests the       *)
(* interrupt of its device; the PIC, which masks both, may remember the    *)
(* request even when the byte is read by polling.  A byte is the set of    *)
(* its bits.                                                               *)
(***************************************************************************)
EXTENDS Integers, Sequences

CONSTANTS
    POLL_LIMIT,   \* PS2_READY_POLL_LIMIT
    DRAIN_LIMIT,  \* reads of drain_ps2_output
    Firmware,     \* configuration bytes the firmware may leave
    Stale         \* bytes the firmware may leave in the output buffer

ASSUME HandshakeAssumption ==
    /\ POLL_LIMIT \in Nat \ {0}
    /\ DRAIN_LIMIT \in Nat
    /\ Firmware \subseteq SUBSET (0 .. 7)

VARIABLES
    step,    \* the next command of the sequence
    polls,   \* polls of the current wait
    config,  \* the local config
    result,  \* what initialize_controller returned
    drained, \* reads of drain_ps2_output
    enabled, \* interrupts::init has enabled interrupts
    input,   \* controller: the input buffer, a sequence of at most one write
    target,  \* controller: what the next data byte is for
    output,  \* controller: bytes waiting at the data port
    last,    \* controller: the byte read last, which the port still shows
    latched, \* PIC: interrupts requested and not yet served
    cfg,     \* controller: the configuration byte
    reports, \* mouse: it sends movement packets
    misread  \* history: another byte was taken for the configuration

kernel == <<step, polls, config, result, drained, enabled>>
port == <<output, last, latched>>
device == <<input, target, port, cfg, reports, misread>>
vars == <<kernel, device>>

ACK == {1, 3, 4, 5, 6, 7}              \* 0xfa
MOUSE_ENABLE_PACKETS == {2, 4, 5, 6, 7} \* 0xf4
KEYBOARD_IRQ == 0
MOUSE_IRQ == 1
KEYBOARD_OFF == 4
MOUSE_OFF == 5

Command(c) == [port |-> "command", value |-> c]
Data(d) == [port |-> "data", value |-> d]

\* config |= 0b10; config &= !0b10_0000
NewConfig(c) == (c \cup {MOUSE_IRQ}) \ {MOUSE_OFF}

\* the sequence of writes and reads
Steps == <<
    Command("ENABLE_AUX"),
    Command("READ_CONFIG"),
    [port |-> "read", value |-> "config"],
    Command("WRITE_CONFIG"),
    Data(NewConfig(config)),
    Command("WRITE_TO_AUX"),
    Data(MOUSE_ENABLE_PACKETS),
    [port |-> "read", value |-> "ack"]>>

\* what is at the data port comes from the controller, from one of the devices
\* behind it, or from the time of the firmware; a byte of a movement says which
\* one it is part of
Byte(bits, source) == [bits |-> bits, source |-> source, origin |-> <<>>]
IrqOf(byte) == IF byte.source = "mouse" THEN MOUSE_IRQ ELSE KEYBOARD_IRQ

\* the firmware hands over a working keyboard; the buffer holds a single byte
ASSUME FirmwareAssumption ==
    /\ \A c \in Firmware : KEYBOARD_IRQ \in c
    /\ \A bytes \in Stale : bytes # <<>> =>
          \E bits \in SUBSET (0 .. 7), source \in {"firmware", "keyboard", "mouse"} :
              bytes = <<Byte(bits, source)>>

\* what the head of the output buffer requests, if the configuration lets it
Requested(bytes, c) ==
    IF bytes = <<>> THEN {} ELSE {IrqOf(Head(bytes))} \cap c

Running == result = "running"
Reading == Steps[step].port = "read"

------------------------------------------------------------------------------
(* The kernel.                                                             *)

Init ==
    /\ step = 1 /\ polls = 0 /\ config = {} /\ result = "running"
    /\ drained = 0 /\ enabled = FALSE
    /\ input = <<>> /\ target = "none" /\ reports = FALSE
    /\ cfg \in Firmware
    /\ output \in Stale /\ misread = FALSE
    /\ last = Byte({}, "firmware")
    /\ latched = Requested(output, cfg)

\* the kernel polls the byte at the head; the PIC keeps or forgets its request
TakeByte ==
    /\ output' = Tail(output)
    /\ last' = Head(output)
    /\ \E kept \in {latched, latched \ {IrqOf(Head(output))}} :
          latched' = kept \cup Requested(output', cfg)

\* ps2_write_command, ps2_write_data: the input buffer is free
Write ==
    /\ Running /\ ~ Reading
    /\ polls < POLL_LIMIT
    /\ input = <<>>
    /\ input' = <<Steps[step]>>
    /\ step' = step + 1 /\ polls' = 0
    /\ UNCHANGED <<config, result, drained, enabled, target, port, cfg, reports,
                   misread>>

\* ps2_read_data: the output buffer is full, with whatever came first
Read ==
    /\ Running /\ Reading
    /\ polls < POLL_LIMIT
    /\ output # <<>>
    /\ TakeByte
    /\ \/ /\ Steps[step].value = "config"
          /\ config' = Head(output).bits
          /\ misread' = (Head(output).source # "controller")
          /\ step' = step + 1
          /\ UNCHANGED result
       \/ /\ Steps[step].value = "ack"
          /\ result' = IF Head(output).bits = ACK THEN "Ok" ELSE "UnexpectedResponse"
          /\ UNCHANGED <<step, config, misread>>
    /\ polls' = 0
    /\ UNCHANGED <<drained, enabled, input, target, cfg, reports>>

NotReady == IF Reading THEN output = <<>> ELSE input # <<>>

\* mutant: the wait has no limit
PollForever ==
    /\ Running /\ NotReady
    /\ UNCHANGED vars

\* a poll of the status port that finds the controller not ready
Poll ==
    /\ Running /\ NotReady
    /\ polls < POLL_LIMIT
    /\ polls' = polls + 1
    /\ UNCHANGED <<step, config, result, drained, enabled, device>>

\* mutant: a missing configuration byte is taken for zero
TimeoutIgnored ==
    /\ Running /\ polls = POLL_LIMIT
    /\ step' = step + 1 /\ polls' = 0
    /\ result' = IF step = Len(Steps) THEN "Timeout" ELSE result
    /\ UNCHANGED <<config, drained, enabled, device>>

\* Err(Timeout) ends the sequence
Timeout ==
    /\ Running /\ polls = POLL_LIMIT
    /\ result' = "Timeout"
    /\ UNCHANGED <<step, polls, config, drained, enabled, device>>

\* drain_ps2_output, whatever initialize_controller returned
Drain ==
    /\ ~ Running /\ ~ enabled
    /\ output # <<>> /\ drained < DRAIN_LIMIT
    /\ TakeByte
    /\ drained' = drained + 1
    /\ UNCHANGED <<step, polls, config, result, enabled, input, target, cfg, reports,
                   misread>>

EnableInterrupts ==
    /\ ~ Running /\ ~ enabled
    /\ output = <<>> \/ drained = DRAIN_LIMIT
    /\ enabled' = TRUE
    /\ step' = 1 /\ polls' = 0 /\ config' = {} /\ drained' = 0  \* locals, gone
    /\ UNCHANGED <<result, device>>

Kernel == Write \/ Read \/ Poll \/ Timeout \/ Drain \/ EnableInterrupts

------------------------------------------------------------------------------
(* The controller.                                                         *)

\* it takes a byte from its input buffer and obeys
Obey ==
    /\ input # <<>>
    /\ input' = <<>>
    /\ LET value == Head(input).value
       IN  IF Head(input).port = "command"
           THEN /\ target' = CASE value = "WRITE_CONFIG" -> "config"
                               [] value = "WRITE_TO_AUX" -> "mouse"
                               [] OTHER -> "none"
                /\ cfg' = IF value = "ENABLE_AUX" THEN cfg \ {MOUSE_OFF} ELSE cfg
                /\ output' = IF value = "READ_CONFIG"
                                THEN Append(output, Byte(cfg, "controller")) ELSE output
                /\ UNCHANGED reports
           ELSE /\ target' = "none"
                /\ cfg' = IF target = "config" THEN value ELSE cfg
                /\ reports' = (reports \/ (target = "mouse" /\ MOUSE_OFF \notin cfg))
                /\ output' = IF target = "mouse" /\ MOUSE_OFF \notin cfg
                             THEN Append(output, Byte(ACK, "mouse")) ELSE output
    /\ latched' = latched \cup Requested(output', cfg')
    /\ UNCHANGED <<kernel, last, misread>>

------------------------------------------------------------------------------
(* Properties.                                                             *)

\* Wherever the sequence times out, and however late the controller obeys, the
\* keyboard keeps its interrupt unless another byte was read as the
\* configuration; what then happens to it is KeyboardStaysOn.  And Ok means what
\* the function's comment says, also with keys pressed and bytes left over: the
\* port is configured, the mouse sends packets and no configuration was misread.
HandshakeIsHonest ==
    /\ ~ misread => KEYBOARD_IRQ \in cfg
    /\ result = "Ok" =>
          /\ reports /\ MOUSE_IRQ \in cfg /\ MOUSE_OFF \notin cfg
          /\ KEYBOARD_IRQ \in cfg

\* "Bit 1 enables IRQ12; bit 5 enables the auxiliary device clock."
\* (mouse/mod.rs:431): initialize_controller means to change these two bits and
\* no others, so the keyboard keeps its interrupt.  A byte that reaches the port
\* before the answer to CMD_READ_CONFIG is read in its place and written back.
KeyboardStaysOn == KEYBOARD_IRQ \in cfg

\* A controller that stops answering, at any point, does not stop the boot.
BootContinues == <> enabled

==============================================================================
