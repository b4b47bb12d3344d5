---------------------------- MODULE MouseDriver -----------------------------
(***************************************************************************)
(* The whole path of the mouse: the handshake of Ps2Handshake at boot, the *)
(* unmasking of the two device interrupts (enable_runtime before the       *)
(* shell, enable_mouse when the shell is ready), the two interrupt         *)
(* handlers, which share one data port, and the packets of MousePackets.   *)
(*                                                                         *)
(* The user moves the mouse and presses keys at any time; what becomes of  *)
(* the keys behind the keyboard's handler is ShellLoop's.  The controller  *)
(* holds back both devices while a byte is waiting.                        *)
(***************************************************************************)
EXTENDS Ps2Handshake

CONSTANTS
    RB_SIZE,  \* capacity of the mouse's ring buffer
    Mice,     \* sets of movements, records of dx, dy and overflow
    Scancodes \* what keys send

\* a movement has nine bits in each direction
Movements == [dx : -256 .. 255, dy : -256 .. 255, overflow : BOOLEAN]

ASSUME MouseAssumption ==
    /\ RB_SIZE \in Nat
    /\ \A moves \in Mice : moves # {} /\ moves \subseteq Movements

RESEND == {1, 2, 3, 4, 5, 6, 7}   \* 0xfe

\* the keyboard's answers are no scancodes
ASSUME KeyAssumption ==
    Scancodes \subseteq (SUBSET (0 .. 7)) \ {ACK, RESEND}

\* a packet that starts with these bits is not reported
IsNoHeader(bits) == 3 \notin bits \/ {6, 7} \cap bits # {}

VARIABLES
    motions,   \* the movements this mouse makes (never changes)
    unmasked,  \* device interrupts the PIC lets through
    sending,   \* mouse: the movement being sent
    part,      \* mouse: the bytes of it already sent
    queue, bytes, event, dropped,   \* of MousePackets
    stray,     \* history: a byte of the mouse went elsewhere, or another byte came
    misled,    \* history: one of these others has the bits of a header
    early,     \* history: the mouse moved before it was unmasked
    phantom    \* history: the keyboard queue got a byte no key has sent

Packets == INSTANCE MousePackets

packetVars == <<queue, bytes, event, dropped>>
mouseVars == <<motions, sending, part>>
history == <<stray, misled, early, phantom>>
allVars == <<vars, unmasked, mouseVars, packetVars, history>>

DriverInit ==
    /\ Init
    /\ Packets!Init
    /\ motions \in Mice /\ sending \in motions /\ part = 0
    /\ unmasked = {}
    /\ stray = FALSE /\ misled = FALSE /\ early = FALSE /\ phantom = FALSE

------------------------------------------------------------------------------
(* Boot.                                                                   *)

\* bytes of movements that polling takes from the mouse
Taken == output' # output /\ output # <<>> /\ Head(output).origin # <<>>

Handshake ==
    /\ Kernel
    /\ stray' = (stray \/ Taken)
    /\ UNCHANGED <<unmasked, mouseVars, packetVars, misled, early, phantom>>

Answer == Obey /\ UNCHANGED <<unmasked, mouseVars, packetVars, history>>

\* boot::initialize, then shell::init
EnableRuntime ==
    /\ enabled /\ unmasked = {}
    /\ unmasked' = {KEYBOARD_IRQ}
    /\ UNCHANGED <<vars, mouseVars, packetVars, history>>

\* mutant: the mouse is unmasked only if its set-up succeeded
EnableMouseIfOk ==
    /\ KEYBOARD_IRQ \in unmasked /\ MOUSE_IRQ \notin unmasked
    /\ KEYBOARD_IRQ \notin latched
    /\ unmasked' = IF result = "Ok" THEN unmasked \cup {MOUSE_IRQ} ELSE unmasked
    /\ UNCHANGED <<vars, mouseVars, packetVars, history>>

EnableMouse ==
    /\ KEYBOARD_IRQ \in unmasked /\ MOUSE_IRQ \notin unmasked
    /\ KEYBOARD_IRQ \notin latched    \* a request that waits is served first
    /\ unmasked' = unmasked \cup {MOUSE_IRQ}
    /\ UNCHANGED <<vars, mouseVars, packetVars, history>>

------------------------------------------------------------------------------
(* The two devices and the interrupt handlers.                             *)

\* a scancode enters the empty output buffer, during the handshake too: the
\* sequence never turns the keyboard's port off
KeyPressed ==
    /\ output = <<>> /\ KEYBOARD_OFF \notin cfg
    /\ \E bits \in Scancodes : output' = <<Byte(bits, "keyboard")>>
    /\ latched' = latched \cup Requested(output', cfg)
    /\ UNCHANGED <<kernel, input, target, last, cfg, reports, misread,
                   mouseVars, unmasked, packetVars, history>>

\* the next byte of a movement enters the empty output buffer
MouseSends ==
    /\ reports /\ output = <<>>
    /\ LET byte == [bits |-> Packets!Encoded(sending, part), source |-> "mouse",
                    origin |-> <<sending, part>>]
       IN  /\ output' = <<byte>>
           /\ latched' = latched \cup Requested(output', cfg)
    /\ part' = (part + 1) % 3
    /\ IF part = 2 THEN sending' \in motions ELSE UNCHANGED sending
    /\ early' = (early \/ MOUSE_IRQ \notin unmasked)
    /\ UNCHANGED <<kernel, input, target, last, cfg, reports, misread, motions,
                   unmasked, packetVars, stray, misled, phantom>>

\* inb(PS2_DATA) in a handler: the head of the buffer or the old byte again
AtPort == IF output = <<>> THEN last ELSE Head(output)
Serve(irq) ==
    /\ irq \in latched \cap unmasked
    /\ last' = AtPort
    /\ output' = IF output = <<>> THEN <<>> ELSE Tail(output)
    /\ latched' = (latched \ {irq}) \cup Requested(output', cfg)
    /\ UNCHANGED <<kernel, input, target, cfg, reports, misread, unmasked,
                   mouseVars, early>>

\* mutant: the mouse's answers are keys like any other byte
NoKeyNever(byte) == FALSE

\* 0xfa and 0xfe are protocol bytes, not scancodes
NoKey(byte) == byte.bits \in {ACK, RESEND}

KeyboardHandler ==
    /\ Serve(KEYBOARD_IRQ)
    /\ phantom' = (phantom \/ (~ NoKey(AtPort) /\ AtPort.source # "keyboard"))
    /\ stray' = (stray \/ (output # <<>> /\ AtPort.origin # <<>>))
    /\ UNCHANGED <<packetVars, misled>>

\* served after the keyboard's if both wait
MouseHandler ==
    /\ KEYBOARD_IRQ \notin latched \cap unmasked
    /\ Serve(MOUSE_IRQ)
    /\ Packets!PushMouseByte(AtPort)
    /\ stray' = (stray \/ output = <<>> \/ AtPort.origin = <<>>)
    /\ misled' = (misled \/ (AtPort.origin = <<>> /\ ~ IsNoHeader(AtPort.bits)))
    /\ UNCHANGED phantom

\* the shell's loop, which starts when it has unmasked the mouse
ShellPolls ==
    /\ MOUSE_IRQ \in unmasked
    /\ Packets!Poll
    /\ UNCHANGED <<vars, unmasked, mouseVars, history>>

Idle == MOUSE_IRQ \in unmasked /\ UNCHANGED allVars

DriverNext ==
    \/ Handshake \/ Answer \/ EnableRuntime \/ EnableMouse
    \/ KeyPressed \/ MouseSends \/ KeyboardHandler \/ MouseHandler \/ ShellPolls \/ Idle

\* the processor keeps running, and takes the interrupts that are unmasked;
\* nothing is asked of the controller, of the mouse or of the user
DriverSpec ==
    /\ DriverInit /\ [][DriverNext]_allVars
    /\ WF_allVars(Handshake)
    /\ WF_allVars(EnableRuntime) /\ WF_allVars(EnableMouse)
    /\ WF_allVars(KeyboardHandler) /\ WF_allVars(MouseHandler)

------------------------------------------------------------------------------
(* Properties.                                                             *)

\* no byte of a movement can be taken for a header
ClearMotions == \A m \in motions, p \in {1, 2} : 3 \notin Packets!Encoded(m, p)

\* Unless a byte was dropped every movement reported to the shell is one the
\* mouse made, with its signs, turned to screen coordinates; movements that
\* overflowed are not reported.  A stray byte from the handshake, or a header
\* lost to it, needs movements whose bytes have bit 3 clear, the only bit the
\* parser looks at; with them even dropped bytes never make it start a packet
\* anywhere but at a header.  Left out is a stray byte that itself has the bits
\* of a header, such as the scancode 0x1e read by a remembered IRQ12: the parser
\* cannot tell it from one (misled).
PacketsAreGenuine ==
    /\ event.packet # <<>> /\ ~ dropped /\ ~ misled /\ (ClearMotions \/ ~ stray) =>
          \E m \in motions :
             /\ \A k \in 1 .. 3 : event.packet[k].origin = <<m, k - 1>>
             /\ ~ m.overflow
             /\ event.dx = m.dx /\ event.dy = -m.dy
    /\ bytes # <<>> /\ ClearMotions =>
          bytes[1].origin = <<>> \/ bytes[1].origin[2] = 0

\* What the handshake leaves behind never types a key: if it succeeded and the
\* mouse rested until it was unmasked, the keyboard's queue gets no byte of the
\* firmware, the controller or the mouse, whatever requests the PIC remembers and
\* whichever keys are pressed meanwhile.
NoPhantomKeys == phantom => result # "Ok" \/ early

\* No byte stays at the data port, where it would block both devices: the
\* buffer is emptied again and again, also when the handshake broke off.  Needs
\* a configuration that was not misread: one without the keyboard's bit leaves
\* the next key at the port for ever.
PortIsServed == []~misread => []<>(output = <<>>)

==============================================================================
