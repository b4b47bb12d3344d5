---------------------------- MODULE MousePackets ----------------------------
(***************************************************************************)
(* The mouse driver's half of the way from the interrupt to the shell:     *)
(* push_mouse_byte, the ring buffer, and poll, which assembles packets of  *)
(* three bytes and decodes them (mouse/mod.rs).  A byte is a record: its   *)
(* bits and, as history, the movement and the part of its packet it comes  *)
(* from, or <<>> if the mouse did not send it as part of a packet.         *)
(***************************************************************************)
EXTENDS Integers, Sequences

CONSTANT RB_SIZE  \* capacity of the ring buffer

VARIABLES
    queue,    \* MOUSE_QUEUE
    bytes,    \* PacketState: the bytes of the packet so far, index is their number
    event,    \* what the last poll returned and, as history, from which bytes
    dropped   \* history: MOUSE_DROPPED has ever been counted up

vars == <<queue, bytes, event, dropped>>

None == [dx |-> 0, dy |-> 0, packet |-> <<>>]

\* the bits of a byte, what each stands for, and the number they make
Weight == <<1, 2, 4, 8, 16, 32, 64, 128>>
Bits(value) == {b \in 0 .. 7 : (value \div Weight[b + 1]) % 2 = 1}
Value(bits) ==
    LET of(b) == IF b \in bits THEN Weight[b + 1] ELSE 0
    IN  of(0) + of(1) + of(2) + of(3) + of(4) + of(5) + of(6) + of(7)

\* part 0, 1 or 2 of the packet for a movement (the mouse is external)
Encoded(m, part) ==
    CASE part = 0 -> {3} \cup (IF m.dx < 0 THEN {4} ELSE {})
                         \cup (IF m.dy < 0 THEN {5} ELSE {})
                         \cup (IF m.overflow THEN {6} ELSE {})
      [] part = 1 -> Bits(m.dx % 256)
      [] part = 2 -> Bits(m.dy % 256)

------------------------------------------------------------------------------

\* decode_packet
Decoded(p) ==
    IF {6, 7} \cap p[1].bits # {} THEN None
    ELSE [dx |-> Value(p[2].bits) - (IF 4 \in p[1].bits THEN 256 ELSE 0),
          dy |-> -(Value(p[3].bits) - (IF 5 \in p[1].bits THEN 256 ELSE 0)),
          packet |-> p]

Init ==
    /\ queue = <<>>
    /\ bytes = <<>> /\ event = None
    /\ dropped = FALSE

HasRoom == Len(queue) < RB_SIZE

\* push_mouse_byte
PushMouseByte(byte) ==
    /\ IF HasRoom
       THEN queue' = Append(queue, byte) /\ UNCHANGED dropped
       ELSE dropped' = TRUE /\ UNCHANGED queue
    /\ UNCHANGED <<bytes, event>>

\* mutant: any byte may begin a packet
OutOfSyncNever(byte) == FALSE

\* a header is expected and bit 3 is not set
OutOfSync(byte) == bytes = <<>> /\ 3 \notin byte.bits

\* poll, with a byte in the queue
Poll ==
    /\ queue # <<>>
    /\ queue' = Tail(queue)
    /\ LET packet == Append(bytes, Head(queue))
       IN  IF OutOfSync(Head(queue))
           THEN event' = None /\ UNCHANGED bytes
           ELSE IF Len(packet) < 3
           THEN event' = None /\ bytes' = packet
           ELSE event' = Decoded(packet) /\ bytes' = <<>>
    /\ UNCHANGED dropped

==============================================================================
