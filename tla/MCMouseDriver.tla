---------------------------- MODULE MCMouseDriver ---------------------------
(* What the firmware may hand over, movements and keys, for MouseDriver.   *)
EXTENDS MouseDriver

\* the keyboard's interrupt and translation on; the mouse port on or off
FirmwareConfigs == {{0, 6} \cup mouse : mouse \in {{}, {5}}}

\* nothing, or the acknowledgement the comment before drain_ps2_output speaks of
MaybeAck == {<<>>, <<Byte(ACK, "mouse")>>}
NothingLeft == {<<>>}

Move(dx, dy, overflow) == [dx |-> dx, dy |-> dy, overflow |-> overflow]

\* bit 3 occurs in data bytes; then bit 3 clear in all of them, with an
\* overflow; both signs, and both ends of the range
SmallMice == {
    {Move(255, -8, FALSE)},
    {Move(-16, 247, FALSE), Move(3, -256, TRUE)}}

\* 0x1e, the key A: bit 0 of a configuration is clear, and it looks like a header
KeyA == {{1, 2, 3, 4}}
==============================================================================
