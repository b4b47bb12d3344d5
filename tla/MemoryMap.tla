------------------------------ MODULE MemoryMap ------------------------------
(***************************************************************************)
(* The kernel's copy of the firmware memory map, memory.rs.  A map is a    *)
(* sequence of descriptors in the order the firmware gave them; addresses  *)
(* and lengths are in frames.                                              *)
(***************************************************************************)
EXTENDS Integers, Sequences

CONSTANT MAX_MEMORY_RANGES   \* capacity of the table

ASSUME MaxMemoryRangesAssumption == MAX_MEMORY_RANGES \in Nat

MemoryKinds ==
    {"Usable", "Kernel", "Firmware", "Acpi", "Device", "Runtime", "Unusable", "Reserved"}

Descriptor(start, frames, kind) ==
    [start |-> start, frames |-> frames, kind |-> kind]
Holds(r, f) == f >= r.start /\ f < r.start + r.frames

\* the frames some descriptor holds
Covered(map) ==
    UNION {map[k].start .. map[k].start + map[k].frames - 1 : k \in DOMAIN map}

\* kind_at: the kind of the first descriptor that holds f, if any does
KindAt(map, f) ==
    LET hits == {k \in DOMAIN map : Holds(map[k], f)}
    IN  IF hits = {} THEN "None"
        ELSE map[CHOOSE k \in hits : \A j \in hits : k <= j].kind

Maximum(a, b) == IF a >= b THEN a ELSE b
Minimum(a, b) == IF a <= b THEN a ELSE b

\* what a loop leaves that pushes parts[n] in its n-th round
Joined(parts) ==
    LET After[n \in 0 .. Len(parts)] ==
            IF n = 0 THEN <<>> ELSE After[n - 1] \o parts[n]
    IN  After[Len(parts)]

\* the closure push: a part of no length is left out
Pushed(r) == IF r.frames = 0 THEN <<>> ELSE <<r>>

\* mutant: the part of a descriptor behind the reservation is dropped
PiecesWithoutTail(r, start, end, kind) ==
    LET from == Maximum(start, r.start)
        to   == Minimum(end, r.start + r.frames)
    IN  IF from >= to THEN <<r>>
        ELSE Joined(<<Pushed(Descriptor(r.start, from - r.start, r.kind)),
                      Pushed(Descriptor(from, to - from, kind))>>)

\* a descriptor cut at the ends of the part of it that is reserved
Cut(r, from, to, kind) ==
    <<Pushed(Descriptor(r.start, from - r.start, r.kind)),
      Pushed(Descriptor(from, to - from, kind)),
      Pushed(Descriptor(to, r.start + r.frames - to, r.kind))>>

\* what becomes of one descriptor when [start, end) is reserved
Pieces(r, start, end, kind) ==
    LET from == Maximum(start, r.start)
        to   == Minimum(end, r.start + r.frames)
    IN  IF from >= to THEN <<r>> ELSE Joined(Cut(r, from, to, kind))

Reserved(map, start, frames, kind) ==
    Joined([k \in 1 .. Len(map) |-> Pieces(map[k], start, start + frames, kind)])

\* the Result of reserve_range; every error leaves the map as it was
ReserveError(map, start, frames, kind) ==
    IF frames = 0 THEN "InvalidRange"
    ELSE IF Len(Reserved(map, start, frames, kind)) > MAX_MEMORY_RANGES
    THEN "TooManyRanges"
    ELSE IF \A k \in DOMAIN map :
                Maximum(start, map[k].start)
                    >= Minimum(start + frames, map[k].start + map[k].frames)
    THEN "RangeNotFound"
    ELSE "None"

\* the Result of copy_from, which takes the descriptors one after the other
CopyError(list) ==
    IF \E k \in 1 .. Minimum(Len(list), MAX_MEMORY_RANGES) : list[k].frames = 0
    THEN "InvalidRange"
    ELSE IF Len(list) > MAX_MEMORY_RANGES THEN "TooManyRanges"
    ELSE IF Len(list) = 0 THEN "Empty"
    ELSE "None"

\* the usable runs FrameAllocator::new takes from the map
UsableRuns(map) ==
    Joined([k \in 1 .. Len(map) |->
               IF map[k].kind = "Usable"
               THEN <<[start |-> map[k].start, frames |-> map[k].frames]>> ELSE <<>>])

==============================================================================
