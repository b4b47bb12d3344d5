------------------------------- MODULE MCBoot -------------------------------
(***************************************************************************)
(* Small machines for Boot.  Memory is four blocks in any physical order,  *)
(* perhaps with a hole before one of them: the image's, the one with the   *)
(* firmware stack, and two usable ones.  The firmware lists them by        *)
(* ascending or descending address.  The framebuffer is a device window    *)
(* above memory, near or far, with or without a descriptor of its own: a   *)
(* far one needs page tables of its own at every level.                    *)
(***************************************************************************)
EXTENDS Boot

CONSTANTS
    UsableSizes,  \* lengths of the first usable block
    Tops,         \* where the device window starts
    DriverPages   \* pages mapped at run time, outside the recursive window

\* the pages of the stack block that hold the markers of the two callees of
\* boot::initialize, up to two pages apart: as far as half a reserved window
Markers == (0 .. 2) \X (0 .. 2)

\* what callers of map_page ask for: a read-only page, and one for the user,
\* cached and executable
Rights == {{"PRESENT", "NO_EXECUTE"}, {"PRESENT", "WRITABLE", "USER_ACCESSIBLE"}}

Blocks == {"image", "stack", "usable1", "usable2"}
KindOf == [image |-> "Kernel", stack |-> "Firmware",
           usable1 |-> "Usable", usable2 |-> "Usable"]
SizeOf(n) == [image |-> 2, stack |-> 3, usable1 |-> n, usable2 |-> 2]
Orders == {o \in Blocks \X Blocks \X Blocks \X Blocks :
              {o[k] : k \in 1 .. 4} = Blocks}

\* the first frame of the k-th block; the hole, if any, is before block hole
StartOf(o, size, hole, k) ==
    (IF k >= 2 THEN size[o[1]] ELSE 0) + (IF k >= 3 THEN size[o[2]] ELSE 0)
    + (IF k >= 4 THEN size[o[3]] ELSE 0) + (IF k >= hole THEN 1 ELSE 0)

MachineOf(o, n, hole, descending, described, markers, top) ==
    LET size == SizeOf(n)
        block(k) == Descriptor(StartOf(o, size, hole, k), size[o[k]], KindOf[o[k]])
        listed == IF descending
                  THEN <<block(4), block(3), block(2), block(1)>>
                  ELSE <<block(1), block(2), block(3), block(4)>>
        at(name) == block(CHOOSE k \in 1 .. 4 : o[k] = name)
        stack == at("stack").start
    IN  [map |-> IF described
                 THEN Append(listed, Descriptor(top, 4, "Reserved")) ELSE listed,
         image |-> [start |-> at("image").start, frames |-> at("image").frames],
         framebuffer |-> [start |-> top + 1, frames |-> 2],
         heapMarker |-> stack + markers[1],
         pagingMarker |-> stack + markers[2],
         \* drivers run on one machine for each place of the framebuffer
         driverPages |-> IF /\ o = <<"image", "stack", "usable1", "usable2">> /\ hole = 3
                            /\ described /\ ~ descending /\ markers = <<1, 1>>
                         THEN DriverPages ELSE {},
         driverFrames |-> {top + 1, at("usable1").start}]

RegularMachines ==
    {MachineOf(o, n, hole, descending, described, markers, top) :
        o \in Orders, n \in UsableSizes, hole \in {2, 3, 5},
        descending \in BOOLEAN, described \in BOOLEAN, markers \in Markers,
        top \in Tops}

\* the first one with a descriptor of no length behind the others
EmptyDescriptor ==
    LET m == CHOOSE m \in RegularMachines : TRUE
    IN  [m EXCEPT !.map = Append(@, Descriptor(m.image.start, 0, "Reserved"))]

SmallMachines == RegularMachines \cup {EmptyDescriptor}

==============================================================================
