-------------------------------- MODULE Boot --------------------------------
(***************************************************************************)
(* The memory half of the start-up sequence: allocator::initialize_heap    *)
(* (memory map, reservations, frame allocator, heap) followed by           *)
(* paging::initialize (identity mappings, then CR3), as boot::initialize   *)
(* calls them.  Each action is one call of that sequence; an error ends it *)
(* in fatal(), modelled by stage = "halted".  Once paging is active the    *)
(* kernel's drivers may map and unmap pages with the public calls.         *)
(*                                                                         *)
(* The environment is the machine: the firmware's map, where it put the    *)
(* image and the framebuffer, on which stack page the stack_marker local   *)
(* of each of the two functions lies, and the pages and frames its drivers *)
(* map.  Nothing bounds the distance of the two markers.                   *)
(***************************************************************************)
EXTENDS Integers, Sequences, FiniteSets, MemoryMap, Paging

CONSTANTS
    HALF_WINDOW,  \* 32: half the stack window initialize_heap reserves
    Machines,     \* the machines the kernel is started on
    DriverFlags   \* the flags that callers of map_page pass

ASSUME WindowAssumption == HALF_WINDOW \in Nat \ {0}

\* the x86_64 mappers panic on a new table without PRESENT
ASSUME FlagsAssumption ==
    \A flags \in DriverFlags :
        /\ flags \subseteq TableRights \cup {"NO_CACHE", "NO_EXECUTE"}
        /\ "PRESENT" \in flags

VARIABLES
    machine,   \* the machine (never changes)
    stage,     \* the call boot::initialize makes next, "active" or "halted"
    error,     \* why it halted
    map,       \* MEMORY_MAP
    heap,      \* HEAP_START and HEAP_SIZE as a run, frames = 0 before
    tables,    \* PAGE_TABLE_STORAGE: the root and the tables in use
    ranges, managed, free_frames, owned, granted, lost  \* the frame allocator

frameVars == <<ranges, managed, free_frames, owned, granted, lost>>
vars == <<machine, stage, error, map, heap, tables, frameVars>>

Frames == INSTANCE FrameAllocator WITH
    MAX_FREE_RANGES <- MAX_MEMORY_RANGES, UsableLists <- {}, Requests <- {}

Run(r) == r.start .. r.start + r.frames - 1
SaturatingSub(a, b) == IF a >= b THEN a - b ELSE 0

\* memory::reserve around initialize_heap's stack page
ReservedWindow(page) ==
    [start |-> SaturatingSub(page, HALF_WINDOW), frames |-> 2 * HALF_WINDOW]

\* mutant: the window is mapped as large as it was reserved
MappedWindowWhole(page) ==
    [start |-> SaturatingSub(page, HALF_WINDOW), frames |-> 2 * HALF_WINDOW]

\* map_range around paging::initialize's stack page
MappedWindow(page) ==
    [start |-> SaturatingSub(page, HALF_WINDOW - 1),
     frames |-> 2 * (HALF_WINDOW - 1)]

FirmwareRange == [start : Nat, frames : Nat, kind : MemoryKinds]

\* what boot finds: the firmware describes no frame twice
ASSUME FirmwareAssumption ==
    \A m \in Machines :
        /\ m.map \in Seq(FirmwareRange)
        /\ \A j, k \in 1 .. Len(m.map) : j # k => Run(m.map[j]) \cap Run(m.map[k]) = {}
        /\ m.image \in [start : Nat, frames : Nat]
        /\ m.framebuffer \in [start : Nat, frames : Nat]
        /\ m.heapMarker \in Nat /\ m.pagingMarker \in Nat

\* the two markers, locals of two functions that boot::initialize calls, lie on
\* one page or on neighbours; nothing in the code ensures it
NearMarkers(m) == m.heapMarker - m.pagingMarker \in -1 .. 1

\* the frames boot may identity-map; physical addresses end far below the upper
\* half of the virtual ones, where the recursive window is
Physical(m) ==
    Covered(m.map) \cup Run(m.image) \cup Run(m.framebuffer)
        \cup Run(MappedWindow(m.pagingMarker))

ASSUME AddressAssumption ==
    \A m \in Machines :
        /\ \A p \in Physical(m) : IsCanonical(p) => ~ InRecursiveWindow(p)
        /\ m.driverPages \subseteq Nat /\ m.driverFrames \subseteq Nat
        /\ \A p \in m.driverPages : ~ InRecursiveWindow(p)

------------------------------------------------------------------------------

Init ==
    /\ machine \in Machines
    /\ stage = "memory" /\ error = "None"
    /\ map = <<>>
    /\ heap = [start |-> 0, frames |-> 0]
    /\ tables = NewRoot
    /\ ranges = <<>> /\ managed = <<>> /\ free_frames = 0
    /\ owned = {} /\ granted = {} /\ lost = {}

\* fatal(): the kernel prints and halts; what was done so far stays done
Fail(reason) ==
    /\ stage' = "halted"
    /\ error' = reason

\* one call that reserves a run in the map
ReserveStep(from, to, run) ==
    /\ stage = from
    /\ LET err == ReserveError(map, run.start, run.frames, "Kernel")
       IN  IF err = "None"
           THEN /\ map' = Reserved(map, run.start, run.frames, "Kernel")
                /\ stage' = to
                /\ UNCHANGED error
           ELSE Fail(err) /\ UNCHANGED map
    /\ UNCHANGED <<machine, tables, frameVars>>

\* memory::initialize: copy the firmware map, then reserve the framebuffer as
\* Device or, outside every descriptor, append it
InitializeMemory ==
    LET fb  == machine.framebuffer
        err == ReserveError(machine.map, fb.start, fb.frames, "Device")
    IN  /\ stage = "memory"
        /\ IF CopyError(machine.map) # "None"
           THEN Fail(CopyError(machine.map)) /\ UNCHANGED map
           ELSE IF err = "None"
           THEN /\ map' = Reserved(machine.map, fb.start, fb.frames, "Device")
                /\ stage' = "image" /\ UNCHANGED error
           ELSE IF err = "RangeNotFound" /\ Len(machine.map) < MAX_MEMORY_RANGES
           THEN /\ map' = Append(machine.map, Descriptor(fb.start, fb.frames, "Device"))
                /\ stage' = "image" /\ UNCHANGED error
           ELSE /\ Fail(IF err = "RangeNotFound" THEN "InvalidRange" ELSE err)
                /\ UNCHANGED map
        /\ UNCHANGED <<machine, heap, tables, frameVars>>

ReserveImage == ReserveStep("image", "stack", machine.image) /\ UNCHANGED heap

\* mutant: the stack window is not reserved
SkipReserveStack ==
    /\ stage = "stack"
    /\ stage' = "frames"
    /\ UNCHANGED <<machine, error, map, heap, tables, frameVars>>

ReserveStack ==
    ReserveStep("stack", "frames", ReservedWindow(machine.heapMarker))
    /\ UNCHANGED heap

\* frame::initialize
InitializeFrames ==
    /\ stage = "frames"
    /\ stage' = "grant"
    /\ ranges' = UsableRuns(map)
    /\ managed' = UsableRuns(map)
    /\ free_frames' = Cardinality(Frames!FramesIn(UsableRuns(map)))
    /\ UNCHANGED <<machine, error, map, heap, tables, owned, granted, lost>>

\* largest_free_frames, allocate_contiguous_owned: the whole longest run
GrantHeap ==
    /\ stage = "grant"
    /\ IF Len(ranges) = 0
       THEN Fail("NoConventionalMemory") /\ UNCHANGED <<heap, frameVars>>
       ELSE \E k \in DOMAIN ranges :
                /\ Frames!AllocateContiguous(ranges[k].frames, k)
                /\ heap' = ranges[k]
                /\ stage' = "heap" /\ UNCHANGED error
    /\ UNCHANGED <<machine, map, tables>>

\* mutant: the heap is recorded nowhere in the map
SkipReserveHeap ==
    /\ stage = "heap"
    /\ stage' = "mapImage"
    /\ UNCHANGED <<machine, error, map, heap, tables, frameVars>>

\* memory::reserve of the heap; HEAP_START and HEAP_SIZE are stored
ReserveHeap == ReserveStep("heap", "mapImage", heap) /\ UNCHANGED heap

ImageFlags == {"PRESENT", "WRITABLE"}
DataFlags == {"PRESENT", "WRITABLE", "NO_EXECUTE"}
DeviceFlags == {"PRESENT", "WRITABLE", "NO_CACHE", "NO_EXECUTE"}

\* one map_range of paging::initialize: a page that is already mapped, or a
\* table that the arena cannot supply, ends the boot (MappingFailed in the
\* code for both).  After the last one come the recursive entry and the CR3
\* write
MapStep(from, to, run, flags) ==
    /\ stage = from
    /\ LET result == MapRange(tables, run, flags)
       IN  IF result.error = "None"
           THEN /\ tables' = IF to = "active" THEN WithRecursiveEntry(result.tables)
                              ELSE result.tables
                /\ stage' = to
                /\ UNCHANGED error
           ELSE Fail(result.error) /\ tables' = result.tables
    /\ UNCHANGED <<machine, map, heap, frameVars>>

MapImage == MapStep("mapImage", "mapHeap", machine.image, ImageFlags)
MapHeap == MapStep("mapHeap", "mapFramebuffer", heap, DataFlags)
MapFramebuffer ==
    MapStep("mapFramebuffer", "mapStack", machine.framebuffer, DeviceFlags)

MapStack ==
    MapStep("mapStack", "active", MappedWindow(machine.pagingMarker), DataFlags)

Running == stage = "active" /\ UNCHANGED <<machine, stage, error, map, heap, frameVars>>

\* map_device_page: only frames the memory map calls Device
MapDevicePage(page, frame) ==
    /\ Running
    /\ KindAt(map, frame) = "Device"    \* else NotDeviceMemory
    /\ tables' = MapPage(tables, page, frame, DeviceFlags).tables

\* map_page: any frame, whatever its kind, with the caller's flags
MapDriverPage(page, frame, flags) ==
    /\ Running
    /\ tables' = MapPage(tables, page, frame, flags).tables

\* unmap_page; a page that is not mapped is UnmappingFailed
UnmapDriverPage(page) ==
    /\ Running
    /\ VirtualRangeError(page, 1) = "None"
    /\ IsMapped(tables, page)
    /\ tables' = UnmapPage(tables, page)

Drivers ==
    \E page \in machine.driverPages :
        \/ \E frame \in machine.driverFrames :
              \/ MapDevicePage(page, frame)
              \/ \E flags \in DriverFlags : MapDriverPage(page, frame, flags)
        \/ UnmapDriverPage(page)

Next ==
    \/ InitializeMemory
    \/ ReserveImage
    \/ ReserveStack
    \/ InitializeFrames
    \/ GrantHeap
    \/ ReserveHeap
    \/ MapImage
    \/ MapHeap
    \/ MapFramebuffer
    \/ MapStack
    \/ Drivers

Spec == Init /\ [][Next]_vars

------------------------------------------------------------------------------
(* Properties.                                                             *)

PagingStages == {"mapImage", "mapHeap", "mapFramebuffer", "mapStack", "active"}

\* The heap is exclusively owned: it lies in memory the firmware called usable
\* and holds no frame of the image, the framebuffer or the stack window that
\* initialize_heap reserved.  If the boot halts on a page that is already
\* mapped, the image, the framebuffer and the stack window that is mapped reach
\* into one another; the heap gets in the way only of a window that is mapped
\* around a marker more than a page away from the one it was reserved around.
\* Then the heap is not "available for exclusive use by the allocator"
\* (allocator/mod.rs:52).
HeapIsExclusive ==
    LET image == Run(machine.image)
        fb == Run(machine.framebuffer)
        stack == Run(MappedWindow(machine.pagingMarker))
    IN  /\ stage \in PagingStages =>
              \A f \in Run(heap) : /\ KindAt(machine.map, f) = "Usable"
                                   /\ f \notin image \cup fb
                                   /\ f \notin Run(ReservedWindow(machine.heapMarker))
        /\ error = "AlreadyMapped" =>
              \/ image \cap fb # {} \/ image \cap stack # {} \/ fb \cap stack # {}
              \/ Run(heap) \cap stack # {} /\ ~ NearMarkers(machine)

\* The two subsystems agree on what is free: after the heap has been reserved
\* the frames the map calls Usable are exactly the allocator's free frames.
MapAgreesWithAllocator ==
    stage \in PagingStages =>
        {f \in Covered(map) : KindAt(map, f) = "Usable"} = Frames!FreeFrames

\* A reservation never loses memory: each frame of the firmware map is still
\* described, and keeps its kind unless one of the reservations covers it.
ReservationsKeepNeighbours ==
    stage \in PagingStages =>
        \A f \in Covered(machine.map) :
            \/ KindAt(map, f) = KindAt(machine.map, f)
            \/ f \in Run(machine.framebuffer) /\ KindAt(map, f) = "Device"
            \/ /\ f \in Run(machine.image) \cup Run(heap)
                        \cup Run(ReservedWindow(machine.heapMarker))
               /\ KindAt(map, f) = "Kernel"

\* the page below the stack window, if there is one, and the page above it
GuardPages ==
    LET window == MappedWindow(machine.pagingMarker)
    IN  {window.start - 1, window.start + window.frames} \cap Nat

\* The boot leaves "one unmapped guard page on either side of the bootstrap
\* stack window" (paging.rs:432) if both stack markers are on one page: the heap,
\* the longest run of free memory, which may start right behind the reserved
\* window, is on neither.  With the markers apart it may be; the image and the
\* framebuffer, which the reservation does not move, may be in any case.
GuardPagesAreUnmapped ==
    stage = "active" =>
        \A p \in GuardPages \cap MappedPages(tables) :
            \/ p \in Run(machine.image) \cup Run(machine.framebuffer) \cup machine.driverPages
            \/ p \in Run(heap) /\ machine.heapMarker # machine.pagingMarker

\* the address space as the hardware sees it
mapping == [p \in MappedPages(tables) |-> Translation(tables, p)]
Space == INSTANCE AddressSpace

\* The page tables implement the address space paging.rs promises: whatever
\* tables are created, shared or left behind by a call that failed, the
\* translation the hardware finds by walking them changes one run of new
\* pages, or one unmapped page, at a time, and never for a page in use.
TablesImplementAddressSpace == Space!Spec

\* what the hardware grants is what the page's own entry says
WalksGrantTheEntry ==
    \A p \in MappedPages(tables) :
        Translation(tables, p).rights = LeafFlags(tables, p)

\* a frame the memory map calls Device is reached only uncached and not executable
IsUncached(t) ==
    KindAt(map, t.frame) = "Device" => {"NO_CACHE", "NO_EXECUTE"} \subseteq t.rights

\* the pages a step maps reach devices in this way; excepted are map_page with a
\* caller's flags, and the stack window if its marker is far from the other
MapsDevicesUncached ==
    \/ \E page \in machine.driverPages, frame \in machine.driverFrames, flags \in DriverFlags :
          MapDriverPage(page, frame, flags)
    \/ NearMarkers(machine) =>
          \A p \in MappedPages(tables') :
              IsMapped(tables, p) \/ IsUncached(Translation(tables', p))

\* After each step every page has exactly the rights its mapping asked for,
\* whatever the tables above it were created for, and whatever rights later
\* calls ask for pages below the same tables.  And the kernel itself asks for
\* the right ones: no identity mapping of paging::initialize and no
\* map_device_page makes device memory cached or executable.  map_page does if
\* its caller says so, although memory.rs:29 says "paging refuses to map these as
\* cacheable RAM"; and the stack window may, if its marker is more than a page
\* away from the one it was reserved around.
RightsAreAsRequested == [][WalksGrantTheEntry' /\ MapsDevicesUncached]_vars

==============================================================================
