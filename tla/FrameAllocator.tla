--------------------------- MODULE FrameAllocator ---------------------------
(***************************************************************************)
(* The physical frame allocator of frame.rs: a bounded list of free runs   *)
(* built from the usable descriptors, in the order the firmware gave them. *)
(*                                                                         *)
(* Addresses are frame numbers (address / PAGE_SIZE): every address the    *)
(* allocator holds is page aligned.  Each operation runs under the         *)
(* FRAME_ALLOCATOR mutex and is one step; an operation that returns an     *)
(* error without consuming a handle changes nothing and takes no step.     *)
(*                                                                         *)
(* owned, granted and lost are history variables: the handles that exist.  *)
(***************************************************************************)
EXTENDS Integers, Sequences, FiniteSets

CONSTANTS
    MAX_FREE_RANGES, \* capacity of the free list
    UsableLists,     \* the lists of usable runs new() may be given
    Requests         \* the lengths asked of allocate_contiguous

VARIABLES
    ranges,      \* ranges[..range_count]: the free list
    managed,     \* managed[..managed_count]: the original usable runs
    free_frames, \* free_frames
    owned,       \* history: frames held by an OwnedFrame handle
    granted,     \* history: frames inside an OwnedPhysicalRange, never returned
    lost         \* history: frames whose handle a failed release consumed

vars == <<ranges, managed, free_frames, owned, granted, lost>>

FreeRange == [start : Nat, frames : Nat \ {0}]

FramesOf(r) == r.start .. r.start + r.frames - 1
End(r) == r.start + r.frames
FramesIn(list) == UNION {FramesOf(list[k]) : k \in DOMAIN list}
Disjoint(list) ==
    \A j, k \in DOMAIN list : j # k => FramesOf(list[j]) \cap FramesOf(list[k]) = {}

ASSUME MaxFreeRangesAssumption == MAX_FREE_RANGES \in Nat
ASSUME RequestsAssumption == Requests \subseteq Nat \ {0}
ASSUME UsableListsAssumption ==
    \A list \in UsableLists :
        /\ list \in Seq(FreeRange)
        /\ Len(list) <= MAX_FREE_RANGES
        /\ Disjoint(list)

------------------------------------------------------------------------------
(* The list operations.                                                    *)

\* remove_range: the later runs move down
RemoveRange(list, k) ==
    [j \in 1 .. Len(list) - 1 |-> IF j < k THEN list[j] ELSE list[j + 1]]

\* the insertion loop of release: the later runs move up
InsertRange(list, k, r) ==
    [j \in 1 .. Len(list) + 1 |->
        IF j < k THEN list[j] ELSE IF j = k THEN r ELSE list[j - 1]]

\* the first n frames of run k are taken; an empty run is removed
TakeFront(list, k, n) ==
    IF list[k].frames = n
    THEN RemoveRange(list, k)
    ELSE [list EXCEPT ![k] = [start |-> list[k].start + n,
                              frames |-> list[k].frames - n]]

\* filter and max_by_key of allocate_contiguous: the last of the longest runs
Largest(list, n, k) ==
    /\ list[k].frames >= n
    /\ \A j \in DOMAIN list :
           /\ list[j].frames <= list[k].frames
           /\ j > k => list[j].frames < list[k].frames

\* release's scan stops at k: the runs before it start below f
ScanStops(list, f, k) ==
    /\ k \in 1 .. Len(list) + 1
    /\ \A j \in 1 .. k - 1 : list[j].start < f
    /\ k <= Len(list) => list[k].start >= f

\* mutant: a run that ends where f starts is taken for an overlap
RefusedTouching(list, f, k) ==
    \/ k > 1 /\ End(list[k - 1]) >= f
    \/ k <= Len(list) /\ f + 1 > list[k].start

\* f overlaps the run before or the run at the place where the scan stopped
Overlaps(list, f, k) ==
    \/ k > 1 /\ End(list[k - 1]) > f
    \/ k <= Len(list) /\ f + 1 > list[k].start

TouchesPrevious(list, f, k) == k > 1 /\ End(list[k - 1]) = f
TouchesNext(list, f, k) == k <= Len(list) /\ f + 1 = list[k].start

Grown(r, n) == [start |-> r.start, frames |-> r.frames + n]

\* mutant: the run after f is counted into the one before it and kept
ReleasedTwice(list, f, k) ==
    IF TouchesPrevious(list, f, k) /\ TouchesNext(list, f, k)
    THEN [list EXCEPT ![k - 1] = Grown(list[k - 1], 1 + list[k].frames)]
    ELSE IF TouchesPrevious(list, f, k)
    THEN [list EXCEPT ![k - 1] = Grown(list[k - 1], 1)]
    ELSE IF TouchesNext(list, f, k)
    THEN [list EXCEPT ![k] = [start |-> f, frames |-> list[k].frames + 1]]
    ELSE InsertRange(list, k, [start |-> f, frames |-> 1])

\* mutant: f joins the run before it and the run after it is not merged
ReleasedUnmerged(list, f, k) ==
    IF TouchesPrevious(list, f, k)
    THEN [list EXCEPT ![k - 1] = Grown(list[k - 1], 1)]
    ELSE IF TouchesNext(list, f, k)
    THEN [list EXCEPT ![k] = [start |-> f, frames |-> list[k].frames + 1]]
    ELSE InsertRange(list, k, [start |-> f, frames |-> 1])

\* the free list after release(f): joined to its neighbours, or a run of its own
Released(list, f, k) ==
    IF TouchesPrevious(list, f, k) /\ TouchesNext(list, f, k)
    THEN RemoveRange([list EXCEPT ![k - 1] =
                         Grown(list[k - 1], 1 + list[k].frames)], k)
    ELSE IF TouchesPrevious(list, f, k)
    THEN [list EXCEPT ![k - 1] = Grown(list[k - 1], 1)]
    ELSE IF TouchesNext(list, f, k)
    THEN [list EXCEPT ![k] = [start |-> f, frames |-> list[k].frames + 1]]
    ELSE InsertRange(list, k, [start |-> f, frames |-> 1])

\* the release needs a place of its own and the table has none left
StorageFull(list, f, k) ==
    /\ ~ TouchesPrevious(list, f, k)
    /\ ~ TouchesNext(list, f, k)
    /\ Len(list) = MAX_FREE_RANGES

\* the checks of release: f is managed and the scan finds no overlap
Accepts(list, f, k) ==
    /\ f \in FramesIn(managed)
    /\ ScanStops(list, f, k)
    /\ ~ Overlaps(list, f, k)

------------------------------------------------------------------------------
(* Operations.                                                             *)

\* FrameAllocator::new on a list of usable runs
Init ==
    /\ managed \in UsableLists
    /\ ranges = managed
    /\ free_frames = Cardinality(FramesIn(managed))
    /\ owned = {} /\ granted = {} /\ lost = {}

\* allocate: the first frame of the first run
Allocate ==
    /\ Len(ranges) > 0
    /\ ranges' = TakeFront(ranges, 1, 1)
    /\ free_frames' = free_frames - 1
    /\ owned' = owned \cup {ranges[1].start}
    /\ UNCHANGED <<managed, granted, lost>>

\* allocate_contiguous(n), n > 0: the front of the longest run
AllocateContiguous(n, k) ==
    /\ k \in DOMAIN ranges
    /\ Largest(ranges, n, k)
    /\ ranges' = TakeFront(ranges, k, n)
    /\ free_frames' = free_frames - n
    /\ granted' = granted \cup ranges[k].start .. ranges[k].start + n - 1
    /\ UNCHANGED <<managed, owned, lost>>

\* OwnedFrame::release: the handle is consumed, the frame is free again
Release(f, k) ==
    /\ f \in owned
    /\ Accepts(ranges, f, k)
    /\ ~ StorageFull(ranges, f, k)
    /\ ranges' = Released(ranges, f, k)
    /\ free_frames' = free_frames + 1
    /\ owned' = owned \ {f}
    /\ UNCHANGED <<managed, granted, lost>>

\* OwnedFrame::release with FreeRangeStorageFull: the free list is unchanged,
\* the handle is consumed all the same and the frame can never be released
ReleaseFails(f, k) ==
    /\ f \in owned
    /\ Accepts(ranges, f, k)
    /\ StorageFull(ranges, f, k)
    /\ owned' = owned \ {f}
    /\ lost' = lost \cup {f}
    /\ UNCHANGED <<ranges, managed, free_frames, granted>>

Next ==
    \/ Allocate
    \/ \E n \in Requests : \E k \in DOMAIN ranges : AllocateContiguous(n, k)
    \/ \E f \in owned : \E k \in 1 .. Len(ranges) + 1 : Release(f, k)
    \/ \E f \in owned : \E k \in 1 .. Len(ranges) + 1 : ReleaseFails(f, k)

Spec == Init /\ [][Next]_vars

------------------------------------------------------------------------------
(* Properties.                                                             *)

FreeFrames == FramesIn(ranges)

\* Type correctness: every run of the free list is non-empty and the list fits
\* its table.
TypeOK ==
    /\ ranges \in Seq(FreeRange)
    /\ Len(ranges) <= MAX_FREE_RANGES
    /\ managed \in UsableLists
    /\ free_frames \in Nat
    /\ owned \subseteq FramesIn(managed)
    /\ granted \subseteq FramesIn(managed)
    /\ lost \subseteq FramesIn(managed)

\* No frame has two owners: the runs of the free list, the single-frame
\* handles, the contiguous grants and the lost frames are disjoint and together
\* they are exactly the usable frames, whatever the order of the descriptors.
\* stats().free_frames, which meminfo reports, counts the free ones.
EveryFrameHasOneOwner ==
    /\ free_frames = Cardinality(FreeFrames)
    /\ Disjoint(ranges)
    /\ FreeFrames \cap (owned \cup granted \cup lost) = {}
    /\ owned \cap granted = {} /\ owned \cap lost = {} /\ granted \cap lost = {}
    /\ FreeFrames \cup owned \cup granted \cup lost = FramesIn(managed)

\* release never answers InvalidAddress to the holder of the frame.
OwnerMayRelease ==
    \A f \in owned : \E k \in 1 .. Len(ranges) + 1 : Accepts(ranges, f, k)

InOrder(list) ==
    \A j, k \in DOMAIN list : j < k => End(list[j]) <= list[k].start

\* The free list stays in address order and merged if the firmware listed the
\* usable memory in that order: two runs touch only where two usable
\* descriptors did.  Only then does release, whose scan stops early, answer
\* InvalidAddress for every frame that is already free.
FreeListIsSound ==
    InOrder(managed) =>
        /\ InOrder(ranges)
        /\ \A k \in 1 .. Len(ranges) - 1 :
               End(ranges[k]) = ranges[k + 1].start =>
                   \E m \in DOMAIN managed : managed[m].start = ranges[k + 1].start
        /\ \A f \in FreeFrames : \A k \in 1 .. Len(ranges) + 1 : ~ Accepts(ranges, f, k)

==============================================================================
