--------------------------- MODULE HeapAllocator ---------------------------
(***************************************************************************)
(* AgnostOSAllocator, the heap of kernels built with custom-allocator: a   *)
(* linked list of free chunks whose headers lie in the free memory itself. *)
(*                                                                         *)
(* The heap is the bytes 0 .. HEAP_SIZE - 1 (its real start is page        *)
(* aligned).  alloc and dealloc hold the head mutex throughout, so each is *)
(* one step; alloc that finds no chunk returns null and changes nothing.   *)
(* The guards against address overflow are left out: no chunk ends above   *)
(* the heap.                                                               *)
(*                                                                         *)
(* live is a history variable: the allocations the kernel holds; layouts   *)
(* is the kernel's workload and never changes.                             *)
(***************************************************************************)
EXTENDS Integers, Sequences

CONSTANTS
    HEAP_SIZE,    \* bytes in the heap region
    CHUNK_SIZE,   \* size_of::<FreeChunk>()
    CHUNK_ALIGN,  \* align_of::<FreeChunk>()
    Workloads     \* sets of layouts, records of size and align: what a kernel
                  \* asks for

ASSUME HeapAssumption ==
    /\ CHUNK_ALIGN \in Nat \ {0}
    /\ CHUNK_SIZE \in Nat \ {0}
    /\ CHUNK_SIZE % CHUNK_ALIGN = 0
    /\ HEAP_SIZE \in Nat /\ HEAP_SIZE >= CHUNK_SIZE
    /\ \A w \in Workloads : w \subseteq [size : Nat \ {0}, align : Nat \ {0}]

\* the heap is whole pages; alignments and the header's size are powers of two
ASSUME PowersOfTwoAssumption ==
    /\ HEAP_SIZE % CHUNK_SIZE = 0
    /\ \A w \in Workloads : \A layout \in w :
           layout.align <= CHUNK_SIZE => CHUNK_SIZE % layout.align = 0

VARIABLES
    layouts, \* the workload
    free,    \* the list that starts at head, in link order
    live     \* history: start, layout and real end of each allocation

vars == <<layouts, free, live>>

Larger(a, b) == IF a >= b THEN a ELSE b
End(c) == c.start + c.size
Without(list, k) ==
    [j \in 1 .. Len(list) - 1 |-> IF j < k THEN list[j] ELSE list[j + 1]]

------------------------------------------------------------------------------
(* alloc.                                                                  *)

\* what alloc takes and dealloc gives back for a layout
BlockSize(layout) == Larger(layout.size, CHUNK_SIZE)

\* the first address from start on with the layout's (or the header's) alignment
AlignUp(start, layout) ==
    LET align == Larger(layout.align, CHUNK_ALIGN)
    IN  ((start + align - 1) \div align) * align

\* mutant: the bytes skipped for alignment are forgotten
FitsUnaligned(chunk, layout) == chunk.start + BlockSize(layout) <= End(chunk)

\* end <= chunk_end
Fits(chunk, layout) ==
    AlignUp(chunk.start, layout) + BlockSize(layout) <= End(chunk)

\* the walk along the list stops at the first chunk that fits
FirstFit(layout, k) ==
    /\ Fits(free[k], layout)
    /\ \A j \in 1 .. k - 1 : ~ Fits(free[j], layout)

\* mutant: a remainder that just holds a header is given away
SplitsLarger(rest) == rest > CHUNK_SIZE

\* the remainder can hold a header
Splits(rest) == rest >= CHUNK_SIZE

\* chunk k gives way to its remainder, or is taken as a whole
Alloc(layout, k) ==
    LET start == AlignUp(free[k].start, layout)
        end   == start + BlockSize(layout)
        rest  == End(free[k]) - end
    IN  /\ FirstFit(layout, k)
        /\ free' = IF Splits(rest)
                   THEN [free EXCEPT ![k] = [start |-> end, size |-> rest]]
                   ELSE Without(free, k)
        /\ live' = live \cup {[start |-> start, layout |-> layout,
                               end |-> IF Splits(rest) THEN end ELSE end + rest]}
        /\ UNCHANGED layouts

------------------------------------------------------------------------------
(* dealloc.                                                                *)

\* the list with a chunk put in front of the first one above it
Inserted(chunk, k) ==
    [j \in 1 .. Len(free) + 1 |->
        IF j < k THEN free[j] ELSE IF j = k THEN chunk ELSE free[j - 1]]

InsertsAt(chunk, k) ==
    /\ \A j \in 1 .. k - 1 : free[j].start < chunk.start
    /\ k <= Len(free) => free[k].start >= chunk.start

\* chunk k swallows the following one where the two touch
MergedWithNext(list, k) ==
    IF k < Len(list) /\ End(list[k]) = list[k + 1].start
    THEN Without([list EXCEPT ![k].size = @ + list[k + 1].size], k + 1)
    ELSE list

\* mutant: the preceding range is not merged
JoinedForward(list, k) == MergedWithNext(list, k)

\* chunk k is merged with the following range, then with the preceding one
Joined(list, k) ==
    LET forward == MergedWithNext(list, k)
    IN  IF k > 1 THEN MergedWithNext(forward, k - 1) ELSE forward

Dealloc(a, k) ==
    LET chunk == [start |-> a.start, size |-> BlockSize(a.layout)]
    IN  /\ InsertsAt(chunk, k)
        /\ free' = Joined(Inserted(chunk, k), k)
        /\ live' = live \ {a}
        /\ UNCHANGED layouts

------------------------------------------------------------------------------

\* init: one chunk covers the heap
Init ==
    /\ layouts \in Workloads
    /\ free = <<[start |-> 0, size |-> HEAP_SIZE]>>
    /\ live = {}

Next ==
    \/ \E layout \in layouts : \E k \in DOMAIN free : Alloc(layout, k)
    \/ \E a \in live : \E k \in 1 .. Len(free) + 1 : Dealloc(a, k)

Spec == Init /\ [][Next]_vars

------------------------------------------------------------------------------
(* Properties.                                                             *)

Bytes(from, to) == from .. to - 1

\* No byte has two owners: the memory alloc answered with, a header included
\* should it be freed, lies in the heap and outside every other allocation and
\* every free chunk, whatever was split and merged before.
AllocationsAreExclusive ==
    \A a \in live :
        LET mine == Bytes(a.start, a.start + BlockSize(a.layout))
        IN  /\ a.start + BlockSize(a.layout) <= HEAP_SIZE
            /\ \A b \in live \ {a} : mine \cap Bytes(b.start, b.end) = {}
            /\ \A k \in DOMAIN free : mine \cap Bytes(free[k].start, End(free[k])) = {}

\* The list is in address order, two free chunks never touch and each can hold
\* its header: dealloc's walk finds both neighbours, and a freed neighbour is
\* merged in every order of releases.
FreeListIsCoalesced ==
    /\ \A k \in DOMAIN free : free[k].size >= CHUNK_SIZE
    /\ \A j, k \in DOMAIN free : j < k => End(free[j]) < free[k].start

\* The whole heap is free again once every allocation has been returned:
\* dealloc "returns a previously allocated region back to the free list".
NothingLeaks == live = {} => free = <<[start |-> 0, size |-> HEAP_SIZE]>>

\* the sizes are multiples of the header's and no alignment exceeds it
WholeRequests ==
    \A layout \in layouts :
        /\ layout.size < CHUNK_SIZE \/ layout.size % CHUNK_SIZE = 0
        /\ layout.align <= CHUNK_SIZE

\* For such requests nothing leaks, in whatever order they are returned, and
\* every header written into free memory is aligned as FreeChunk requires.
WholeRequestsAreSafe ==
    WholeRequests => /\ NothingLeaks
                     /\ \A k \in DOMAIN free : free[k].start % CHUNK_ALIGN = 0

==============================================================================
