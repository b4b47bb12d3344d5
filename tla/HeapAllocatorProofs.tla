------------------------- MODULE HeapAllocatorProofs -------------------------
(***************************************************************************)
(* Theorems about HeapAllocator, for every heap, header and workload.  The *)
(* inductive invariant is HeapInv: who owns a byte is stated byte by byte, *)
(* so that splitting and merging chunks is a matter of which bytes the     *)
(* free list holds.                                                        *)
(***************************************************************************)
EXTENDS HeapAllocator, SequenceTheorems, TLAPS

Layout == [size : Nat \ {0}, align : Nat \ {0}]
Chunk == [start : Nat, size : Nat \ {0}]
Allocation == [start : Nat, layout : Layout, end : Nat]

\* byte x lies in a chunk, in the free list, in an allocation
InChunk(c, x) == c.start <= x /\ x < End(c)
InList(list, x) == \E k \in 1 .. Len(list) : InChunk(list[k], x)
InBlock(a, x) == a.start <= x /\ x < a.end

Types ==
    /\ layouts \in Workloads
    /\ free \in Seq(Chunk)
    /\ live \subseteq Allocation
    /\ \A a \in live : a.layout \in layouts

\* in address order; chunk k does not touch the next one
Sorted(list) ==
    \A j, k \in 1 .. Len(list) : j < k => End(list[j]) <= list[k].start
GapAfter(list, k) == k < Len(list) => End(list[k]) < list[k + 1].start
HoldHeaders(list) == \A k \in 1 .. Len(list) : list[k].size >= CHUNK_SIZE

FreeListIsSorted ==
    /\ Sorted(free) /\ HoldHeaders(free)
    /\ \A k \in 1 .. Len(free) : GapAfter(free, k)

\* every byte is inside the heap and has at most one owner
BytesHaveOneOwner ==
    /\ \A x \in Nat : InList(free, x) => x < HEAP_SIZE
    /\ \A a \in live : a.start + BlockSize(a.layout) <= a.end /\ a.end <= HEAP_SIZE
    /\ \A a, b \in live : a # b => \A x \in Nat : ~ (InBlock(a, x) /\ InBlock(b, x))
    /\ \A a \in live : \A x \in Nat : ~ (InBlock(a, x) /\ InList(free, x))

Whole(n) == n % CHUNK_SIZE = 0
WholeChunks(list) ==
    \A k \in 1 .. Len(list) : Whole(list[k].start) /\ Whole(list[k].size)

\* every byte has an owner, and nothing is cut but in units of a header
HeapIsTiled ==
    /\ WholeChunks(free)
    /\ \A a \in live : Whole(a.start) /\ a.end = a.start + BlockSize(a.layout)
    /\ \A x \in Nat : x < HEAP_SIZE =>
           InList(free, x) \/ \E a \in live : InBlock(a, x)

HeapInv ==
    Types /\ FreeListIsSorted /\ BytesHaveOneOwner /\ (WholeRequests => HeapIsTiled)

------------------------------------------------------------------------------
(* Arithmetic.                                                             *)

\* A multiple is a product.
LEMMA MultipleIs ==
    ASSUME NEW a \in Nat, NEW m \in Nat \ {0}
    PROVE  a % m = 0 <=> \E q \in Nat : a = q * m
<1>1. a \div m \in Nat
    OBVIOUS
<1>2. a = (a \div m) * m + (a % m)
    OBVIOUS
<1>3. ASSUME NEW q \in Nat, a = q * m PROVE a % m = 0
    BY <1>3
<1>4. ASSUME a % m = 0 PROVE \E q \in Nat : a = q * m
    <2> DEFINE q == a \div m
    <2>1. q \in Nat /\ a = q * m + 0
        BY <1>1, <1>2, <1>4
    <2> HIDE DEF q
    <2>2. a = q * m
        BY <2>1
    <2> QED  BY <2>1, <2>2
<1> QED  BY <1>3, <1>4

\* Sums, differences and multiples of multiples.
LEMMA WholeSum ==
    ASSUME NEW a \in Nat, NEW b \in Nat, NEW m \in Nat \ {0}, a % m = 0, b % m = 0
    PROVE  (a + b) % m = 0
<1>1. PICK p \in Nat : a = p * m
    BY MultipleIs
<1>2. PICK q \in Nat : b = q * m
    BY MultipleIs
<1>3. a + b = (p + q) * m /\ p + q \in Nat /\ a + b \in Nat
    BY <1>1, <1>2
<1> QED  BY <1>3, MultipleIs

\* Multiples of m differ by a multiple of m.
LEMMA WholeDifference ==
    ASSUME NEW a \in Nat, NEW b \in Nat, NEW m \in Nat \ {0}, b <= a,
           a % m = 0, b % m = 0
    PROVE  (a - b) % m = 0
<1>1. PICK p \in Nat : a = p * m
    BY MultipleIs
<1>2. PICK q \in Nat : b = q * m
    BY MultipleIs
<1>3. q <= p
    <2> SUFFICES ASSUME p + 1 <= q PROVE FALSE
        BY <1>1, <1>2
    <2>1. (p + 1) * m <= q * m /\ (p + 1) * m = p * m + m /\ p * m \in Nat
        OBVIOUS
    <2> QED  BY <1>1, <1>2, <2>1
<1>4. a - b = (p - q) * m /\ p - q \in Nat /\ a - b \in Nat
    BY <1>1, <1>2, <1>3
<1> QED  BY <1>4, MultipleIs

\* The only multiple of m below m is 0.
LEMMA SmallMultiple ==
    ASSUME NEW a \in Nat, NEW m \in Nat \ {0}, a % m = 0, a < m
    PROVE  a = 0
OBVIOUS

\* A multiple of m is a multiple of every divisor of m.
LEMMA WholeOfDivisor ==
    ASSUME NEW a \in Nat, NEW m \in Nat \ {0}, NEW d \in Nat \ {0}, a % m = 0, m % d = 0
    PROVE  a % d = 0
<1>1. PICK p \in Nat : a = p * m
    BY MultipleIs
<1>2. PICK q \in Nat : m = q * d
    BY MultipleIs
<1>3. a = (p * q) * d /\ p * q \in Nat
    BY <1>1, <1>2
<1> QED  BY <1>3, MultipleIs

\* Rounding up never goes down, and leaves a multiple where it is.
LEMMA RoundedUp ==
    ASSUME NEW n \in Nat, NEW b \in Nat \ {0}
    PROVE  /\ ((n + b - 1) \div b) * b \in Nat
           /\ ((n + b - 1) \div b) * b >= n
           /\ n % b = 0 => ((n + b - 1) \div b) * b = n
<1> DEFINE a == n + b - 1
           c == a \div b
<1>1. a \in Nat
    OBVIOUS
<1>2. c \in Nat /\ c * b <= a /\ a < (c + 1) * b
    BY <1>1
<1>3. (c + 1) * b = c * b + b /\ c * b \in Nat
    BY <1>2
<1> HIDE DEF c
<1>4. c * b >= n
    BY <1>2, <1>3
<1>5. ASSUME n % b = 0 PROVE c * b = n
    <2>1. PICK q \in Nat : n = q * b
        BY <1>5, MultipleIs
    <2>2. c < q + 1
        <3> SUFFICES ASSUME q + 1 <= c PROVE FALSE
            BY <1>2, <2>1
        <3>1. (q + 1) * b <= c * b /\ (q + 1) * b = q * b + b /\ q * b \in Nat
            BY <1>2
        <3> QED  BY <1>2, <1>3, <2>1, <3>1
    <2>3. q <= c
        <3> SUFFICES ASSUME c + 1 <= q PROVE FALSE
            BY <1>2, <2>1
        <3>1. (c + 1) * b <= q * b /\ q * b \in Nat
            BY <1>2
        <3> QED  BY <1>2, <1>3, <1>4, <2>1, <3>1
    <2>4. c = q
        BY <1>2, <2>2, <2>3
    <2> QED  BY <2>1, <2>4
<1> QED  BY <1>3, <1>4, <1>5 DEF c

------------------------------------------------------------------------------
(* Chunks and lists of chunks.                                             *)

Lists == Seq(Chunk)

\* a chunk of the list replaced by another
Replaced(list, k, c) == [list EXCEPT ![k] = c]

\* A function on 1 .. n is a sequence of length n.
LEMMA SeqIntro ==
    ASSUME NEW S, NEW n \in Nat, NEW f \in [1 .. n -> S]
    PROVE  f \in Seq(S) /\ Len(f) = n
<1>1. f \in Seq(S)
    BY SeqDef
<1>2. DOMAIN f = 1 .. n
    OBVIOUS
<1>3. Len(f) \in Nat /\ DOMAIN f = 1 .. Len(f)
    BY <1>1, LenProperties
<1> QED  BY <1>1, <1>2, <1>3

\* A chunk is not empty.
LEMMA ChunkIs ==
    ASSUME NEW c \in Chunk
    PROVE  /\ c.start \in Nat /\ c.size \in Nat \ {0}
           /\ End(c) \in Nat /\ c.start < End(c) /\ End(c) = c.start + c.size
BY DEF Chunk, End

\* A chunk is made from its start and its size.
LEMMA NewChunk ==
    ASSUME NEW s \in Nat, NEW n \in Nat \ {0}
    PROVE  /\ [start |-> s, size |-> n] \in Chunk
           /\ [start |-> s, size |-> n].start = s
           /\ [start |-> s, size |-> n].size = n
           /\ End([start |-> s, size |-> n]) = s + n
BY DEF Chunk, End

\* The chunks of a list.
LEMMA ListIs ==
    ASSUME NEW list \in Lists
    PROVE  /\ Len(list) \in Nat /\ DOMAIN list = 1 .. Len(list)
           /\ \A k \in 1 .. Len(list) :
                 /\ list[k] \in Chunk
                 /\ list[k].start \in Nat /\ list[k].size \in Nat \ {0}
                 /\ End(list[k]) \in Nat /\ list[k].start < End(list[k])
                 /\ End(list[k]) = list[k].start + list[k].size
BY ChunkIs DEF Lists

\* A chunk unlinked: the later ones move down.
LEMMA WithoutIs ==
    ASSUME NEW list \in Lists, NEW k \in 1 .. Len(list)
    PROVE  /\ Without(list, k) \in Lists
           /\ Len(Without(list, k)) = Len(list) - 1
           /\ \A j \in 1 .. Len(list) - 1 :
                 Without(list, k)[j] = IF j < k THEN list[j] ELSE list[j + 1]
<1>1. Len(list) - 1 \in Nat
    BY ListIs
<1>2. Without(list, k) \in [1 .. Len(list) - 1 -> Chunk]
    BY ListIs DEF Without
<1> QED  BY <1>1, <1>2, SeqIntro DEF Without, Lists

\* A chunk linked in at k: the later ones move up.
LEMMA InsertedIs ==
    ASSUME free \in Lists, NEW k \in 1 .. Len(free) + 1, NEW c \in Chunk
    PROVE  /\ Inserted(c, k) \in Lists
           /\ Len(Inserted(c, k)) = Len(free) + 1
           /\ \A j \in 1 .. Len(free) + 1 :
                 Inserted(c, k)[j] =
                     IF j < k THEN free[j] ELSE IF j = k THEN c ELSE free[j - 1]
<1>1. Len(free) + 1 \in Nat
    BY ListIs
<1>2. Inserted(c, k) \in [1 .. Len(free) + 1 -> Chunk]
    BY ListIs DEF Inserted
<1> QED  BY <1>1, <1>2, SeqIntro DEF Inserted, Lists

\* Replacing a chunk of a list.
LEMMA ReplacedIs ==
    ASSUME NEW list \in Lists, NEW k \in 1 .. Len(list), NEW c \in Chunk
    PROVE  /\ Replaced(list, k, c) \in Lists
           /\ Len(Replaced(list, k, c)) = Len(list)
           /\ \A j \in 1 .. Len(list) :
                 Replaced(list, k, c)[j] = IF j = k THEN c ELSE list[j]
BY ExceptSeq DEF Lists, Replaced

\* Of a sorted list each byte is in one chunk only.
LEMMA OneChunk ==
    ASSUME NEW list \in Lists, Sorted(list), NEW j \in 1 .. Len(list),
           NEW k \in 1 .. Len(list), j # k, NEW x \in Nat, InChunk(list[j], x)
    PROVE  ~ InChunk(list[k], x)
BY ListIs DEF Sorted, InChunk

\* Unlinking a chunk removes its bytes and leaves a gap.
LEMMA WithoutBytes ==
    ASSUME NEW list \in Lists, NEW k \in 1 .. Len(list), Sorted(list),
           \A j \in 1 .. Len(list) : GapAfter(list, j)
    PROVE  /\ Sorted(Without(list, k))
           /\ \A j \in 1 .. Len(Without(list, k)) : GapAfter(Without(list, k), j)
           /\ HoldHeaders(list) => HoldHeaders(Without(list, k))
           /\ WholeChunks(list) => WholeChunks(Without(list, k))
           /\ \A x \in Nat : InList(Without(list, k), x) <=>
                                 InList(list, x) /\ ~ InChunk(list[k], x)
<1> DEFINE new == Without(list, k)
<1>0. /\ Len(list) \in Nat \ {0} /\ new \in Lists /\ Len(new) = Len(list) - 1
      /\ \A j \in 1 .. Len(list) - 1 : new[j] = IF j < k THEN list[j] ELSE list[j + 1]
    BY ListIs, WithoutIs
<1>1. \A j \in 1 .. Len(list) :
          list[j].start \in Nat /\ End(list[j]) \in Nat /\ list[j].start < End(list[j])
    BY ListIs
<1> HIDE DEF new
<1>2. Sorted(new)
    BY <1>0, SMTT(30) DEF Sorted
<1>3. ASSUME NEW j \in 1 .. Len(new) PROVE GapAfter(new, j)
    <2> SUFFICES ASSUME j < Len(new) PROVE End(new[j]) < new[j + 1].start
        BY DEF GapAfter
    <2>1. CASE j + 1 < k
        <3>1. j \in 1 .. Len(list) /\ j < Len(list) /\ new[j] = list[j] /\ new[j + 1] = list[j + 1]
            BY <1>0, <2>1
        <3> QED  BY <3>1 DEF GapAfter
    <2>2. CASE j + 1 = k
        <3>1. /\ k - 1 \in 1 .. Len(list) /\ k + 1 \in 1 .. Len(list)
              /\ new[j] = list[k - 1] /\ new[j + 1] = list[k + 1]
            BY <1>0, <2>2
        <3>2. End(list[k - 1]) <= list[k].start /\ End(list[k]) <= list[k + 1].start
            BY <3>1 DEF Sorted
        <3>3. /\ End(list[k - 1]) \in Nat /\ list[k + 1].start \in Nat
              /\ list[k].start \in Nat /\ End(list[k]) \in Nat /\ list[k].start < End(list[k])
            BY <1>1, <3>1
        <3>4. End(list[k - 1]) < list[k + 1].start
            BY <3>2, <3>3, SMTT(30)
        <3> QED  BY <3>1, <3>4
    <2>3. CASE j + 1 > k
        <3>1. /\ j + 1 \in 1 .. Len(list) /\ j + 1 < Len(list)
              /\ new[j] = list[j + 1] /\ new[j + 1] = list[(j + 1) + 1]
            BY <1>0, <2>3
        <3> QED  BY <3>1 DEF GapAfter
    <2> QED  BY <1>0, <2>1, <2>2, <2>3
<1>4. HoldHeaders(list) => HoldHeaders(new)
    BY <1>0 DEF HoldHeaders
<1>5. WholeChunks(list) => WholeChunks(new)
    BY <1>0 DEF WholeChunks
<1>6. ASSUME NEW x \in Nat, InList(new, x)
      PROVE  InList(list, x) /\ ~ InChunk(list[k], x)
    <2>1. PICK j \in 1 .. Len(new) : InChunk(new[j], x)
        BY <1>6 DEF InList
    <2>2. PICK i \in 1 .. Len(list) : i # k /\ new[j] = list[i]
        <3>1. CASE j < k
            BY <3>1, <1>0
        <3>2. CASE ~ (j < k)
            <4>1. j + 1 \in 1 .. Len(list) /\ j + 1 # k /\ new[j] = list[j + 1]
                BY <3>2, <1>0
            <4> QED  BY <4>1
        <3> QED  BY <3>1, <3>2
    <2> QED  BY <2>1, <2>2, OneChunk DEF InList
<1>7. ASSUME NEW x \in Nat, InList(list, x), ~ InChunk(list[k], x)
      PROVE  InList(new, x)
    <2>1. PICK i \in 1 .. Len(list) : InChunk(list[i], x)
        BY <1>7 DEF InList
    <2>2. i # k
        BY <1>7, <2>1
    <2>3. PICK j \in 1 .. Len(new) : new[j] = list[i]
        <3>1. CASE i < k
            BY <3>1, <1>0
        <3>2. CASE ~ (i < k)
            <4>1. i - 1 \in 1 .. Len(new) /\ new[i - 1] = list[i]
                BY <3>2, <2>2, <1>0
            <4> QED  BY <4>1
        <3> QED  BY <3>1, <3>2
    <2> QED  BY <2>1, <2>3 DEF InList
<1> QED  BY <1>2, <1>3, <1>4, <1>5, <1>6, <1>7 DEF new

\* A chunk cut at its front loses those bytes only.
LEMMA ReplacedBytes ==
    ASSUME NEW list \in Lists, NEW k \in 1 .. Len(list), NEW c \in Chunk,
           Sorted(list), \A j \in 1 .. Len(list) : GapAfter(list, j),
           list[k].start <= c.start, End(c) = End(list[k])
    PROVE  /\ Sorted(Replaced(list, k, c))
           /\ \A j \in 1 .. Len(list) : GapAfter(Replaced(list, k, c), j)
           /\ \A x \in Nat : InList(Replaced(list, k, c), x) <=>
                  InList(list, x) /\ ~ (list[k].start <= x /\ x < c.start)
<1> DEFINE new == Replaced(list, k, c)
<1>0. /\ Len(list) \in Nat \ {0} /\ new \in Lists /\ Len(new) = Len(list)
      /\ \A j \in 1 .. Len(list) : new[j] = IF j = k THEN c ELSE list[j]
    BY ListIs, ReplacedIs
<1>1. /\ \A j \in 1 .. Len(list) :
            list[j].start \in Nat /\ End(list[j]) \in Nat /\ list[j].start < End(list[j])
      /\ c.start \in Nat /\ c.start < End(c)
    BY ListIs, ChunkIs
<1> HIDE DEF new
<1>2. \A j \in 1 .. Len(list) : list[j].start <= new[j].start /\ End(new[j]) = End(list[j])
                                /\ new[j].start \in Nat
    BY <1>0, <1>1
<1>3. Sorted(new)
    BY <1>0, <1>1, <1>2 DEF Sorted
<1>4. ASSUME NEW j \in 1 .. Len(list) PROVE GapAfter(new, j)
    BY <1>0, <1>1, <1>2 DEF GapAfter
<1>5. ASSUME NEW x \in Nat, InList(new, x)
      PROVE  InList(list, x) /\ ~ (list[k].start <= x /\ x < c.start)
    <2>1. PICK j \in 1 .. Len(list) : InChunk(new[j], x)
        BY <1>0, <1>5 DEF InList
    <2>2. InChunk(list[j], x)
        BY <1>1, <1>2, <2>1 DEF InChunk
    <2>3. CASE j = k
        BY <1>0, <1>1, <2>1, <2>2, <2>3 DEF InChunk, InList
    <2>4. CASE j # k
        <3>1. ~ InChunk(list[k], x)
            BY <2>2, <2>4, OneChunk
        <3> QED  BY <1>1, <2>2, <3>1 DEF InChunk, InList
    <2> QED  BY <2>3, <2>4
<1>6. ASSUME NEW x \in Nat, InList(list, x), ~ (list[k].start <= x /\ x < c.start)
      PROVE  InList(new, x)
    <2>1. PICK j \in 1 .. Len(list) : InChunk(list[j], x)
        BY <1>6 DEF InList
    <2>2. InChunk(new[j], x)
        BY <1>0, <1>1, <1>6, <2>1 DEF InChunk
    <2> QED  BY <1>0, <2>2 DEF InList
<1> QED  BY <1>3, <1>4, <1>5, <1>6 DEF new

\* Chunk k with the following one swallowed, if the two touch: the list holds
\* the same bytes and there is a gap after chunk k.
LEMMA MergedIs ==
    ASSUME NEW list \in Lists, NEW k \in 1 .. Len(list), Sorted(list)
    PROVE  /\ MergedWithNext(list, k) \in Lists
           /\ k \in 1 .. Len(MergedWithNext(list, k))
           /\ Len(MergedWithNext(list, k)) <= Len(list)
           /\ Sorted(MergedWithNext(list, k))
           /\ HoldHeaders(list) => HoldHeaders(MergedWithNext(list, k))
           /\ WholeChunks(list) => WholeChunks(MergedWithNext(list, k))
           /\ \A x \in Nat : InList(MergedWithNext(list, k), x) <=> InList(list, x)
           /\ \A j \in 1 .. k - 1 :
                 GapAfter(list, j) => GapAfter(MergedWithNext(list, k), j)
           /\ (\A j \in k + 1 .. Len(list) : GapAfter(list, j)) =>
                 \A j \in k .. Len(MergedWithNext(list, k)) :
                     GapAfter(MergedWithNext(list, k), j)
<1> DEFINE new == MergedWithNext(list, k)
<1>0. /\ Len(list) \in Nat \ {0}
      /\ \A j \in 1 .. Len(list) :
            /\ list[j] \in Chunk
            /\ list[j].start \in Nat /\ list[j].size \in Nat \ {0}
            /\ End(list[j]) \in Nat /\ list[j].start < End(list[j])
            /\ End(list[j]) = list[j].start + list[j].size
    BY ListIs
<1>1. CASE ~ (k < Len(list) /\ End(list[k]) = list[k + 1].start)
    <2>1. new = list
        BY <1>1 DEF MergedWithNext
    <2>2. GapAfter(list, k)
        <3> SUFFICES ASSUME k < Len(list) PROVE End(list[k]) < list[k + 1].start
            BY DEF GapAfter
        <3>1. k + 1 \in 1 .. Len(list) /\ End(list[k]) # list[k + 1].start
            BY <1>0, <1>1
        <3>2. End(list[k]) <= list[k + 1].start
            BY <1>0, <3>1 DEF Sorted
        <3>3. End(list[k]) \in Nat /\ list[k + 1].start \in Nat
            BY <1>0, <3>1
        <3> QED  BY <3>1, <3>2, <3>3
    <2>3. (\A j \in k + 1 .. Len(list) : GapAfter(list, j)) =>
              \A j \in k .. Len(list) : GapAfter(list, j)
        <3>1. \A j \in k .. Len(list) : j = k \/ j \in k + 1 .. Len(list)
            BY <1>0
        <3> QED  BY <2>2, <3>1
    <2>4. Len(list) <= Len(list)
        BY <1>0
    <2> HIDE DEF new
    <2> QED  BY <2>1, <2>3, <2>4 DEF new
<1>2. CASE k < Len(list) /\ End(list[k]) = list[k + 1].start
    <2> DEFINE c == [list[k] EXCEPT !.size = @ + list[k + 1].size]
    <2>0. k + 1 \in 1 .. Len(list)
        BY <1>0, <1>2
    <2>1. /\ c \in Chunk /\ c.start = list[k].start
          /\ c.size = list[k].size + list[k + 1].size
        BY <1>0, <2>0 DEF Chunk
    <2>2. End(c) = End(list[k + 1]) /\ c.start < End(c)
        <3>1. End(c) = c.start + c.size /\ c.start < End(c)
            BY <2>1, ChunkIs
        <3>2. /\ list[k].start \in Nat /\ list[k].size \in Nat /\ list[k + 1].size \in Nat
              /\ End(list[k + 1]) = list[k + 1].start + list[k + 1].size
              /\ End(list[k]) = list[k].start + list[k].size
            BY <1>0, <2>0
        <3> HIDE DEF c
        <3> QED  BY <1>2, <2>1, <3>1, <3>2
    <2>3. new = Without(Replaced(list, k, c), k + 1)
        BY <1>2 DEF MergedWithNext, Replaced
    <2> HIDE DEF c, new
    <2>4. /\ new \in Lists /\ Len(new) = Len(list) - 1
          /\ \A j \in 1 .. Len(list) - 1 :
                new[j] = IF j < k THEN list[j] ELSE IF j = k THEN c ELSE list[j + 1]
        <3>1. /\ Replaced(list, k, c) \in Lists /\ Len(Replaced(list, k, c)) = Len(list)
              /\ \A j \in 1 .. Len(list) :
                    Replaced(list, k, c)[j] = IF j = k THEN c ELSE list[j]
            BY <2>1, ReplacedIs
        <3>2. /\ new \in Lists /\ Len(new) = Len(list) - 1
              /\ \A j \in 1 .. Len(list) - 1 :
                    new[j] = IF j < k + 1 THEN Replaced(list, k, c)[j]
                                          ELSE Replaced(list, k, c)[j + 1]
            <4> DEFINE mid == Replaced(list, k, c)
            <4>1. mid \in Lists /\ k + 1 \in 1 .. Len(mid) /\ Len(mid) = Len(list)
                BY <2>0, <3>1
            <4> HIDE DEF mid
            <4>2. /\ Without(mid, k + 1) \in Lists /\ Len(Without(mid, k + 1)) = Len(mid) - 1
                  /\ \A j \in 1 .. Len(mid) - 1 :
                        Without(mid, k + 1)[j] = IF j < k + 1 THEN mid[j] ELSE mid[j + 1]
                BY <4>1, WithoutIs
            <4> QED  BY <2>3, <4>1, <4>2 DEF mid
        <3>3. ASSUME NEW j \in 1 .. Len(list) - 1
              PROVE  new[j] = IF j < k THEN list[j] ELSE IF j = k THEN c ELSE list[j + 1]
            <4>1. j \in 1 .. Len(list) /\ j + 1 \in 1 .. Len(list)
                BY <1>0
            <4> QED  BY <1>0, <3>1, <3>2, <4>1
        <3> QED  BY <3>2, <3>3
    \* where chunk j of the new list begins and ends in the old one
    <2> DEFINE first(j) == IF j <= k THEN j ELSE j + 1
               final(j) == IF j < k THEN j ELSE j + 1
    <2>5. ASSUME NEW j \in 1 .. Len(new)
          PROVE  /\ first(j) \in 1 .. Len(list) /\ final(j) \in 1 .. Len(list)
                 /\ new[j].start = list[first(j)].start /\ End(new[j]) = End(list[final(j)])
        <3>0. j \in 1 .. Len(list) - 1 /\ j \in 1 .. Len(list) /\ j + 1 \in 1 .. Len(list)
            BY <1>0, <2>4
        <3>1. CASE j < k
            BY <2>4, <3>0, <3>1
        <3>2. CASE j = k
            BY <2>0, <2>1, <2>2, <2>4, <3>0, <3>2
        <3>3. CASE j > k
            BY <2>4, <3>0, <3>3
        <3> QED  BY <3>0, <3>1, <3>2, <3>3
    <2>6. k \in 1 .. Len(new) /\ Len(new) <= Len(list)
        BY <1>0, <1>2, <2>4
    <2>7. Sorted(new)
        <3> SUFFICES ASSUME NEW i \in 1 .. Len(new), NEW j \in 1 .. Len(new), i < j
                     PROVE  End(new[i]) <= new[j].start
            BY DEF Sorted
        <3>1. final(i) < first(j)
            BY <1>0
        <3>2. /\ final(i) \in 1 .. Len(list) /\ first(j) \in 1 .. Len(list)
              /\ new[j].start = list[first(j)].start /\ End(new[i]) = End(list[final(i)])
            BY <2>5
        <3> HIDE DEF first, final
        <3> QED  BY <3>1, <3>2 DEF Sorted
    <2>8. HoldHeaders(list) => HoldHeaders(new)
        <3> SUFFICES ASSUME HoldHeaders(list), NEW j \in 1 .. Len(new)
                     PROVE  new[j].size >= CHUNK_SIZE
            BY DEF HoldHeaders
        <3>0. j \in 1 .. Len(list) - 1 /\ j \in 1 .. Len(list) /\ j + 1 \in 1 .. Len(list)
            BY <1>0, <2>4
        <3>1. CASE j = k
            <4>1. new[j] = c
                BY <2>4, <3>0, <3>1
            <4>2. list[k].size \in Nat /\ list[k + 1].size \in Nat /\ list[k].size >= CHUNK_SIZE
                BY <1>0, <2>0 DEF HoldHeaders
            <4>3. CHUNK_SIZE \in Nat
                BY HeapAssumption
            <4> QED  BY <2>1, <4>1, <4>2, <4>3
        <3>2. CASE j < k
            BY <2>4, <3>0, <3>2 DEF HoldHeaders
        <3>3. CASE j > k
            <4>1. new[j] = list[j + 1]
                BY <2>4, <3>0, <3>3
            <4> QED  BY <3>0, <4>1 DEF HoldHeaders
        <3> QED  BY <3>0, <3>1, <3>2, <3>3
    <2>9. WholeChunks(list) => WholeChunks(new)
        <3> SUFFICES ASSUME WholeChunks(list), NEW j \in 1 .. Len(new)
                     PROVE  Whole(new[j].start) /\ Whole(new[j].size)
            BY DEF WholeChunks
        <3>1. CASE j = k
            <4>1. Whole(list[k].start) /\ Whole(list[k].size) /\ Whole(list[k + 1].size)
                BY <2>0 DEF WholeChunks
            <4>2. /\ new[j] = c /\ list[k].size \in Nat /\ list[k + 1].size \in Nat
                BY <1>0, <2>0, <2>4, <3>1
            <4>3. Whole(list[k].size + list[k + 1].size)
                BY <4>1, <4>2, WholeSum, HeapAssumption DEF Whole
            <4> QED  BY <2>1, <4>1, <4>2, <4>3
        <3>2. CASE j < k
            <4>1. j \in 1 .. Len(list) /\ new[j] = list[j]
                BY <1>0, <2>4, <3>2
            <4> QED  BY <4>1 DEF WholeChunks
        <3>3. CASE j > k
            <4>1. j + 1 \in 1 .. Len(list) /\ new[j] = list[j + 1]
                BY <1>0, <2>4, <3>3
            <4> QED  BY <4>1 DEF WholeChunks
        <3> QED  BY <1>0, <2>4, <3>1, <3>2, <3>3
    <2>10. ASSUME NEW x \in Nat, InList(new, x) PROVE InList(list, x)
        <3>1. PICK j \in 1 .. Len(new) : InChunk(new[j], x)
            BY <2>10 DEF InList
        <3>2. CASE j = k
            <4>1. list[k].start <= x /\ x < End(list[k + 1])
                BY <1>0, <2>1, <2>2, <2>4, <3>1, <3>2 DEF InChunk
            <4>2. InChunk(list[k], x) \/ InChunk(list[k + 1], x)
                BY <1>0, <1>2, <2>0, <4>1 DEF InChunk
            <4> QED  BY <2>0, <4>2 DEF InList
        <3>3. CASE j < k
            BY <1>0, <2>4, <3>1, <3>3 DEF InList
        <3>4. CASE j > k
            <4>1. j + 1 \in 1 .. Len(list) /\ new[j] = list[j + 1]
                BY <1>0, <2>4, <3>4
            <4> QED  BY <3>1, <4>1 DEF InList
        <3> QED  BY <1>0, <2>4, <3>2, <3>3, <3>4
    <2>11. ASSUME NEW x \in Nat, InList(list, x) PROVE InList(new, x)
        <3>1. PICK i \in 1 .. Len(list) : InChunk(list[i], x)
            BY <2>11 DEF InList
        <3>2. CASE i = k \/ i = k + 1
            <4>1. list[k].start <= x /\ x < End(list[k + 1])
                BY <1>0, <1>2, <2>0, <3>1, <3>2 DEF InChunk
            <4>2. InChunk(new[k], x)
                BY <2>1, <2>2, <2>4, <2>6, <4>1 DEF InChunk
            <4> QED  BY <2>6, <4>2 DEF InList
        <3>3. CASE i < k
            BY <1>0, <2>4, <2>6, <3>1, <3>3, SMTT(30) DEF InList
        <3>4. CASE i > k + 1
            <4>1. i - 1 \in 1 .. Len(new) /\ new[i - 1] = list[i]
                BY <1>0, <2>4, <3>4
            <4> QED  BY <3>1, <4>1 DEF InList
        <3> QED  BY <1>0, <3>2, <3>3, <3>4
    <2>12. ASSUME NEW j \in 1 .. Len(new), j < Len(new), final(j) < Len(list),
                  GapAfter(list, final(j))
           PROVE  GapAfter(new, j)
        <3>1. j + 1 \in 1 .. Len(new) /\ first(j + 1) = final(j) + 1
            BY <1>0, <2>4, <2>12
        <3>2. End(new[j]) = End(list[final(j)]) /\ new[j + 1].start = list[final(j) + 1].start
            BY <2>5, <3>1
        <3> HIDE DEF first, final
        <3> QED  BY <2>12, <3>2 DEF GapAfter
    <2>13. \A j \in 1 .. k - 1 : GapAfter(list, j) => GapAfter(new, j)
        <3> SUFFICES ASSUME NEW j \in 1 .. k - 1, GapAfter(list, j) PROVE GapAfter(new, j)
            OBVIOUS
        <3>1. j \in 1 .. Len(new) /\ j < Len(new) /\ final(j) = j /\ j < Len(list)
            BY <1>0, <2>4, <2>6
        <3> HIDE DEF first, final
        <3> QED  BY <2>12, <3>1
    <2>14. ASSUME \A j \in k + 1 .. Len(list) : GapAfter(list, j),
                  NEW j \in k .. Len(new)
           PROVE  GapAfter(new, j)
        <3> SUFFICES ASSUME j < Len(new) PROVE GapAfter(new, j)
            BY DEF GapAfter
        <3>1. /\ j \in 1 .. Len(new) /\ final(j) = j + 1 /\ j + 1 \in k + 1 .. Len(list)
              /\ j + 1 < Len(list)
            BY <1>0, <2>4, <2>6
        <3>2. GapAfter(list, final(j)) /\ final(j) < Len(list)
            BY <2>14, <3>1
        <3> HIDE DEF first, final
        <3> QED  BY <2>12, <3>1, <3>2
    <2> QED  BY <2>4, <2>6, <2>7, <2>8, <2>9, <2>10, <2>11, <2>13, <2>14 DEF new
<1> QED  BY <1>1, <1>2

\* Both merges: the list again has a gap after every chunk.
LEMMA JoinedIs ==
    ASSUME NEW list \in Lists, NEW k \in 1 .. Len(list), Sorted(list),
           \A j \in 1 .. k - 2 : GapAfter(list, j),
           \A j \in k + 1 .. Len(list) : GapAfter(list, j)
    PROVE  /\ Joined(list, k) \in Lists
           /\ Sorted(Joined(list, k))
           /\ \A j \in 1 .. Len(Joined(list, k)) : GapAfter(Joined(list, k), j)
           /\ HoldHeaders(list) => HoldHeaders(Joined(list, k))
           /\ WholeChunks(list) => WholeChunks(Joined(list, k))
           /\ \A x \in Nat : InList(Joined(list, k), x) <=> InList(list, x)
<1> DEFINE forward == MergedWithNext(list, k)
<1>0. Len(list) \in Nat
    BY ListIs
<1>1. /\ forward \in Lists /\ k \in 1 .. Len(forward) /\ Sorted(forward)
      /\ HoldHeaders(list) => HoldHeaders(forward)
      /\ WholeChunks(list) => WholeChunks(forward)
      /\ \A x \in Nat : InList(forward, x) <=> InList(list, x)
      /\ \A j \in 1 .. k - 1 : GapAfter(list, j) => GapAfter(forward, j)
      /\ \A j \in k .. Len(forward) : GapAfter(forward, j)
    BY MergedIs
<1>2. Len(forward) \in Nat
    BY <1>1, ListIs
<1> HIDE DEF forward
<1>3. CASE k = 1
    <2>1. Joined(list, k) = forward
        BY <1>3 DEF Joined, forward
    <2>2. \A j \in 1 .. Len(forward) : GapAfter(forward, j)
        BY <1>1, <1>3
    <2> QED  BY <1>1, <2>1, <2>2
<1>4. CASE k > 1
    <2> DEFINE new == MergedWithNext(forward, k - 1)
    <2>1. Joined(list, k) = new
        BY <1>4 DEF Joined, forward
    <2>2. k - 1 \in 1 .. Len(forward) /\ (k - 1) + 1 = k
        BY <1>1, <1>2, <1>4
    <2>3. \A j \in (k - 1) + 1 .. Len(forward) : GapAfter(forward, j)
        BY <1>1, <2>2
    <2>4. /\ new \in Lists /\ Sorted(new)
          /\ HoldHeaders(forward) => HoldHeaders(new)
          /\ WholeChunks(forward) => WholeChunks(new)
          /\ \A x \in Nat : InList(new, x) <=> InList(forward, x)
          /\ \A j \in 1 .. (k - 1) - 1 : GapAfter(forward, j) => GapAfter(new, j)
          /\ \A j \in k - 1 .. Len(new) : GapAfter(new, j)
        BY <1>1, <2>2, <2>3, MergedIs
    <2>5. Len(new) \in Nat
        BY <2>4, ListIs
    <2> HIDE DEF new
    <2>6. ASSUME NEW j \in 1 .. Len(new) PROVE GapAfter(new, j)
        <3>1. CASE j < k - 1
            <4>1. j \in 1 .. k - 2 /\ j \in 1 .. k - 1 /\ j \in 1 .. (k - 1) - 1
                BY <3>1
            <4> QED  BY <1>1, <2>4, <4>1
        <3>2. CASE j >= k - 1
            BY <2>4, <2>5, <3>2
        <3> QED  BY <3>1, <3>2
    <2> QED  BY <1>1, <2>1, <2>4, <2>6
<1> QED  BY <1>3, <1>4

\* The freed chunk linked in where dealloc's walk stops: the list stays in
\* order, and only the new chunk may touch its neighbours.
LEMMA InsertedBytes ==
    ASSUME free \in Lists, Sorted(free), \A j \in 1 .. Len(free) : GapAfter(free, j),
           NEW k \in 1 .. Len(free) + 1, NEW c \in Chunk, InsertsAt(c, k),
           \A x \in Nat : ~ (InChunk(c, x) /\ InList(free, x))
    PROVE  /\ Inserted(c, k) \in Lists /\ k \in 1 .. Len(Inserted(c, k))
           /\ Sorted(Inserted(c, k))
           /\ \A j \in 1 .. k - 2 : GapAfter(Inserted(c, k), j)
           /\ \A j \in k + 1 .. Len(Inserted(c, k)) : GapAfter(Inserted(c, k), j)
           /\ HoldHeaders(free) /\ c.size >= CHUNK_SIZE => HoldHeaders(Inserted(c, k))
           /\ WholeChunks(free) /\ Whole(c.start) /\ Whole(c.size) =>
                  WholeChunks(Inserted(c, k))
           /\ \A x \in Nat : InList(Inserted(c, k), x) <=> InList(free, x) \/ InChunk(c, x)
<1> DEFINE new == Inserted(c, k)
<1>0. /\ Len(free) \in Nat /\ new \in Lists /\ Len(new) = Len(free) + 1
      /\ \A j \in 1 .. Len(free) + 1 :
            new[j] = IF j < k THEN free[j] ELSE IF j = k THEN c ELSE free[j - 1]
    BY ListIs, InsertedIs
<1>1. /\ \A j \in 1 .. Len(free) :
            free[j].start \in Nat /\ End(free[j]) \in Nat /\ free[j].start < End(free[j])
      /\ c.start \in Nat /\ End(c) \in Nat /\ c.start < End(c)
    BY ListIs, ChunkIs
<1> HIDE DEF new
<1>2. ASSUME NEW j \in 1 .. Len(free), j < k PROVE End(free[j]) <= c.start
    <2>1. free[j].start < c.start
        BY <1>2 DEF InsertsAt
    <2>2. InChunk(c, c.start)
        BY <1>1 DEF InChunk
    <2>3. ~ InChunk(free[j], c.start)
        BY <1>1, <2>2 DEF InList
    <2> QED  BY <1>1, <2>1, <2>3 DEF InChunk
<1>3. ASSUME NEW j \in 1 .. Len(free), j >= k PROVE End(c) <= free[j].start
    <2>0. k \in 1 .. Len(free) /\ free[k].start >= c.start
        BY <1>0, <1>3 DEF InsertsAt
    <2>1. free[j].start >= c.start
        <3>1. CASE j = k
            BY <2>0, <3>1
        <3>2. CASE j > k
            <4>1. End(free[k]) <= free[j].start
                BY <2>0, <3>2 DEF Sorted
            <4>2. /\ free[k].start \in Nat /\ free[k].start < End(free[k])
                  /\ End(free[k]) \in Nat /\ free[j].start \in Nat /\ c.start \in Nat
                BY <1>1, <2>0
            <4> QED  BY <2>0, <4>1, <4>2
        <3> QED  BY <1>3, <3>1, <3>2
    <2>2. InChunk(free[j], free[j].start) /\ free[j].start \in Nat
        BY <1>1 DEF InChunk
    <2>3. ~ InChunk(c, free[j].start)
        BY <2>2 DEF InList
    <2> QED  BY <1>1, <2>1, <2>3 DEF InChunk
<1>4. Sorted(new)
    <2> SUFFICES ASSUME NEW i \in 1 .. Len(new), NEW j \in 1 .. Len(new), i < j
                 PROVE  End(new[i]) <= new[j].start
        BY DEF Sorted
    <2>1. CASE j < k
        BY <1>0, <2>1 DEF Sorted
    <2>2. CASE j = k
        BY <1>0, <1>2, <2>2
    <2>3. CASE i = k
        <3>1. j - 1 \in 1 .. Len(free) /\ new[j] = free[j - 1] /\ new[i] = c /\ j - 1 >= k
            BY <1>0, <2>3
        <3> QED  BY <1>3, <3>1
    <2>4. CASE i < k /\ j > k
        <3>1. /\ j - 1 \in 1 .. Len(free) /\ i \in 1 .. Len(free) /\ i < j - 1
              /\ new[j] = free[j - 1] /\ new[i] = free[i]
            BY <1>0, <2>4
        <3> QED  BY <3>1 DEF Sorted
    <2>5. CASE i > k
        <3>1. /\ j - 1 \in 1 .. Len(free) /\ i - 1 \in 1 .. Len(free) /\ i - 1 < j - 1
              /\ new[j] = free[j - 1] /\ new[i] = free[i - 1]
            BY <1>0, <2>5
        <3> QED  BY <3>1 DEF Sorted
    <2> QED  BY <1>0, <2>1, <2>2, <2>3, <2>4, <2>5
<1>5. ASSUME NEW j \in 1 .. k - 2 PROVE GapAfter(new, j)
    <2>1. j \in 1 .. Len(free) /\ j < Len(free) /\ new[j] = free[j] /\ new[j + 1] = free[j + 1]
        BY <1>0
    <2> QED  BY <2>1 DEF GapAfter
<1>6. ASSUME NEW j \in k + 1 .. Len(new) PROVE GapAfter(new, j)
    <2> SUFFICES ASSUME j < Len(new) PROVE End(new[j]) < new[j + 1].start
        BY DEF GapAfter
    <2>1. /\ j - 1 \in 1 .. Len(free) /\ j - 1 < Len(free) /\ new[j] = free[j - 1]
          /\ new[j + 1] = free[(j - 1) + 1]
        BY <1>0
    <2> QED  BY <2>1 DEF GapAfter
<1>7. ASSUME NEW j \in 1 .. Len(new)
      PROVE  \/ j = k /\ new[j] = c
             \/ \E i \in 1 .. Len(free) : new[j] = free[i]
    <2>1. CASE j < k
        BY <1>0, <2>1
    <2>2. CASE j = k
        BY <1>0, <2>2
    <2>3. CASE j > k
        <3>1. j - 1 \in 1 .. Len(free) /\ new[j] = free[j - 1]
            BY <1>0, <2>3
        <3> QED  BY <3>1
    <2> QED  BY <1>0, <2>1, <2>2, <2>3
<1>8. HoldHeaders(free) /\ c.size >= CHUNK_SIZE => HoldHeaders(new)
    BY <1>7 DEF HoldHeaders
<1>9. WholeChunks(free) /\ Whole(c.start) /\ Whole(c.size) => WholeChunks(new)
    BY <1>7 DEF WholeChunks
<1>10. ASSUME NEW x \in Nat, InList(new, x) PROVE InList(free, x) \/ InChunk(c, x)
    BY <1>7, <1>10 DEF InList
<1>11. k \in 1 .. Len(new) /\ new[k] = c
    BY <1>0
<1>12. ASSUME NEW x \in Nat, InList(free, x) PROVE InList(new, x)
    <2>1. PICK i \in 1 .. Len(free) : InChunk(free[i], x)
        BY <1>12 DEF InList
    <2>2. CASE i < k
        BY <1>0, <2>1, <2>2 DEF InList
    <2>3. CASE i >= k
        <3>1. i + 1 \in 1 .. Len(new) /\ new[i + 1] = free[i]
            BY <1>0, <2>3
        <3> QED  BY <2>1, <3>1 DEF InList
    <2> QED  BY <2>2, <2>3
<1>13. ASSUME NEW x \in Nat, InChunk(c, x) PROVE InList(new, x)
    BY <1>11, <1>13 DEF InList
<1> QED  BY <1>0, <1>4, <1>5, <1>6, <1>8, <1>9, <1>10, <1>11, <1>12, <1>13 DEF new

------------------------------------------------------------------------------
(* HeapInv is inductive.                                                   *)

\* What a layout asks for.
LEMMA LayoutIs ==
    ASSUME layouts \in Workloads, NEW layout \in layouts
    PROVE  /\ layout \in Layout
           /\ BlockSize(layout) \in Nat /\ BlockSize(layout) >= CHUNK_SIZE
           /\ CHUNK_SIZE \in Nat \ {0} /\ HEAP_SIZE \in Nat
           /\ WholeRequests => Whole(BlockSize(layout))
<1>1. layout \in Layout /\ CHUNK_SIZE \in Nat \ {0} /\ HEAP_SIZE \in Nat
    BY HeapAssumption DEF Layout
<1>2. layout.size \in Nat \ {0}
    BY <1>1 DEF Layout
<1>3. BlockSize(layout) \in Nat /\ BlockSize(layout) >= CHUNK_SIZE
    BY <1>1, <1>2 DEF BlockSize, Larger
<1>4. ASSUME WholeRequests PROVE Whole(BlockSize(layout))
    <2>1. layout.size < CHUNK_SIZE \/ layout.size % CHUNK_SIZE = 0
        BY <1>4 DEF WholeRequests
    <2>2. CHUNK_SIZE % CHUNK_SIZE = 0
        BY <1>1
    <2> QED  BY <1>1, <1>2, <2>1, <2>2 DEF Whole, BlockSize, Larger
<1> QED  BY <1>1, <1>3, <1>4

\* The address alloc answers with: not below the chunk's, and for whole
\* requests exactly the chunk's.
LEMMA AlignUpIs ==
    ASSUME layouts \in Workloads, NEW layout \in layouts, NEW start \in Nat
    PROVE  /\ AlignUp(start, layout) \in Nat
           /\ AlignUp(start, layout) >= start
           /\ WholeRequests /\ Whole(start) => AlignUp(start, layout) = start
<1> DEFINE align == Larger(layout.align, CHUNK_ALIGN)
<1>1. layout.align \in Nat \ {0} /\ CHUNK_ALIGN \in Nat \ {0}
      /\ CHUNK_SIZE \in Nat \ {0} /\ CHUNK_SIZE % CHUNK_ALIGN = 0
    BY LayoutIs, HeapAssumption DEF Layout
<1>2. align \in Nat \ {0} /\ (align = layout.align \/ align = CHUNK_ALIGN)
    BY <1>1 DEF Larger
<1>3. AlignUp(start, layout) = ((start + align - 1) \div align) * align
    BY DEF AlignUp
<1> HIDE DEF align
<1>4. ASSUME WholeRequests, Whole(start) PROVE start % align = 0
    <2>1. CHUNK_SIZE % layout.align = 0
        <3>1. layout.align <= CHUNK_SIZE
            BY <1>4 DEF WholeRequests
        <3> QED  BY <3>1, PowersOfTwoAssumption
    <2>2. CHUNK_SIZE % align = 0
        BY <1>1, <1>2, <2>1
    <2> QED  BY <1>1, <1>2, <1>4, <2>2, WholeOfDivisor DEF Whole
<1> QED  BY <1>2, <1>3, <1>4, RoundedUp

\* init establishes the invariant.
LEMMA InitIsSound == Init => HeapInv
<1> SUFFICES ASSUME Init PROVE HeapInv
    OBVIOUS
<1> DEFINE c == [start |-> 0, size |-> HEAP_SIZE]
<1>1. layouts \in Workloads /\ free = <<c>> /\ live = {}
    BY DEF Init
<1>2. /\ HEAP_SIZE \in Nat \ {0} /\ CHUNK_SIZE \in Nat \ {0} /\ HEAP_SIZE >= CHUNK_SIZE
      /\ HEAP_SIZE % CHUNK_SIZE = 0
    BY HeapAssumption, PowersOfTwoAssumption
<1>3. c \in Chunk /\ c.start = 0 /\ c.size = HEAP_SIZE /\ End(c) = HEAP_SIZE
    BY <1>2, NewChunk
<1> HIDE DEF c
<1>4. free \in Seq(Chunk) /\ Len(free) = 1 /\ free[1] = c
    BY <1>1, <1>3
<1>5. \A x \in Nat : InList(free, x) <=> x < HEAP_SIZE
    BY <1>2, <1>3, <1>4 DEF InList, InChunk
<1>6. Types
    BY <1>1, <1>4 DEF Types
<1>7. FreeListIsSorted
    BY <1>2, <1>3, <1>4 DEF FreeListIsSorted, Sorted, HoldHeaders, GapAfter
<1>8. BytesHaveOneOwner
    BY <1>1, <1>5 DEF BytesHaveOneOwner
<1>9. HeapIsTiled
    <2>1. Whole(c.start) /\ Whole(c.size)
        BY <1>2, <1>3 DEF Whole
    <2>2. WholeChunks(free)
        BY <1>4, <2>1 DEF WholeChunks
    <2> QED  BY <1>1, <1>5, <2>2 DEF HeapIsTiled
<1> QED  BY <1>6, <1>7, <1>8, <1>9 DEF HeapInv

\* A block cut from s on out of what ends at e.
LEMMA CutIs ==
    ASSUME NEW f \in Nat, NEW s \in Nat, NEW n \in Nat, NEW e \in Nat,
           NEW end, end = s + n, end <= e, NEW rest, rest = e - end, f <= s
    PROVE  /\ end \in Nat /\ rest \in Nat /\ end + rest = e /\ f <= end
           /\ end <= end /\ e <= e
OBVIOUS

\* The free list's part in AllocIsSound: the bytes from the chunk's start to
\* the end of the block leave it.
LEMMA AllocFreeList ==
    ASSUME Types, FreeListIsSorted, NEW layout \in layouts, NEW k \in 1 .. Len(free),
           NEW start \in Nat, free[k].start <= start,
           NEW end, end = start + BlockSize(layout), end <= End(free[k]),
           NEW rest, rest = End(free[k]) - end,
           NEW new, new = IF Splits(rest)
                          THEN Replaced(free, k, [start |-> end, size |-> rest])
                          ELSE Without(free, k),
           NEW to, to = IF Splits(rest) THEN end ELSE end + rest
    PROVE  /\ new \in Lists /\ Sorted(new) /\ HoldHeaders(new)
           /\ \A j \in 1 .. Len(new) : GapAfter(new, j)
           /\ to \in Nat /\ end <= to /\ to <= End(free[k])
           /\ \A x \in Nat : InList(new, x) <=>
                                 InList(free, x) /\ ~ (free[k].start <= x /\ x < to)
           /\ WholeRequests /\ WholeChunks(free) /\ start = free[k].start =>
                  WholeChunks(new) /\ to = end
<1> DEFINE c == free[k]
           r == [start |-> end, size |-> rest]
<1>0. /\ free \in Lists /\ layouts \in Workloads
      /\ Sorted(free) /\ HoldHeaders(free) /\ \A j \in 1 .. Len(free) : GapAfter(free, j)
    BY DEF Types, FreeListIsSorted, Lists
<1>1. /\ BlockSize(layout) \in Nat /\ BlockSize(layout) >= CHUNK_SIZE
      /\ CHUNK_SIZE \in Nat \ {0} /\ (WholeRequests => Whole(BlockSize(layout)))
    BY <1>0, LayoutIs
<1>2. /\ c.start \in Nat /\ End(c) \in Nat /\ c.start < End(c) /\ c.size \in Nat
      /\ End(c) = c.start + c.size /\ c.start <= start /\ end <= End(c)
      /\ rest = End(c) - end
    BY <1>0, ListIs
<1> HIDE DEF c
<1>3. /\ end \in Nat /\ rest \in Nat /\ end + rest = End(c) /\ c.start <= end
      /\ end <= end /\ End(c) <= End(c)
    <2>1. /\ c.start \in Nat /\ BlockSize(layout) \in Nat /\ End(c) \in Nat
          /\ end = start + BlockSize(layout) /\ end <= End(c) /\ rest = End(c) - end
          /\ c.start <= start /\ start \in Nat
        BY <1>1, <1>2
    <2> DEFINE f == c.start
               e == End(c)
               n == BlockSize(layout)
    <2>2. /\ f \in Nat /\ n \in Nat /\ e \in Nat /\ end = start + n /\ end <= e
          /\ rest = e - end /\ f <= start /\ start \in Nat
        BY <2>1
    <2> HIDE DEF f, e, n
    <2>3. end \in Nat /\ rest \in Nat /\ end + rest = e /\ f <= end /\ end <= end /\ e <= e
        BY <2>2, CutIs
    <2> QED  BY <2>3 DEF f, e
<1>4. ASSUME WholeRequests, WholeChunks(free), start = c.start
      PROVE  Whole(end) /\ Whole(rest)
    <2>1. Whole(c.start) /\ Whole(c.size) /\ Whole(BlockSize(layout))
        BY <1>1, <1>4 DEF WholeChunks, c
    <2>2. Whole(c.start + BlockSize(layout)) /\ Whole(c.start + c.size)
        BY <1>1, <1>2, <2>1, WholeSum DEF Whole
    <2>3. Whole(end) /\ Whole(End(c))
        BY <1>2, <1>4, <2>2
    <2>4. Whole(End(c) - end)
        BY <1>1, <1>2, <1>3, <2>3, WholeDifference DEF Whole
    <2> QED  BY <1>2, <2>3, <2>4
<1>5. CASE Splits(rest)
    <2>1. rest >= CHUNK_SIZE
        BY <1>5 DEF Splits
    <2>2. r \in Chunk /\ r.start = end /\ r.size = rest /\ End(r) = end + rest
        <3>1. rest \in Nat \ {0}
            BY <1>1, <1>3, <2>1
        <3> QED  BY <1>3, <3>1, NewChunk
    <2>3. new = Replaced(free, k, r) /\ to = end
        BY <1>5
    <2> HIDE DEF r
    <2>4. /\ new \in Lists /\ Len(new) = Len(free)
          /\ \A j \in 1 .. Len(free) : new[j] = IF j = k THEN r ELSE free[j]
        BY <1>0, <2>2, <2>3, ReplacedIs
    <2>5. /\ Sorted(new) /\ \A j \in 1 .. Len(free) : GapAfter(new, j)
          /\ \A x \in Nat : InList(new, x) <=>
                                InList(free, x) /\ ~ (free[k].start <= x /\ x < r.start)
        <3>1. free[k].start <= r.start /\ End(r) = End(free[k])
            BY <1>3, <2>2 DEF c
        <3>2. /\ Sorted(Replaced(free, k, r))
              /\ \A j \in 1 .. Len(free) : GapAfter(Replaced(free, k, r), j)
              /\ \A x \in Nat : InList(Replaced(free, k, r), x) <=>
                     InList(free, x) /\ ~ (free[k].start <= x /\ x < r.start)
            BY <1>0, <2>2, <3>1, ReplacedBytes
        <3> QED  BY <2>3, <3>2
    <2>6. HoldHeaders(new)
        BY <1>0, <2>1, <2>2, <2>4 DEF HoldHeaders
    <2>7. ASSUME WholeRequests, WholeChunks(free), start = c.start
          PROVE  WholeChunks(new)
        BY <1>4, <2>2, <2>4, <2>7 DEF WholeChunks
    <2> QED  BY <1>2, <1>3, <2>2, <2>3, <2>4, <2>5, <2>6, <2>7 DEF c
<1>6. CASE ~ Splits(rest)
    <2>1. rest < CHUNK_SIZE
        BY <1>1, <1>3, <1>6 DEF Splits
    <2>2. new = Without(free, k) /\ to = end + rest
        BY <1>6
    <2>3. new \in Lists /\ to = End(c)
        BY <1>0, <1>3, <2>2, WithoutIs
    <2>4. /\ Sorted(new) /\ HoldHeaders(new)
          /\ \A j \in 1 .. Len(new) : GapAfter(new, j)
          /\ WholeChunks(free) => WholeChunks(new)
          /\ \A x \in Nat : InList(new, x) <=> InList(free, x) /\ ~ InChunk(free[k], x)
        BY <1>0, <2>2, WithoutBytes
    <2>5. ASSUME WholeRequests, WholeChunks(free), start = c.start
          PROVE  to = end
        <3>1. rest % CHUNK_SIZE = 0
            BY <1>4, <2>5 DEF Whole
        <3>2. rest = 0
            BY <1>1, <1>3, <2>1, <3>1, SmallMultiple
        <3> QED  BY <1>3, <2>2, <3>2
    <2>6. end <= to /\ to \in Nat /\ to <= End(c)
        <3>1. end <= End(c) /\ End(c) \in Nat /\ End(c) <= End(c)
            BY <1>2, <1>3
        <3> QED  BY <2>3, <3>1
    <2> QED  BY <2>3, <2>4, <2>5, <2>6 DEF InChunk, c
<1> QED  BY <1>5, <1>6

\* alloc keeps the invariant.
LEMMA AllocIsSound ==
    ASSUME HeapInv, NEW layout \in layouts, NEW k \in DOMAIN free, Alloc(layout, k)
    PROVE  HeapInv'
<1> DEFINE c == free[k]
           start == AlignUp(c.start, layout)
           end == start + BlockSize(layout)
           rest == End(c) - end
           to == IF Splits(rest) THEN end ELSE end + rest
           b == [start |-> start, layout |-> layout, end |-> to]
<1>0. /\ Types /\ FreeListIsSorted /\ BytesHaveOneOwner /\ (WholeRequests => HeapIsTiled)
      /\ free \in Lists /\ layouts \in Workloads /\ live \subseteq Allocation
    BY DEF HeapInv, Types, Lists
<1>1. k \in 1 .. Len(free) /\ c.start \in Nat /\ End(c) \in Nat /\ c.start < End(c)
    BY <1>0, ListIs
<1>2. /\ layout \in Layout /\ BlockSize(layout) \in Nat /\ BlockSize(layout) >= CHUNK_SIZE
      /\ CHUNK_SIZE \in Nat \ {0} /\ HEAP_SIZE \in Nat
    BY <1>0, LayoutIs
<1>3. /\ start \in Nat /\ c.start <= start
      /\ WholeRequests /\ Whole(c.start) => start = c.start
    BY <1>0, <1>1, AlignUpIs
<1>4. /\ end <= End(c) /\ layouts' = layouts /\ live' = live \cup {b}
      /\ free' = IF Splits(rest) THEN Replaced(free, k, [start |-> end, size |-> rest])
                 ELSE Without(free, k)
    BY DEF Alloc, FirstFit, Fits, Replaced
<1> HIDE DEF start
<1>5. /\ free' \in Lists /\ Sorted(free') /\ HoldHeaders(free')
      /\ \A j \in 1 .. Len(free') : GapAfter(free', j)
      /\ to \in Nat /\ end <= to /\ to <= End(c)
      /\ \A x \in Nat : InList(free', x) <=> InList(free, x) /\ ~ (c.start <= x /\ x < to)
      /\ WholeRequests /\ WholeChunks(free) /\ start = c.start =>
             WholeChunks(free') /\ to = end
    BY <1>0, <1>1, <1>3, <1>4, AllocFreeList
<1>6. b \in Allocation /\ b.start = start /\ b.end = to /\ b.layout = layout
    BY <1>2, <1>3, <1>5 DEF Allocation
<1> HIDE DEF b, to
<1>7. \A x \in Nat : InBlock(b, x) => InList(free, x) /\ c.start <= x /\ x < to
    <2> SUFFICES ASSUME NEW x \in Nat, InBlock(b, x)
                 PROVE  InList(free, x) /\ c.start <= x /\ x < to
        OBVIOUS
    <2>1. start <= x /\ x < to
        BY <1>6 DEF InBlock
    <2> HIDE DEF c
    <2>2. c.start <= x /\ x < End(c)
        BY <1>1, <1>3, <1>5, <2>1
    <2> QED  BY <1>1, <2>1, <2>2 DEF InList, InChunk, c
<1>8. Types'
    BY <1>0, <1>4, <1>5, <1>6 DEF Types, Lists
<1>9. FreeListIsSorted'
    BY <1>5 DEF FreeListIsSorted
<1>10. BytesHaveOneOwner'
    <2>1. \A x \in Nat : InList(free', x) => x < HEAP_SIZE
        BY <1>0, <1>5 DEF BytesHaveOneOwner
    <2>2. b.start + BlockSize(b.layout) <= b.end /\ b.end <= HEAP_SIZE
        <3>1. End(c) - 1 \in Nat /\ InChunk(c, End(c) - 1)
            BY <1>1 DEF InChunk
        <3>2. End(c) - 1 < HEAP_SIZE
            BY <1>0, <1>1, <3>1 DEF BytesHaveOneOwner, InList
        <3> HIDE DEF c
        <3> QED  BY <1>1, <1>2, <1>5, <1>6, <3>2
    <2>3. \A a \in live : \A x \in Nat : ~ (InBlock(a, x) /\ InBlock(b, x))
        BY <1>0, <1>7 DEF BytesHaveOneOwner
    <2>4. \A a, d \in live' : a # d => \A x \in Nat : ~ (InBlock(a, x) /\ InBlock(d, x))
        BY <1>0, <1>4, <2>3 DEF BytesHaveOneOwner
    <2>5. \A a \in live' : \A x \in Nat : ~ (InBlock(a, x) /\ InList(free', x))
        BY <1>0, <1>4, <1>5, <1>7 DEF BytesHaveOneOwner
    <2>6. \A a \in live' : a.start + BlockSize(a.layout) <= a.end /\ a.end <= HEAP_SIZE
        BY <1>0, <1>4, <2>2 DEF BytesHaveOneOwner
    <2> QED  BY <2>1, <2>4, <2>5, <2>6 DEF BytesHaveOneOwner
<1>11. ASSUME WholeRequests' PROVE HeapIsTiled'
    <2>1. WholeRequests /\ HeapIsTiled
        BY <1>0, <1>4, <1>11 DEF WholeRequests
    <2>2. Whole(c.start) /\ WholeChunks(free)
        BY <1>1, <2>1 DEF HeapIsTiled, WholeChunks
    <2>3. start = c.start /\ to = end /\ WholeChunks(free')
        BY <1>3, <1>5, <2>1, <2>2
    <2>4. \A a \in live' : Whole(a.start) /\ a.end = a.start + BlockSize(a.layout)
        BY <1>4, <1>6, <2>1, <2>2, <2>3 DEF HeapIsTiled
    <2>5. ASSUME NEW x \in Nat, x < HEAP_SIZE
          PROVE  InList(free', x) \/ \E a \in live' : InBlock(a, x)
        <3>1. CASE c.start <= x /\ x < to
            BY <1>4, <1>6, <2>3, <3>1 DEF InBlock
        <3>2. CASE ~ (c.start <= x /\ x < to)
            BY <1>4, <1>5, <2>1, <2>5, <3>2 DEF HeapIsTiled
        <3> QED  BY <3>1, <3>2
    <2> QED  BY <2>3, <2>4, <2>5 DEF HeapIsTiled
<1> QED  BY <1>8, <1>9, <1>10, <1>11 DEF HeapInv

\* dealloc keeps the invariant.
LEMMA DeallocIsSound ==
    ASSUME HeapInv, NEW a \in live, NEW k \in 1 .. Len(free) + 1, Dealloc(a, k)
    PROVE  HeapInv'
<1> DEFINE c == [start |-> a.start, size |-> BlockSize(a.layout)]
           mid == Inserted(c, k)
<1>0. /\ Types /\ FreeListIsSorted /\ BytesHaveOneOwner /\ (WholeRequests => HeapIsTiled)
      /\ free \in Lists /\ layouts \in Workloads /\ live \subseteq Allocation
      /\ a.layout \in layouts /\ a \in Allocation
    BY DEF HeapInv, Types, Lists
<1>1. /\ InsertsAt(c, k) /\ free' = Joined(mid, k)
      /\ live' = live \ {a} /\ layouts' = layouts
    BY DEF Dealloc
<1>2. /\ BlockSize(a.layout) \in Nat \ {0} /\ BlockSize(a.layout) >= CHUNK_SIZE
      /\ HEAP_SIZE \in Nat /\ (WholeRequests => Whole(BlockSize(a.layout)))
    <2>1. /\ BlockSize(a.layout) \in Nat /\ BlockSize(a.layout) >= CHUNK_SIZE
          /\ CHUNK_SIZE \in Nat \ {0} /\ HEAP_SIZE \in Nat
          /\ (WholeRequests => Whole(BlockSize(a.layout)))
        BY <1>0, LayoutIs
    <2> QED  BY <2>1
<1>3. /\ a.start \in Nat /\ a.end \in Nat
      /\ a.start + BlockSize(a.layout) <= a.end /\ a.end <= HEAP_SIZE
    BY <1>0 DEF Allocation, BytesHaveOneOwner
<1>4. /\ c \in Chunk /\ c.start = a.start /\ c.size = BlockSize(a.layout)
      /\ End(c) = a.start + BlockSize(a.layout)
    BY <1>2, <1>3, NewChunk
<1> HIDE DEF c
<1>5. \A x \in Nat : InChunk(c, x) => InBlock(a, x)
    BY <1>2, <1>3, <1>4 DEF InChunk, InBlock
<1>6. \A x \in Nat : ~ (InChunk(c, x) /\ InList(free, x))
    BY <1>0, <1>5 DEF BytesHaveOneOwner
<1>7. Sorted(free) /\ HoldHeaders(free) /\ \A j \in 1 .. Len(free) : GapAfter(free, j)
    BY <1>0 DEF FreeListIsSorted
<1>8. /\ mid \in Lists /\ k \in 1 .. Len(mid) /\ Sorted(mid)
      /\ \A j \in 1 .. k - 2 : GapAfter(mid, j)
      /\ \A j \in k + 1 .. Len(mid) : GapAfter(mid, j)
      /\ HoldHeaders(mid)
      /\ WholeChunks(free) /\ Whole(c.start) /\ Whole(c.size) => WholeChunks(mid)
      /\ \A x \in Nat : InList(mid, x) <=> InList(free, x) \/ InChunk(c, x)
    BY <1>0, <1>1, <1>2, <1>4, <1>6, <1>7, InsertedBytes
<1> HIDE DEF mid
<1>9. /\ free' \in Lists /\ Sorted(free') /\ HoldHeaders(free')
      /\ \A j \in 1 .. Len(free') : GapAfter(free', j)
      /\ WholeChunks(mid) => WholeChunks(free')
      /\ \A x \in Nat : InList(free', x) <=> InList(free, x) \/ InChunk(c, x)
    BY <1>1, <1>8, JoinedIs
<1>10. Types'
    BY <1>0, <1>1, <1>9 DEF Types, Lists
<1>11. FreeListIsSorted'
    BY <1>9 DEF FreeListIsSorted
<1>12. BytesHaveOneOwner'
    <2>1. \A x \in Nat : InList(free', x) => x < HEAP_SIZE
        <3>1. \A x \in Nat : InBlock(a, x) => x < HEAP_SIZE
            BY <1>2, <1>3 DEF InBlock
        <3> QED  BY <1>0, <1>5, <1>9, <3>1 DEF BytesHaveOneOwner
    <2>2. \A d \in live' : \A x \in Nat : ~ (InBlock(d, x) /\ InList(free', x))
        BY <1>0, <1>1, <1>5, <1>9 DEF BytesHaveOneOwner
    <2> QED  BY <1>0, <1>1, <2>1, <2>2 DEF BytesHaveOneOwner
<1>13. ASSUME WholeRequests' PROVE HeapIsTiled'
    <2>1. WholeRequests /\ HeapIsTiled
        BY <1>0, <1>1, <1>13 DEF WholeRequests
    <2>2. /\ WholeChunks(free) /\ Whole(c.start) /\ Whole(c.size)
          /\ a.end = a.start + BlockSize(a.layout)
        BY <1>2, <1>4, <2>1 DEF HeapIsTiled
    <2>3. WholeChunks(free')
        BY <1>8, <1>9, <2>2
    <2>4. \A x \in Nat : InBlock(a, x) => InChunk(c, x)
        BY <1>4, <2>2 DEF InBlock, InChunk
    <2>5. \A x \in Nat : x < HEAP_SIZE =>
              InList(free', x) \/ \E d \in live' : InBlock(d, x)
        BY <1>1, <1>9, <2>1, <2>4 DEF HeapIsTiled
    <2> QED  BY <1>1, <2>1, <2>3, <2>5 DEF HeapIsTiled
<1> QED  BY <1>10, <1>11, <1>12, <1>13 DEF HeapInv

\* HeapInv holds in every reachable state.
LEMMA HeapIsSound == Spec => []HeapInv
<1>1. Init => HeapInv
    BY InitIsSound
<1>2. HeapInv /\ [Next]_vars => HeapInv'
    <2> SUFFICES ASSUME HeapInv, [Next]_vars PROVE HeapInv'
        OBVIOUS
    <2>1. CASE \E layout \in layouts : \E k \in DOMAIN free : Alloc(layout, k)
        BY <2>1, AllocIsSound
    <2>2. CASE \E a \in live : \E k \in 1 .. Len(free) + 1 : Dealloc(a, k)
        BY <2>2, DeallocIsSound
    <2>3. CASE UNCHANGED vars
        BY <2>3 DEF HeapInv, Types, FreeListIsSorted, BytesHaveOneOwner, HeapIsTiled,
                    WholeRequests, vars
    <2> QED  BY <2>1, <2>2, <2>3 DEF Next
<1> QED  BY <1>1, <1>2, PTL DEF Spec

------------------------------------------------------------------------------
(* The theorems.                                                           *)

\* The block alloc answers with is inside the heap and shares no byte with
\* another allocation or a free chunk, after any sequence of splits and merges.
THEOREM BlocksAreExclusive == Spec => []AllocationsAreExclusive
<1>1. ASSUME HeapInv PROVE AllocationsAreExclusive
    <2>0. /\ Types /\ BytesHaveOneOwner /\ free \in Lists /\ layouts \in Workloads
        BY <1>1 DEF HeapInv, Types, Lists
    <2> SUFFICES ASSUME NEW a \in live
                 PROVE  /\ a.start + BlockSize(a.layout) <= HEAP_SIZE
                        /\ \A b \in live \ {a} :
                              Bytes(a.start, a.start + BlockSize(a.layout)) \cap
                                  Bytes(b.start, b.end) = {}
                        /\ \A k \in DOMAIN free :
                              Bytes(a.start, a.start + BlockSize(a.layout)) \cap
                                  Bytes(free[k].start, End(free[k])) = {}
        BY DEF AllocationsAreExclusive
    <2>1. /\ a.start \in Nat /\ a.end \in Nat /\ a.layout \in layouts
          /\ a.start + BlockSize(a.layout) <= a.end /\ a.end <= HEAP_SIZE
        BY <2>0 DEF Types, Allocation, BytesHaveOneOwner
    <2>2. BlockSize(a.layout) \in Nat /\ HEAP_SIZE \in Nat
        BY <2>0, <2>1, LayoutIs
    <2>3. ASSUME NEW x \in Bytes(a.start, a.start + BlockSize(a.layout))
          PROVE  x \in Nat /\ InBlock(a, x)
        BY <2>1, <2>2 DEF Bytes, InBlock
    <2>4. ASSUME NEW b \in live \ {a}, NEW x \in Bytes(b.start, b.end)
          PROVE  x \in Nat /\ InBlock(b, x)
        <3>1. b.start \in Nat /\ b.end \in Nat
            BY <2>0 DEF Types, Allocation
        <3> QED  BY <3>1 DEF Bytes, InBlock
    <2>5. ASSUME NEW k \in DOMAIN free, NEW x \in Bytes(free[k].start, End(free[k]))
          PROVE  x \in Nat /\ InList(free, x)
        <3>1. k \in 1 .. Len(free) /\ free[k].start \in Nat /\ End(free[k]) \in Nat
            BY <2>0, ListIs
        <3> QED  BY <3>1 DEF Bytes, InChunk, InList
    <2>6. a.start + BlockSize(a.layout) <= HEAP_SIZE
        BY <2>1, <2>2
    <2> QED  BY <2>0, <2>3, <2>4, <2>5, <2>6 DEF BytesHaveOneOwner
<1> QED  BY <1>1, HeapIsSound, PTL

\* The free list stays in address order, no two free chunks touch and each can
\* hold its header.
THEOREM FreeListStaysCoalesced == Spec => []FreeListIsCoalesced
<1>1. ASSUME HeapInv PROVE FreeListIsCoalesced
    <2>1. /\ free \in Lists /\ Sorted(free) /\ HoldHeaders(free)
          /\ \A k \in 1 .. Len(free) : GapAfter(free, k)
        BY <1>1 DEF HeapInv, Types, FreeListIsSorted, Lists
    <2>2. /\ Len(free) \in Nat /\ DOMAIN free = 1 .. Len(free)
          /\ \A k \in 1 .. Len(free) :
                free[k].start \in Nat /\ End(free[k]) \in Nat /\ free[k].start < End(free[k])
        BY <2>1, ListIs
    <2>3. ASSUME NEW j \in DOMAIN free, NEW k \in DOMAIN free, j < k
          PROVE  End(free[j]) < free[k].start
        <3>1. j + 1 \in 1 .. Len(free) /\ End(free[j]) < free[j + 1].start
            BY <2>1, <2>2, <2>3 DEF GapAfter
        <3>2. CASE k = j + 1
            BY <3>1, <3>2
        <3>3. CASE k > j + 1
            <4>1. End(free[j + 1]) <= free[k].start
                BY <2>1, <2>2, <3>1, <3>3 DEF Sorted
            <4>2. /\ End(free[j]) \in Nat /\ free[k].start \in Nat
                  /\ free[j + 1].start \in Nat /\ End(free[j + 1]) \in Nat
                  /\ free[j + 1].start < End(free[j + 1])
                BY <2>2, <3>1
            <4> QED  BY <3>1, <4>1, <4>2
        <3> QED  BY <2>2, <2>3, <3>2, <3>3
    <2> QED  BY <2>1, <2>2, <2>3 DEF FreeListIsCoalesced, HoldHeaders
<1> QED  BY <1>1, HeapIsSound, PTL

\* If the sizes are multiples of the header's and no alignment exceeds it, the
\* heap is one chunk again when every block has been returned, in whatever
\* order, and every header is aligned.
THEOREM WholeRequestsStaySafe == Spec => []WholeRequestsAreSafe
<1>1. ASSUME HeapInv PROVE WholeRequestsAreSafe
    <2> SUFFICES ASSUME WholeRequests
                 PROVE  NothingLeaks /\ \A k \in DOMAIN free : free[k].start % CHUNK_ALIGN = 0
        BY DEF WholeRequestsAreSafe
    <2>0. /\ free \in Lists /\ HeapIsTiled /\ Sorted(free) /\ BytesHaveOneOwner
          /\ \A k \in 1 .. Len(free) : GapAfter(free, k)
        BY <1>1 DEF HeapInv, Types, FreeListIsSorted, Lists
    <2>1. /\ Len(free) \in Nat /\ DOMAIN free = 1 .. Len(free)
          /\ \A k \in 1 .. Len(free) :
                /\ free[k] \in Chunk /\ free[k].start \in Nat /\ free[k].size \in Nat
                /\ End(free[k]) \in Nat /\ free[k].start < End(free[k])
                /\ End(free[k]) = free[k].start + free[k].size
        BY <2>0, ListIs
    <2>2. /\ HEAP_SIZE \in Nat \ {0} /\ CHUNK_SIZE \in Nat \ {0}
          /\ CHUNK_ALIGN \in Nat \ {0} /\ CHUNK_SIZE % CHUNK_ALIGN = 0
        BY HeapAssumption
    <2>3. ASSUME NEW k \in DOMAIN free PROVE free[k].start % CHUNK_ALIGN = 0
        BY <2>0, <2>1, <2>2, WholeOfDivisor DEF HeapIsTiled, WholeChunks, Whole
    <2>4. ASSUME live = {} PROVE free = <<[start |-> 0, size |-> HEAP_SIZE]>>
        <3>1. \A x \in Nat : x < HEAP_SIZE <=> InList(free, x)
            BY <2>0, <2>4 DEF HeapIsTiled, BytesHaveOneOwner
        <3>2. PICK k \in 1 .. Len(free) : InChunk(free[k], 0)
            BY <2>2, <3>1 DEF InList
        <3>3. free[k].start = 0
            BY <2>1, <3>2 DEF InChunk
        <3>4. k = 1
            <4> SUFFICES ASSUME k > 1 PROVE FALSE
                BY <2>1
            <4>1. 1 \in 1 .. Len(free) /\ End(free[1]) <= free[k].start
                BY <2>0, <2>1 DEF Sorted
            <4> QED  BY <2>1, <3>3, <4>1
        <3>5. 1 \in 1 .. Len(free) /\ free[1].start = 0
            BY <3>3, <3>4
        <3>6. End(free[1]) <= HEAP_SIZE
            <4>1. End(free[1]) - 1 \in Nat /\ InChunk(free[1], End(free[1]) - 1)
                BY <2>1, <3>5 DEF InChunk
            <4>2. End(free[1]) - 1 < HEAP_SIZE
                BY <3>1, <3>5, <4>1 DEF InList
            <4> QED  BY <2>1, <2>2, <3>5, <4>2
        <3>7. Len(free) = 1
            <4> SUFFICES ASSUME Len(free) > 1 PROVE FALSE
                BY <2>1, <3>5
            <4>1. 2 \in 1 .. Len(free) /\ End(free[1]) < free[2].start
                BY <2>0, <2>1, <3>5 DEF GapAfter
            <4>2. InChunk(free[2], free[2].start)
                BY <2>1, <4>1 DEF InChunk
            <4>3. free[2].start < HEAP_SIZE
                BY <2>1, <3>1, <4>1, <4>2 DEF InList
            <4>4. End(free[1]) \in Nat /\ End(free[1]) < HEAP_SIZE
                BY <2>1, <2>2, <3>5, <4>1, <4>3
            <4>5. PICK j \in 1 .. Len(free) : InChunk(free[j], End(free[1]))
                BY <3>1, <4>4 DEF InList
            <4>6. j # 1
                BY <2>1, <4>5 DEF InChunk
            <4>7. End(free[2]) <= free[j].start \/ j = 2
                BY <2>0, <2>1, <4>1, <4>6 DEF Sorted
            <4>8. free[j].start <= End(free[1])
                BY <4>5 DEF InChunk
            <4>9. /\ free[2].start \in Nat /\ End(free[2]) \in Nat /\ free[j].start \in Nat
                  /\ free[2].start < End(free[2])
                BY <2>1, <4>1
            <4> QED  BY <4>1, <4>4, <4>7, <4>8, <4>9
        <3>8. End(free[1]) = HEAP_SIZE
            <4> SUFFICES ASSUME End(free[1]) < HEAP_SIZE PROVE FALSE
                BY <2>1, <2>2, <3>5, <3>6
            <4>1. InList(free, End(free[1]))
                BY <2>1, <3>1, <3>5
            <4>2. InChunk(free[1], End(free[1]))
                BY <3>7, <4>1 DEF InList
            <4> QED  BY <2>1, <3>5, <4>2 DEF InChunk
        <3>9. free[1] = [start |-> 0, size |-> HEAP_SIZE]
            <4>1. free[1] \in Chunk /\ free[1].start = 0 /\ free[1].size = HEAP_SIZE
                BY <2>1, <3>5, <3>8
            <4> QED  BY <4>1 DEF Chunk
        <3> QED  BY <2>0, <3>7, <3>9 DEF Lists
    <2> QED  BY <2>3, <2>4 DEF NothingLeaks
<1> QED  BY <1>1, HeapIsSound, PTL

==============================================================================
