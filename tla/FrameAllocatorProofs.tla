------------------------ MODULE FrameAllocatorProofs ------------------------
(***************************************************************************)
(* Theorems about FrameAllocator, for every memory map and every capacity  *)
(* of the free list.  The inductive invariant is AllocatorInv.             *)
(***************************************************************************)
EXTENDS FrameAllocator, FiniteSetTheorems, SequenceTheorems, TLAPS

Lists == Seq(FreeRange)

\* Disjoint for non-empty runs, by their ends
RunsApart(q, r) == End(q) <= r.start \/ End(r) <= q.start
Apart(list) ==
    \A j, k \in 1 .. Len(list) : j # k => RunsApart(list[j], list[k])

\* [list EXCEPT ![k] = r]
Replaced(list, k, r) == [list EXCEPT ![k] = r]

\* a usable descriptor starts at frame a
DescriptorAt(a) == \E m \in DOMAIN managed : managed[m].start = a

\* two runs touch only where two usable descriptors did
Merged(list) ==
    \A k \in 1 .. Len(list) - 1 :
        End(list[k]) = list[k + 1].start => DescriptorAt(list[k + 1].start)

FreeListIsOrdered == InOrder(managed) => InOrder(ranges) /\ Merged(ranges)

AllocatorInv == TypeOK /\ EveryFrameHasOneOwner /\ FreeListIsOrdered

------------------------------------------------------------------------------
(* Sequences and numbers.                                                  *)

\* A function on 1 .. n is a sequence of length n.
LEMMA SeqIntro ==
    ASSUME NEW S, NEW n \in Nat, NEW f \in [1 .. n -> S]
    PROVE  f \in Seq(S) /\ Len(f) = n
<1>1. f \in Seq(S)
    BY SeqDef
<1>2. DOMAIN f = 1 .. n
    OBVIOUS
<1>3. Len(f) \in Nat /\ DOMAIN f = 1 .. Len(f)
    BY <1>1, LenProperties
<1> QED  BY <1>1, <1>2, <1>3

\* A set of naturals that is not empty has a least element.
LEMMA LeastElement ==
    ASSUME NEW S \in SUBSET Nat, NEW n \in S
    PROVE  \E m \in S : \A k \in S : m <= k
<1>1. PICK m \in S : \A k \in S : ~ (<<k, m>> \in OpToRel(<, Nat))
    BY NatLessThanWellFounded, WFMin
<1>2. \A k \in S : ~ (k < m)
    BY <1>1 DEF OpToRel
<1> QED  BY <1>2

------------------------------------------------------------------------------
(* Lists of runs.                                                          *)

\* A run, in numbers.
LEMMA RunIs ==
    ASSUME NEW r \in FreeRange
    PROVE  /\ r.start \in Nat /\ r.frames \in Nat \ {0}
           /\ End(r) \in Nat /\ r.start < End(r)
           /\ End(r) = r.start + r.frames
BY DEF FreeRange, End

\* A run is made from its first frame and its length.
LEMMA NewRun ==
    ASSUME NEW s \in Nat, NEW n \in Nat \ {0}
    PROVE  /\ [start |-> s, frames |-> n] \in FreeRange
           /\ [start |-> s, frames |-> n].start = s
           /\ End([start |-> s, frames |-> n]) = s + n
BY DEF FreeRange, End

\* The frames of a run lie between its ends.
LEMMA FramesOfIs ==
    ASSUME NEW r \in FreeRange, NEW x
    PROVE  x \in FramesOf(r) <=> x \in Int /\ r.start <= x /\ x < End(r)
BY RunIs DEF FramesOf

\* A list of runs is indexed from 1 to its length.
LEMMA ListIs ==
    ASSUME NEW list \in Lists
    PROVE  /\ Len(list) \in Nat /\ DOMAIN list = 1 .. Len(list)
           /\ \A k \in 1 .. Len(list) : list[k] \in FreeRange
BY DEF Lists

\* The frames of a list.
LEMMA FramesInIs ==
    ASSUME NEW list \in Lists, NEW x
    PROVE  x \in FramesIn(list) <=>
               \E k \in 1 .. Len(list) :
                   x \in Int /\ list[k].start <= x /\ x < End(list[k])
<1>1. x \in FramesIn(list) <=> \E k \in 1 .. Len(list) : x \in FramesOf(list[k])
    BY ListIs DEF FramesIn
<1> QED  BY <1>1, ListIs, FramesOfIs

\* Non-empty runs have no common frame exactly if one ends before the other.
LEMMA DisjointIsApart ==
    ASSUME NEW list \in Lists
    PROVE  Disjoint(list) <=> Apart(list)
<1>1. ASSUME NEW q \in FreeRange, NEW r \in FreeRange
      PROVE  FramesOf(q) \cap FramesOf(r) = {} <=>
                 End(q) <= r.start \/ End(r) <= q.start
    <2>1. ASSUME FramesOf(q) \cap FramesOf(r) = {}
          PROVE  End(q) <= r.start \/ End(r) <= q.start
        <3>1. q.start \in FramesOf(q) /\ r.start \in FramesOf(r)
            BY RunIs, FramesOfIs
        <3>2. q.start \notin FramesOf(r) /\ r.start \notin FramesOf(q)
            BY <2>1, <3>1
        <3>3. /\ q.start \in Nat /\ r.start \in Nat /\ End(q) \in Nat /\ End(r) \in Nat
              /\ ~ (r.start <= q.start /\ q.start < End(r))
              /\ ~ (q.start <= r.start /\ r.start < End(q))
            BY <3>2, RunIs, FramesOfIs
        <3> QED  BY <3>3
    <2>2. ASSUME End(q) <= r.start \/ End(r) <= q.start,
                 NEW x, x \in FramesOf(q), x \in FramesOf(r)
          PROVE  FALSE
        BY <2>2, RunIs, FramesOfIs
    <2> QED  BY <2>1, <2>2
<1> QED  BY <1>1, ListIs DEF Disjoint, Apart, RunsApart

\* A list of runs holds finitely many frames.
LEMMA FramesAreFinite ==
    ASSUME NEW list \in Lists
    PROVE  IsFiniteSet(FramesIn(list))
<1> DEFINE I == 1 .. Len(list)
           S == {FramesOf(list[k]) : k \in I}
           g == [k \in I |-> FramesOf(list[k])]
<1>1. FramesIn(list) = UNION S
    BY ListIs DEF FramesIn
<1>2. IsFiniteSet(S)
    <2>1. IsFiniteSet(I)
        <3>1. 1 \in Int /\ Len(list) \in Int
            BY ListIs
        <3> QED  BY <3>1, FS_Interval
    <2>2. g \in Surjection(I, S)
        BY DEF Surjection
    <2> HIDE DEF I, S, g
    <2> QED  BY <2>1, <2>2, FS_Surjection
<1>3. ASSUME NEW T \in S PROVE IsFiniteSet(T)
    <2>1. PICK k \in I : T = FramesOf(list[k])
        OBVIOUS
    <2>2. list[k].start \in Int /\ list[k].start + list[k].frames - 1 \in Int
        BY ListIs, RunIs
    <2> QED  BY <2>1, <2>2, FS_Interval DEF FramesOf
<1> HIDE DEF S
<1> QED  BY <1>1, <1>2, <1>3, FS_UNION

\* remove_range closes the gap.
LEMMA RemoveRangeIs ==
    ASSUME NEW list \in Lists, NEW k \in 1 .. Len(list)
    PROVE  /\ RemoveRange(list, k) \in Lists
           /\ Len(RemoveRange(list, k)) = Len(list) - 1
           /\ \A j \in 1 .. Len(list) - 1 :
                 RemoveRange(list, k)[j] = IF j < k THEN list[j] ELSE list[j + 1]
<1>1. Len(list) - 1 \in Nat
    BY ListIs
<1>2. RemoveRange(list, k) \in [1 .. Len(list) - 1 -> FreeRange]
    BY ListIs DEF RemoveRange
<1> QED  BY <1>1, <1>2, SeqIntro DEF RemoveRange, Lists

\* The insertion of release makes room for one run.
LEMMA InsertRangeIs ==
    ASSUME NEW list \in Lists, NEW k \in 1 .. Len(list) + 1, NEW r \in FreeRange
    PROVE  /\ InsertRange(list, k, r) \in Lists
           /\ Len(InsertRange(list, k, r)) = Len(list) + 1
           /\ \A j \in 1 .. Len(list) + 1 :
                 InsertRange(list, k, r)[j] =
                     IF j < k THEN list[j] ELSE IF j = k THEN r ELSE list[j - 1]
<1>1. Len(list) + 1 \in Nat
    BY ListIs
<1>2. InsertRange(list, k, r) \in [1 .. Len(list) + 1 -> FreeRange]
    BY ListIs DEF InsertRange
<1> QED  BY <1>1, <1>2, SeqIntro DEF InsertRange, Lists

\* A run replaced by another one.
LEMMA ReplacedIs ==
    ASSUME NEW list \in Lists, NEW k \in 1 .. Len(list), NEW r \in FreeRange
    PROVE  /\ Replaced(list, k, r) \in Lists
           /\ Len(Replaced(list, k, r)) = Len(list)
           /\ \A j \in 1 .. Len(list) :
                 Replaced(list, k, r)[j] = IF j = k THEN r ELSE list[j]
BY ExceptSeq DEF Lists, Replaced

------------------------------------------------------------------------------
(* Which frames the three list operations leave, and in which order.       *)

\* remove_range takes away the frames of one run.
LEMMA RemoveRangeFrames ==
    ASSUME NEW list \in Lists, NEW k \in 1 .. Len(list), Apart(list)
    PROVE  /\ FramesIn(RemoveRange(list, k)) = FramesIn(list) \ FramesOf(list[k])
           /\ Apart(RemoveRange(list, k))
<1> DEFINE new == RemoveRange(list, k)
<1>0. /\ Len(list) \in Nat \ {0} /\ new \in Lists /\ Len(new) = Len(list) - 1
      /\ \A j \in 1 .. Len(list) - 1 : new[j] = IF j < k THEN list[j] ELSE list[j + 1]
      /\ \A j \in 1 .. Len(list) : list[j] \in FreeRange
    BY ListIs, RemoveRangeIs
<1> HIDE DEF new
<1>1. ASSUME NEW x, x \in FramesIn(new)
      PROVE  x \in FramesIn(list) /\ x \notin FramesOf(list[k])
    <2>1. PICK j \in 1 .. Len(new) : x \in Int /\ new[j].start <= x /\ x < End(new[j])
        BY <1>0, <1>1, FramesInIs
    <2>2. PICK i \in 1 .. Len(list) : i # k /\ new[j] = list[i]
        <3>1. CASE j < k
            BY <3>1, <1>0
        <3>2. CASE ~ (j < k)
            <4>1. j + 1 \in 1 .. Len(list) /\ j + 1 # k /\ new[j] = list[j + 1]
                BY <3>2, <1>0
            <4> QED  BY <4>1
        <3> QED  BY <3>1, <3>2
    <2>3. x \in FramesIn(list)
        BY <2>1, <2>2, FramesInIs
    <2>4. RunsApart(list[i], list[k])
        BY <2>2 DEF Apart
    <2>5. x \notin FramesOf(list[k])
        BY <1>0, <2>1, <2>2, <2>4, FramesOfIs, RunIs, SMTT(30) DEF RunsApart
    <2> QED  BY <2>3, <2>5
<1>2. ASSUME NEW x, x \in FramesIn(list), x \notin FramesOf(list[k])
      PROVE  x \in FramesIn(new)
    <2>1. PICK i \in 1 .. Len(list) : x \in Int /\ list[i].start <= x /\ x < End(list[i])
        BY <1>2, FramesInIs
    <2>2. i # k
        BY <1>0, <1>2, <2>1, FramesOfIs
    <2>3. PICK j \in 1 .. Len(new) : new[j] = list[i]
        <3>1. CASE i < k
            BY <3>1, <1>0
        <3>2. CASE ~ (i < k)
            <4>1. i - 1 \in 1 .. Len(new) /\ new[i - 1] = list[i]
                BY <3>2, <2>2, <1>0
            <4> QED  BY <4>1
        <3> QED  BY <3>1, <3>2
    <2> QED  BY <1>0, <2>1, <2>3, FramesInIs
<1>3. Apart(new)
    BY <1>0 DEF Apart
<1> QED  BY <1>1, <1>2, <1>3 DEF new

\* A run inserted at k adds its frames.
LEMMA InsertRangeFrames ==
    ASSUME NEW list \in Lists, NEW k \in 1 .. Len(list) + 1, NEW r \in FreeRange,
           Apart(list), \A j \in 1 .. Len(list) : RunsApart(list[j], r)
    PROVE  /\ FramesIn(InsertRange(list, k, r)) = FramesIn(list) \cup FramesOf(r)
           /\ Apart(InsertRange(list, k, r))
<1> DEFINE new == InsertRange(list, k, r)
<1>0. /\ Len(list) \in Nat /\ new \in Lists /\ Len(new) = Len(list) + 1
      /\ \A j \in 1 .. Len(list) + 1 :
            new[j] = IF j < k THEN list[j] ELSE IF j = k THEN r ELSE list[j - 1]
      /\ \A j \in 1 .. Len(list) : list[j] \in FreeRange
    BY ListIs, InsertRangeIs
<1> HIDE DEF new
<1>1. ASSUME NEW x, x \in FramesIn(new)
      PROVE  x \in FramesIn(list) \/ x \in FramesOf(r)
    <2>1. PICK j \in 1 .. Len(new) : x \in Int /\ new[j].start <= x /\ x < End(new[j])
        BY <1>0, <1>1, FramesInIs
    <2>2. CASE j = k
        BY <1>0, <2>1, <2>2, FramesOfIs
    <2>3. CASE j < k
        BY <1>0, <2>1, <2>3, FramesInIs
    <2>4. CASE j > k
        <3>1. j - 1 \in 1 .. Len(list) /\ new[j] = list[j - 1]
            BY <1>0, <2>4
        <3> QED  BY <2>1, <3>1, FramesInIs
    <2> QED  BY <1>0, <2>2, <2>3, <2>4
<1>2. ASSUME NEW x, x \in FramesOf(r)
      PROVE  x \in FramesIn(new)
    <2>1. x \in Int /\ r.start <= x /\ x < End(r)
        BY <1>2, FramesOfIs
    <2>2. k \in 1 .. Len(new) /\ new[k] = r
        BY <1>0
    <2> QED  BY <1>0, <2>1, <2>2, FramesInIs
<1>3. ASSUME NEW x, x \in FramesIn(list)
      PROVE  x \in FramesIn(new)
    <2>1. PICK i \in 1 .. Len(list) : x \in Int /\ list[i].start <= x /\ x < End(list[i])
        BY <1>3, FramesInIs
    <2>2. PICK j \in 1 .. Len(new) : new[j] = list[i]
        <3>1. CASE i < k
            BY <3>1, <1>0
        <3>2. CASE ~ (i < k)
            <4>1. i + 1 \in 1 .. Len(new) /\ new[i + 1] = list[i]
                BY <3>2, <1>0
            <4> QED  BY <4>1
        <3> QED  BY <3>1, <3>2
    <2> QED  BY <1>0, <2>1, <2>2, FramesInIs
<1>4. Apart(new)
    <2> SUFFICES ASSUME NEW i \in 1 .. Len(new), NEW j \in 1 .. Len(new), i # j
                 PROVE  RunsApart(new[i], new[j])
        BY DEF Apart
    <2> DEFINE old(m) == IF m < k THEN m ELSE m - 1
    <2>1. \A m \in 1 .. Len(new) : m # k => old(m) \in 1 .. Len(list) /\ new[m] = list[old(m)]
        BY <1>0
    <2>2. CASE i = k
        BY <1>0, <2>1, <2>2 DEF RunsApart
    <2>3. CASE j = k
        BY <1>0, <2>1, <2>3, SMTT(30) DEF RunsApart
    <2>4. CASE i # k /\ j # k
        <3>1. old(i) # old(j)
            BY <2>4, <1>0
        <3> QED  BY <2>1, <2>4, <3>1 DEF Apart
    <2> QED  BY <2>2, <2>3, <2>4
<1> QED  BY <1>1, <1>2, <1>3, <1>4 DEF new

\* A run replaced by r, which no other run reaches.
LEMMA ReplacedFrames ==
    ASSUME NEW list \in Lists, NEW k \in 1 .. Len(list), NEW r \in FreeRange,
           Apart(list), \A j \in 1 .. Len(list) : j # k => RunsApart(list[j], r)
    PROVE  /\ FramesIn(Replaced(list, k, r)) =
                  (FramesIn(list) \ FramesOf(list[k])) \cup FramesOf(r)
           /\ Apart(Replaced(list, k, r))
<1> DEFINE new == Replaced(list, k, r)
<1>0. /\ Len(list) \in Nat /\ new \in Lists /\ Len(new) = Len(list)
      /\ \A j \in 1 .. Len(list) : new[j] = IF j = k THEN r ELSE list[j]
      /\ \A j \in 1 .. Len(list) : list[j] \in FreeRange
    BY ListIs, ReplacedIs
<1> HIDE DEF new
<1>1. ASSUME NEW x, x \in FramesIn(new)
      PROVE  \/ x \in FramesIn(list) /\ x \notin FramesOf(list[k])
             \/ x \in FramesOf(r)
    <2>1. PICK j \in 1 .. Len(new) : x \in Int /\ new[j].start <= x /\ x < End(new[j])
        BY <1>0, <1>1, FramesInIs
    <2>2. CASE j = k
        BY <1>0, <2>1, <2>2, FramesOfIs
    <2>3. CASE j # k
        <3>1. x \in FramesIn(list)
            BY <1>0, <2>1, <2>3, FramesInIs
        <3>2. RunsApart(list[j], list[k])
            BY <1>0, <2>3 DEF Apart
        <3>3. x \notin FramesOf(list[k])
            BY <1>0, <2>1, <2>3, <3>2, FramesOfIs, RunIs DEF RunsApart
        <3> QED  BY <3>1, <3>3
    <2> QED  BY <2>2, <2>3
<1>2. ASSUME NEW x, x \in FramesOf(r)
      PROVE  x \in FramesIn(new)
    BY <1>0, <1>2, FramesOfIs, FramesInIs
<1>3. ASSUME NEW x, x \in FramesIn(list), x \notin FramesOf(list[k])
      PROVE  x \in FramesIn(new)
    <2>1. PICK i \in 1 .. Len(list) : x \in Int /\ list[i].start <= x /\ x < End(list[i])
        BY <1>3, FramesInIs
    <2>2. i # k
        BY <1>0, <1>3, <2>1, FramesOfIs
    <2> QED  BY <1>0, <2>1, <2>2, FramesInIs
<1>4. Apart(new)
    BY <1>0 DEF Apart, RunsApart
<1> QED  BY <1>1, <1>2, <1>3, <1>4 DEF new

\* Order, over the positions of the list.
LEMMA InOrderIs ==
    ASSUME NEW list \in Lists
    PROVE  InOrder(list) <=>
               \A j, k \in 1 .. Len(list) : j < k => End(list[j]) <= list[k].start
BY ListIs DEF InOrder

\* remove_range keeps the order, and brings no two runs in touch.
LEMMA RemoveRangeOrder ==
    ASSUME NEW list \in Lists, NEW k \in 1 .. Len(list), InOrder(list), Merged(list)
    PROVE  InOrder(RemoveRange(list, k)) /\ Merged(RemoveRange(list, k))
<1> DEFINE new == RemoveRange(list, k)
<1>0. /\ Len(list) \in Nat \ {0} /\ new \in Lists /\ Len(new) = Len(list) - 1
      /\ \A j \in 1 .. Len(list) - 1 : new[j] = IF j < k THEN list[j] ELSE list[j + 1]
      /\ \A j \in 1 .. Len(list) : list[j] \in FreeRange
    BY ListIs, RemoveRangeIs
<1> HIDE DEF new
<1>1. \A i, j \in 1 .. Len(list) : i < j => End(list[i]) <= list[j].start
    BY InOrderIs
<1>2. InOrder(new)
    <2> DEFINE old(j) == IF j < k THEN j ELSE j + 1
    <2> SUFFICES ASSUME NEW i \in 1 .. Len(new), NEW j \in 1 .. Len(new), i < j
                 PROVE  End(new[i]) <= new[j].start
        BY <1>0, InOrderIs
    <2>1. new[i] = list[old(i)] /\ new[j] = list[old(j)]
        BY <1>0
    <2>2. /\ old(i) \in 1 .. Len(list) /\ old(j) \in 1 .. Len(list)
          /\ old(i) < old(j)
        BY <1>0
    <2> HIDE DEF old
    <2> QED  BY <1>1, <2>1, <2>2
<1>3. Merged(new)
    <2> SUFFICES ASSUME NEW j \in 1 .. Len(new) - 1, End(new[j]) = new[j + 1].start
                 PROVE  DescriptorAt(new[j + 1].start)
        BY DEF Merged
    <2>1. CASE j + 1 < k
        <3>1. j \in 1 .. Len(list) - 1 /\ new[j] = list[j] /\ new[j + 1] = list[j + 1]
            BY <1>0, <2>1
        <3> QED  BY <3>1 DEF Merged
    <2>2. CASE j + 1 = k
        <3>1. /\ k - 1 \in 1 .. Len(list) /\ k + 1 \in 1 .. Len(list)
              /\ new[j] = list[k - 1] /\ new[j + 1] = list[k + 1]
            BY <1>0, <2>2
        <3>2. End(list[k - 1]) <= list[k].start /\ End(list[k]) <= list[k + 1].start
            BY <1>1, <3>1
        <3>3. /\ End(list[k - 1]) \in Nat /\ list[k + 1].start \in Nat
              /\ list[k].start \in Nat /\ End(list[k]) \in Nat /\ list[k].start < End(list[k])
            BY <1>0, <3>1, RunIs
        <3>4. End(list[k - 1]) # list[k + 1].start
            BY <3>2, <3>3
        <3> QED  BY <3>1, <3>4
    <2>3. CASE j + 1 > k
        <3>1. /\ j + 1 \in 1 .. Len(list) - 1
              /\ new[j] = list[j + 1] /\ new[j + 1] = list[(j + 1) + 1]
            BY <1>0, <2>3
        <3> QED  BY <3>1 DEF Merged
    <2> QED  BY <1>0, <2>1, <2>2, <2>3
<1> QED  BY <1>2, <1>3 DEF new

\* A run replaced between its neighbours keeps the order; the list is still
\* merged if the run touches the run before it only where it did, and the run
\* after it only where a descriptor starts.
LEMMA ReplacedOrder ==
    ASSUME NEW list \in Lists, NEW k \in 1 .. Len(list), NEW r \in FreeRange,
           InOrder(list), Merged(list),
           k > 1 => /\ End(list[k - 1]) <= r.start
                    /\ End(list[k - 1]) = r.start => r.start = list[k].start,
           k < Len(list) => /\ End(r) <= list[k + 1].start
                            /\ End(r) = list[k + 1].start =>
                                   DescriptorAt(list[k + 1].start)
    PROVE  InOrder(Replaced(list, k, r)) /\ Merged(Replaced(list, k, r))
<1> DEFINE new == Replaced(list, k, r)
<1>0. /\ Len(list) \in Nat \ {0} /\ new \in Lists /\ Len(new) = Len(list)
      /\ \A j \in 1 .. Len(list) : new[j] = IF j = k THEN r ELSE list[j]
      /\ \A j \in 1 .. Len(list) : list[j] \in FreeRange
    BY ListIs, ReplacedIs
<1> HIDE DEF new
<1>1. \A i, j \in 1 .. Len(list) : i < j => End(list[i]) <= list[j].start
    BY InOrderIs
<1>2. \A i \in 1 .. Len(list) : i < k => End(list[i]) <= r.start
    <2> SUFFICES ASSUME NEW i \in 1 .. Len(list), i < k PROVE End(list[i]) <= r.start
        OBVIOUS
    <2>1. CASE i = k - 1
        BY <2>1
    <2>2. CASE i < k - 1
        <3>1. k - 1 \in 1 .. Len(list) /\ End(list[i]) <= list[k - 1].start
            BY <1>1, <2>2
        <3>2. list[k - 1] \in FreeRange /\ list[i] \in FreeRange
            BY <1>0, <3>1
        <3>3. list[k - 1].start < End(list[k - 1]) /\ list[k - 1].start \in Nat
              /\ End(list[k - 1]) \in Nat /\ End(list[i]) \in Nat /\ r.start \in Nat
            BY <3>2, RunIs
        <3>4. End(list[k - 1]) <= r.start
            BY <3>1
        <3> QED  BY <3>1, <3>3, <3>4
    <2> QED  BY <2>1, <2>2
<1>3. \A j \in 1 .. Len(list) : k < j => End(r) <= list[j].start
    <2> SUFFICES ASSUME NEW j \in 1 .. Len(list), k < j PROVE End(r) <= list[j].start
        OBVIOUS
    <2>1. CASE j = k + 1
        BY <1>0, <2>1
    <2>2. CASE j > k + 1
        <3>1. k + 1 \in 1 .. Len(list) /\ End(list[k + 1]) <= list[j].start
            BY <1>0, <1>1, <2>2
        <3> QED  BY <1>0, <3>1, RunIs
    <2> QED  BY <2>1, <2>2
<1>4. InOrder(new)
    BY <1>0, <1>1, <1>2, <1>3, InOrderIs, SMTT(30)
<1>5. Merged(new)
    <2> SUFFICES ASSUME NEW j \in 1 .. Len(new) - 1, End(new[j]) = new[j + 1].start
                 PROVE  DescriptorAt(new[j + 1].start)
        BY DEF Merged
    <2>0. j \in 1 .. Len(list) - 1 /\ j \in 1 .. Len(list) /\ j + 1 \in 1 .. Len(list)
        BY <1>0
    <2>1. CASE j + 1 = k
        <3>1. new[j] = list[k - 1] /\ new[j + 1] = r /\ k > 1
            BY <1>0, <2>0, <2>1
        <3>2. End(list[j]) = list[j + 1].start /\ new[j + 1].start = list[j + 1].start
            BY <2>1, <3>1
        <3> QED  BY <2>0, <3>2 DEF Merged
    <2>2. CASE j = k
        <3>1. new[j] = r /\ new[j + 1] = list[j + 1] /\ k < Len(list)
            BY <1>0, <2>0, <2>2
        <3> QED  BY <2>2, <3>1
    <2>3. CASE j # k /\ j + 1 # k
        <3>1. new[j] = list[j] /\ new[j + 1] = list[j + 1]
            BY <1>0, <2>0, <2>3
        <3> QED  BY <2>0, <3>1 DEF Merged
    <2> QED  BY <2>1, <2>2, <2>3
<1> QED  BY <1>4, <1>5 DEF new

\* A run inserted strictly between its neighbours keeps the order.
LEMMA InsertRangeOrder ==
    ASSUME NEW list \in Lists, NEW k \in 1 .. Len(list) + 1, NEW r \in FreeRange,
           InOrder(list), Merged(list),
           k > 1 => End(list[k - 1]) < r.start,
           k <= Len(list) => End(r) < list[k].start
    PROVE  InOrder(InsertRange(list, k, r)) /\ Merged(InsertRange(list, k, r))
<1> DEFINE new == InsertRange(list, k, r)
<1>0. /\ Len(list) \in Nat /\ new \in Lists /\ Len(new) = Len(list) + 1
      /\ \A j \in 1 .. Len(list) + 1 :
            new[j] = IF j < k THEN list[j] ELSE IF j = k THEN r ELSE list[j - 1]
      /\ \A j \in 1 .. Len(list) : list[j] \in FreeRange
    BY ListIs, InsertRangeIs
<1> HIDE DEF new
<1>1. \A i, j \in 1 .. Len(list) : i < j => End(list[i]) <= list[j].start
    BY InOrderIs
<1>2. \A i \in 1 .. Len(list) : i < k => End(list[i]) <= r.start
    <2> SUFFICES ASSUME NEW i \in 1 .. Len(list), i < k PROVE End(list[i]) <= r.start
        OBVIOUS
    <2>0. k - 1 \in 1 .. Len(list) /\ list[k - 1] \in FreeRange /\ list[i] \in FreeRange
        BY <1>0
    <2>1. End(list[i]) \in Nat /\ End(list[k - 1]) \in Nat /\ r.start \in Nat
        BY <2>0, RunIs
    <2>2. CASE i = k - 1
        BY <2>1, <2>2
    <2>3. CASE i < k - 1
        <3>1. End(list[i]) <= list[k - 1].start
            BY <1>1, <2>0, <2>3
        <3> QED  BY <2>0, <2>1, <3>1, RunIs
    <2> QED  BY <2>2, <2>3
<1>3. \A j \in 1 .. Len(list) : k <= j => End(r) <= list[j].start
    <2> SUFFICES ASSUME NEW j \in 1 .. Len(list), k <= j PROVE End(r) <= list[j].start
        OBVIOUS
    <2>0. k \in 1 .. Len(list) /\ list[k] \in FreeRange /\ list[j] \in FreeRange
        BY <1>0
    <2>1. End(r) \in Nat /\ list[k].start \in Nat /\ list[j].start \in Nat
        BY <2>0, RunIs
    <2>2. CASE j = k
        BY <2>0, <2>1, <2>2
    <2>3. CASE j > k
        <3>1. End(list[k]) <= list[j].start
            BY <1>1, <2>0, <2>3
        <3> QED  BY <2>0, <2>1, <3>1, RunIs
    <2> QED  BY <2>2, <2>3
<1>4. InOrder(new)
    <2> SUFFICES ASSUME NEW i \in 1 .. Len(new), NEW j \in 1 .. Len(new), i < j
                 PROVE  End(new[i]) <= new[j].start
        BY <1>0, InOrderIs
    <2>1. CASE j < k
        BY <1>0, <1>1, <2>1
    <2>2. CASE j = k
        BY <1>0, <1>2, <2>2
    <2>3. CASE i = k
        <3>1. j - 1 \in 1 .. Len(list) /\ new[j] = list[j - 1] /\ new[i] = r /\ k <= j - 1
            BY <1>0, <2>3
        <3> QED  BY <1>3, <3>1
    <2>4. CASE i < k /\ j > k
        <3>1. /\ j - 1 \in 1 .. Len(list) /\ i \in 1 .. Len(list) /\ i < j - 1
              /\ new[j] = list[j - 1] /\ new[i] = list[i]
            BY <1>0, <2>4
        <3> QED  BY <1>1, <3>1
    <2>5. CASE i > k
        <3>1. /\ j - 1 \in 1 .. Len(list) /\ i - 1 \in 1 .. Len(list) /\ i - 1 < j - 1
              /\ new[j] = list[j - 1] /\ new[i] = list[i - 1]
            BY <1>0, <2>5
        <3> QED  BY <1>1, <3>1
    <2> QED  BY <1>0, <2>1, <2>2, <2>3, <2>4, <2>5
<1>5. Merged(new)
    <2> SUFFICES ASSUME NEW j \in 1 .. Len(new) - 1, End(new[j]) = new[j + 1].start
                 PROVE  DescriptorAt(new[j + 1].start)
        BY DEF Merged
    <2>1. CASE j + 1 = k
        <3>1. /\ k > 1 /\ k - 1 \in 1 .. Len(list)
              /\ new[j] = list[k - 1] /\ new[j + 1] = r
            BY <1>0, <2>1
        <3> QED  BY <1>0, <3>1, RunIs
    <2>2. CASE j = k
        <3>1. /\ k <= Len(list) /\ k \in 1 .. Len(list)
              /\ new[j] = r /\ new[j + 1] = list[k]
            BY <1>0, <2>2
        <3> QED  BY <1>0, <3>1, RunIs
    <2>3. CASE j + 1 < k
        <3>1. j \in 1 .. Len(list) - 1 /\ new[j] = list[j] /\ new[j + 1] = list[j + 1]
            BY <1>0, <2>3
        <3> QED  BY <3>1 DEF Merged
    <2>4. CASE j > k
        <3>1. /\ j - 1 \in 1 .. Len(list) - 1
              /\ new[j] = list[j - 1] /\ new[j + 1] = list[(j - 1) + 1]
            BY <1>0, <2>4
        <3> QED  BY <3>1 DEF Merged
    <2> QED  BY <1>0, <2>1, <2>2, <2>3, <2>4
<1> QED  BY <1>4, <1>5 DEF new

------------------------------------------------------------------------------
(* Allocation and release.                                                 *)

\* TakeFront takes exactly the first n frames of run k.
LEMMA TakeFrontIs ==
    ASSUME NEW list \in Lists, NEW k \in 1 .. Len(list), NEW n \in Nat \ {0},
           n <= list[k].frames, Apart(list)
    PROVE  /\ TakeFront(list, k, n) \in Lists
           /\ Len(TakeFront(list, k, n)) <= Len(list)
           /\ Apart(TakeFront(list, k, n))
           /\ FramesIn(TakeFront(list, k, n)) =
                  FramesIn(list) \ (list[k].start .. list[k].start + n - 1)
           /\ list[k].start .. list[k].start + n - 1 \subseteq FramesIn(list)
           /\ InOrder(list) /\ Merged(list) =>
                  InOrder(TakeFront(list, k, n)) /\ Merged(TakeFront(list, k, n))
<1> DEFINE old == list[k]
           taken == old.start .. old.start + n - 1
<1>0. /\ Len(list) \in Nat \ {0} /\ old \in FreeRange
      /\ \A j \in 1 .. Len(list) : list[j] \in FreeRange
    BY ListIs
<1>1. /\ old.start \in Nat /\ old.frames \in Nat \ {0} /\ End(old) \in Nat
      /\ End(old) = old.start + old.frames /\ n <= old.frames
    BY <1>0, RunIs
<1>2. taken \subseteq FramesIn(list)
    <2> SUFFICES ASSUME NEW x \in taken PROVE x \in FramesIn(list)
        OBVIOUS
    <2>1. x \in Int /\ old.start <= x /\ x < End(old)
        BY <1>1
    <2> QED  BY <2>1, FramesInIs
<1>3. CASE old.frames = n
    <2>1. TakeFront(list, k, n) = RemoveRange(list, k)
        BY <1>3 DEF TakeFront
    <2>2. taken = FramesOf(old)
        BY <1>3 DEF FramesOf
    <2>3. /\ RemoveRange(list, k) \in Lists /\ Len(RemoveRange(list, k)) = Len(list) - 1
          /\ FramesIn(RemoveRange(list, k)) = FramesIn(list) \ FramesOf(old)
          /\ Apart(RemoveRange(list, k))
        BY RemoveRangeIs, RemoveRangeFrames
    <2>4. InOrder(list) /\ Merged(list) =>
              InOrder(RemoveRange(list, k)) /\ Merged(RemoveRange(list, k))
        BY RemoveRangeOrder
    <2> HIDE DEF old, taken
    <2>5. Len(RemoveRange(list, k)) <= Len(list)
        BY <1>0, <2>3
    <2> QED  BY <1>2, <2>1, <2>2, <2>3, <2>4, <2>5 DEF old, taken
<1>4. CASE old.frames # n
    <2> DEFINE r == [start |-> old.start + n, frames |-> old.frames - n]
    <2>1. TakeFront(list, k, n) = Replaced(list, k, r)
        BY <1>4 DEF TakeFront, Replaced
    <2>2. r \in FreeRange /\ r.start = old.start + n /\ End(r) = End(old)
        <3>1. old.start + n \in Nat /\ old.frames - n \in Nat \ {0}
            BY <1>1, <1>4
        <3>2. r \in FreeRange /\ r.start = old.start + n /\ End(r) = old.start + n + (old.frames - n)
            BY <3>1, NewRun
        <3> HIDE DEF r
        <3> QED  BY <1>1, <3>2
    <2> HIDE DEF r
    <2>3. \A j \in 1 .. Len(list) : j # k => RunsApart(list[j], r)
        <3> SUFFICES ASSUME NEW j \in 1 .. Len(list), j # k PROVE RunsApart(list[j], r)
            OBVIOUS
        <3>1. RunsApart(list[j], old) /\ list[j] \in FreeRange
            BY <1>0 DEF Apart
        <3>2. End(list[j]) \in Nat /\ list[j].start \in Nat
            BY <3>1, RunIs
        <3> HIDE DEF old
        <3> QED  BY <1>1, <2>2, <3>1, <3>2 DEF RunsApart
    <2>4. /\ Replaced(list, k, r) \in Lists /\ Len(Replaced(list, k, r)) = Len(list)
          /\ FramesIn(Replaced(list, k, r)) =
                 (FramesIn(list) \ FramesOf(old)) \cup FramesOf(r)
          /\ Apart(Replaced(list, k, r))
        BY <2>2, <2>3, ReplacedIs, ReplacedFrames
    <2>5. FramesIn(Replaced(list, k, r)) = FramesIn(list) \ taken
        <3>1. \A x : x \in FramesOf(r) <=> x \in Int /\ old.start + n <= x /\ x < End(old)
            BY <2>2, FramesOfIs
        <3>2. \A x : x \in FramesOf(old) <=> x \in Int /\ old.start <= x /\ x < End(old)
            BY <1>0, FramesOfIs
        <3>3. \A x : x \in taken <=> x \in Int /\ old.start <= x /\ x < old.start + n
            <4>1. old.start \in Nat /\ n \in Nat
                BY <1>1
            <4> QED  BY <4>1, SMTT(30)
        <3>4. FramesOf(old) \subseteq FramesIn(list)
            BY <3>2, FramesInIs
        <3> HIDE DEF old, taken
        <3>5. \A x : x \in FramesOf(r) <=> x \in FramesOf(old) /\ x \notin taken
            BY <1>1, <3>1, <3>2, <3>3
        <3>6. \A x : x \in taken => x \in FramesOf(old)
            BY <1>1, <3>2, <3>3
        <3> QED  BY <2>4, <3>4, <3>5, <3>6
    <2>6. ASSUME InOrder(list), Merged(list)
          PROVE  InOrder(Replaced(list, k, r)) /\ Merged(Replaced(list, k, r))
        <3>1. \A i, j \in 1 .. Len(list) : i < j => End(list[i]) <= list[j].start
            BY <2>6, InOrderIs
        <3>2. k > 1 => End(list[k - 1]) <= old.start /\ End(list[k - 1]) \in Nat
            BY <1>0, <3>1, RunIs
        <3>3. k < Len(list) => End(old) <= list[k + 1].start /\ list[k + 1].start \in Nat
            BY <1>0, <3>1, RunIs
        <3>4. k > 1 => /\ End(list[k - 1]) <= r.start
                       /\ End(list[k - 1]) = r.start => r.start = list[k].start
            BY <1>1, <2>2, <3>2
        <3>5. k < Len(list) => /\ End(r) <= list[k + 1].start
                               /\ End(r) = list[k + 1].start =>
                                      DescriptorAt(list[k + 1].start)
            BY <1>0, <2>2, <2>6, <3>3 DEF Merged
        <3> QED  BY <2>2, <2>6, <3>4, <3>5, ReplacedOrder
    <2>7. Len(Replaced(list, k, r)) <= Len(list)
        BY <1>0, <2>4
    <2> QED  BY <1>2, <2>1, <2>4, <2>5, <2>6, <2>7
<1> QED  BY <1>3, <1>4

\* release puts exactly f back into the free list.
LEMMA ReleasedIs ==
    ASSUME NEW list \in Lists, NEW f \in Nat, NEW k, ScanStops(list, f, k),
           ~ Overlaps(list, f, k), Apart(list), f \notin FramesIn(list)
    PROVE  /\ Released(list, f, k) \in Lists
           /\ \/ Len(Released(list, f, k)) <= Len(list)
              \/ /\ ~ TouchesPrevious(list, f, k) /\ ~ TouchesNext(list, f, k)
                 /\ Len(Released(list, f, k)) = Len(list) + 1
           /\ Apart(Released(list, f, k))
           /\ FramesIn(Released(list, f, k)) = FramesIn(list) \cup {f}
           /\ InOrder(list) /\ Merged(list) =>
                  InOrder(Released(list, f, k)) /\ Merged(Released(list, f, k))
<1> DEFINE new == Released(list, f, k)
           prev == list[k - 1]
           next == list[k]
<1>0. /\ Len(list) \in Nat /\ k \in 1 .. Len(list) + 1
      /\ \A j \in 1 .. Len(list) : list[j] \in FreeRange
    BY ListIs DEF ScanStops
<1>1. \A j \in 1 .. Len(list) :
          /\ list[j].start \in Nat /\ End(list[j]) \in Nat /\ list[j].start < End(list[j])
          /\ f < list[j].start \/ End(list[j]) <= f
    BY <1>0, RunIs, FramesInIs
<1>2. \A i, j \in 1 .. Len(list) : i # j => RunsApart(list[i], list[j])
    BY DEF Apart
<1>3. InOrder(list) =>
          \A i, j \in 1 .. Len(list) : i < j => End(list[i]) <= list[j].start
    BY InOrderIs
<1>4. \A j \in 1 .. Len(list) : FramesOf(list[j]) \subseteq FramesIn(list)
    BY ListIs DEF FramesIn
<1>5. \A j \in 1 .. Len(list) : \A x :
          x \in FramesOf(list[j]) <=> x \in Int /\ list[j].start <= x /\ x < End(list[j])
    BY <1>0, FramesOfIs
<1>6. (k > 1 => End(prev) <= f) /\ (k <= Len(list) => f + 1 <= next.start)
    <2>1. k > 1 => ~ (End(prev) > f)
        BY DEF Overlaps
    <2>2. k <= Len(list) => ~ (f + 1 > next.start)
        BY DEF Overlaps
    <2>3. (k > 1 => End(prev) \in Nat) /\ (k <= Len(list) => next.start \in Nat)
        BY <1>0, <1>1
    <2> HIDE DEF prev, next
    <2> QED  BY <2>1, <2>2, <2>3
<1>7. CASE TouchesPrevious(list, f, k) /\ TouchesNext(list, f, k)
    <2>1. /\ k - 1 \in 1 .. Len(list) /\ k \in 1 .. Len(list)
          /\ End(prev) = f /\ f + 1 = next.start
        BY <1>0, <1>7 DEF TouchesPrevious, TouchesNext
    <2> DEFINE r == Grown(prev, 1 + next.frames)
               rem == RemoveRange(list, k)
    <2>2. r \in FreeRange /\ r.start = prev.start /\ End(r) = End(next)
        <3>1. /\ prev.start \in Nat /\ prev.frames + (1 + next.frames) \in Nat \ {0}
              /\ End(prev) = prev.start + prev.frames /\ End(next) = next.start + next.frames
              /\ prev.frames \in Nat /\ next.frames \in Nat /\ next.start \in Nat
            <4>1. prev \in FreeRange /\ next \in FreeRange
                BY <1>0, <2>1
            <4> HIDE DEF prev, next
            <4> QED  BY <4>1, RunIs
        <3>2. /\ r \in FreeRange /\ r.start = prev.start
              /\ End(r) = prev.start + (prev.frames + (1 + next.frames))
            BY <3>1, NewRun DEF Grown
        <3> HIDE DEF r, prev, next
        <3>3. prev.start + prev.frames + 1 = next.start
            BY <2>1, <3>1
        <3>4. prev.start + (prev.frames + (1 + next.frames)) = next.start + next.frames
            BY <3>1, <3>3
        <3> QED  BY <3>1, <3>2, <3>4
    <2> HIDE DEF r
    <2>3. /\ rem \in Lists /\ Len(rem) = Len(list) - 1 /\ Apart(rem)
          /\ FramesIn(rem) = FramesIn(list) \ FramesOf(next)
          /\ \A j \in 1 .. Len(list) - 1 : rem[j] = IF j < k THEN list[j] ELSE list[j + 1]
        BY <2>1, RemoveRangeIs, RemoveRangeFrames
    <2>4. new = Replaced(rem, k - 1, r)
        <3>1. new = RemoveRange(Replaced(list, k - 1, r), k)
            BY <1>7 DEF Released, Replaced, r
        <3>2. /\ Replaced(list, k - 1, r) \in Lists /\ Len(Replaced(list, k - 1, r)) = Len(list)
              /\ \A j \in 1 .. Len(list) :
                     Replaced(list, k - 1, r)[j] = IF j = k - 1 THEN r ELSE list[j]
            <4>1. k - 1 \in 1 .. Len(list) /\ r \in FreeRange
                BY <2>1, <2>2
            <4> QED  BY <4>1, ReplacedIs, ZenonT(40)
        <3>3. RemoveRange(Replaced(list, k - 1, r), k) =
                  [j \in 1 .. Len(list) - 1 |->
                      IF j = k - 1 THEN r ELSE IF j < k THEN list[j] ELSE list[j + 1]]
            BY <1>0, <2>1, <3>2, SMTT(30) DEF RemoveRange
        <3>4. Replaced(rem, k - 1, r) =
                  [j \in 1 .. Len(list) - 1 |->
                      IF j = k - 1 THEN r ELSE IF j < k THEN list[j] ELSE list[j + 1]]
            BY <1>0, <2>1 DEF Replaced, RemoveRange
        <3> QED  BY <3>1, <3>3, <3>4
    <2> HIDE DEF rem, new
    <2>5. k - 1 \in 1 .. Len(rem) /\ rem[k - 1] = prev
        BY <1>0, <2>1, <2>3
    <2>6. ASSUME NEW j \in 1 .. Len(rem), j # k - 1
          PROVE  RunsApart(rem[j], r)
        <3>1. PICK i \in 1 .. Len(list) : rem[j] = list[i] /\ i # k /\ i # k - 1
            <4>1. CASE j < k
                BY <1>0, <2>3, <2>6, <4>1
            <4>2. CASE ~ (j < k)
                <5>1. j + 1 \in 1 .. Len(list) /\ rem[j] = list[j + 1]
                    BY <1>0, <2>3, <4>2
                <5> QED  BY <1>0, <4>2, <5>1
            <4> QED  BY <4>1, <4>2
        <3>2. RunsApart(list[i], prev) /\ RunsApart(list[i], next)
            BY <1>2, <2>1, <3>1
        <3>3. /\ list[i].start \in Nat /\ End(list[i]) \in Nat /\ list[i].start < End(list[i])
              /\ f < list[i].start \/ End(list[i]) <= f
              /\ prev.start \in Nat /\ next.start \in Nat /\ End(next) \in Nat
            BY <1>1, <2>1
        <3> HIDE DEF prev, next
        <3> QED  BY <2>1, <2>2, <3>1, <3>2, <3>3 DEF RunsApart
    <2>7. /\ new \in Lists /\ Len(new) = Len(list) - 1 /\ Apart(new)
          /\ FramesIn(new) = (FramesIn(rem) \ FramesOf(prev)) \cup FramesOf(r)
        <3>1. new \in Lists /\ Len(new) = Len(rem)
            BY <2>2, <2>3, <2>4, <2>5, ReplacedIs
        <3>2. /\ FramesIn(new) = (FramesIn(rem) \ FramesOf(rem[k - 1])) \cup FramesOf(r)
              /\ Apart(new)
            BY <2>2, <2>3, <2>4, <2>5, <2>6, ReplacedFrames, SMTT(30)
        <3> QED  BY <2>3, <2>5, <3>1, <3>2, SMTT(30)
    <2>8. FramesIn(new) = FramesIn(list) \cup {f}
        <3>1. \A x : x \in FramesOf(r) <=> x \in Int /\ prev.start <= x /\ x < End(next)
            BY <2>2, FramesOfIs
        <3>2. /\ prev.start \in Nat /\ End(next) \in Nat
              /\ prev.start < End(prev) /\ next.start < End(next)
            BY <1>1, <2>1
        <3>3. /\ \A x : x \in FramesOf(prev) <=> x \in Int /\ prev.start <= x /\ x < End(prev)
              /\ \A x : x \in FramesOf(next) <=> x \in Int /\ next.start <= x /\ x < End(next)
            BY <1>5, <2>1
        <3>4. FramesOf(prev) \subseteq FramesIn(list) /\ FramesOf(next) \subseteq FramesIn(list)
            BY <1>4, <2>1
        <3> HIDE DEF prev, next
        <3>5. \A x : x \in FramesOf(r) <=>
                        x \in FramesOf(prev) \/ x \in FramesOf(next) \/ x = f
            BY <2>1, <3>1, <3>2, <3>3
        <3> QED  BY <2>3, <2>7, <3>4, <3>5
    <2>9. ASSUME InOrder(list), Merged(list)
          PROVE  InOrder(new) /\ Merged(new)
        <3>1. InOrder(rem) /\ Merged(rem)
            BY <2>1, <2>9, RemoveRangeOrder DEF rem
        <3>2. \A i, j \in 1 .. Len(rem) : i < j => End(rem[i]) <= rem[j].start
            BY <2>3, <3>1, InOrderIs
        <3>3. k - 1 > 1 => /\ End(rem[(k - 1) - 1]) <= r.start
                           /\ End(rem[(k - 1) - 1]) = r.start => r.start = rem[k - 1].start
            BY <2>2, <2>5, <3>2
        <3>4. k - 1 < Len(rem) => rem[(k - 1) + 1] = list[k + 1] /\ k \in 1 .. Len(list) - 1
            BY <1>0, <2>1, <2>3
        <3>5. k - 1 < Len(rem) => /\ End(r) <= rem[(k - 1) + 1].start
                                  /\ End(r) = rem[(k - 1) + 1].start =>
                                         DescriptorAt(rem[(k - 1) + 1].start)
            BY <1>0, <1>3, <2>1, <2>2, <2>9, <3>4 DEF Merged
        <3> QED  BY <2>2, <2>3, <2>4, <2>5, <3>1, <3>3, <3>5, ReplacedOrder
    <2>10. Len(new) <= Len(list)
        BY <1>0, <2>7
    <2> QED  BY <2>7, <2>8, <2>9, <2>10 DEF new
<1>8. CASE TouchesPrevious(list, f, k) /\ ~ TouchesNext(list, f, k)
    <2>1. k - 1 \in 1 .. Len(list) /\ End(prev) = f /\ k > 1
        BY <1>0, <1>8 DEF TouchesPrevious
    <2> DEFINE r == Grown(prev, 1)
    <2>2. r \in FreeRange /\ r.start = prev.start /\ End(r) = f + 1
        <3>1. /\ prev.start \in Nat /\ prev.frames + 1 \in Nat \ {0}
              /\ End(prev) = prev.start + prev.frames /\ prev.frames \in Nat
            BY <1>0, <2>1, RunIs, SMTT(30)
        <3>2. r \in FreeRange /\ r.start = prev.start /\ End(r) = prev.start + (prev.frames + 1)
            BY <3>1, NewRun DEF Grown
        <3> HIDE DEF r, prev
        <3> QED  BY <2>1, <3>1, <3>2, SMTT(30)
    <2>3. new = Replaced(list, k - 1, r)
        BY <1>8 DEF Released, Replaced
    <2> HIDE DEF r, new
    <2>4. ASSUME NEW j \in 1 .. Len(list), j # k - 1
          PROVE  RunsApart(list[j], r)
        <3>1. /\ RunsApart(list[j], prev)
              /\ list[j].start \in Nat /\ End(list[j]) \in Nat /\ list[j].start < End(list[j])
              /\ f < list[j].start \/ End(list[j]) <= f
              /\ prev.start \in Nat
            BY <1>1, <1>2, <2>1, <2>4
        <3> HIDE DEF prev
        <3> QED  BY <2>1, <2>2, <3>1 DEF RunsApart
    <2>5. /\ new \in Lists /\ Len(new) = Len(list) /\ Apart(new)
          /\ FramesIn(new) = (FramesIn(list) \ FramesOf(prev)) \cup FramesOf(r)
        BY <2>1, <2>2, <2>3, <2>4, ReplacedIs, ReplacedFrames
    <2>6. FramesIn(new) = FramesIn(list) \cup {f}
        <3>1. \A x : x \in FramesOf(r) <=> x \in Int /\ prev.start <= x /\ x < f + 1
            BY <2>2, FramesOfIs
        <3>2. /\ \A x : x \in FramesOf(prev) <=> x \in Int /\ prev.start <= x /\ x < f
              /\ prev.start \in Nat /\ prev.start < f
              /\ FramesOf(prev) \subseteq FramesIn(list)
            BY <1>1, <1>4, <1>5, <2>1
        <3> HIDE DEF prev
        <3>3. \A x : x \in FramesOf(r) <=> x \in FramesOf(prev) \/ x = f
            BY <3>1, <3>2
        <3> QED  BY <2>5, <3>2, <3>3
    <2>7. ASSUME InOrder(list), Merged(list)
          PROVE  InOrder(new) /\ Merged(new)
        <3>1. k - 1 > 1 => /\ End(list[(k - 1) - 1]) <= r.start
                           /\ End(list[(k - 1) - 1]) = r.start => r.start = list[k - 1].start
            BY <1>0, <1>3, <2>1, <2>2, <2>7
        <3>2. k - 1 < Len(list) => k \in 1 .. Len(list) /\ (k - 1) + 1 = k
            BY <1>0
        <3>3. k - 1 < Len(list) => End(r) <= next.start /\ End(r) # next.start
            BY <1>6, <1>8, <2>2, <3>2 DEF TouchesNext
        <3>4. k - 1 < Len(list) => /\ End(r) <= list[(k - 1) + 1].start
                                   /\ End(r) = list[(k - 1) + 1].start =>
                                          DescriptorAt(list[(k - 1) + 1].start)
            BY <3>2, <3>3
        <3> QED  BY <2>1, <2>2, <2>3, <2>7, <3>1, <3>4, ReplacedOrder
    <2>8. Len(new) <= Len(list)
        BY <1>0, <2>5
    <2> QED  BY <2>5, <2>6, <2>7, <2>8 DEF new
<1>9. CASE ~ TouchesPrevious(list, f, k) /\ TouchesNext(list, f, k)
    <2>1. k \in 1 .. Len(list) /\ f + 1 = next.start
        BY <1>0, <1>9 DEF TouchesNext
    <2> DEFINE r == [start |-> f, frames |-> next.frames + 1]
    <2>2. r \in FreeRange /\ r.start = f /\ End(r) = End(next)
        <3>1. /\ next.frames + 1 \in Nat \ {0} /\ next.frames \in Nat /\ next.start \in Nat
              /\ End(next) = next.start + next.frames
            BY <1>0, <2>1, RunIs, SMTT(30)
        <3>2. r \in FreeRange /\ r.start = f /\ End(r) = f + (next.frames + 1)
            BY <3>1, NewRun
        <3> HIDE DEF r, next
        <3> QED  BY <2>1, <3>1, <3>2, SMTT(30)
    <2>3. new = Replaced(list, k, r)
        BY <1>9 DEF Released, Replaced
    <2> HIDE DEF r, new
    <2>4. ASSUME NEW j \in 1 .. Len(list), j # k
          PROVE  RunsApart(list[j], r)
        <3>1. /\ RunsApart(list[j], next)
              /\ list[j].start \in Nat /\ End(list[j]) \in Nat /\ list[j].start < End(list[j])
              /\ f < list[j].start \/ End(list[j]) <= f
              /\ End(next) \in Nat
            BY <1>1, <1>2, <2>1, <2>4
        <3> HIDE DEF next
        <3> QED  BY <2>1, <2>2, <3>1 DEF RunsApart
    <2>5. /\ new \in Lists /\ Len(new) = Len(list) /\ Apart(new)
          /\ FramesIn(new) = (FramesIn(list) \ FramesOf(next)) \cup FramesOf(r)
        BY <2>1, <2>2, <2>3, <2>4, ReplacedIs, ReplacedFrames
    <2>6. FramesIn(new) = FramesIn(list) \cup {f}
        <3>1. \A x : x \in FramesOf(r) <=> x \in Int /\ f <= x /\ x < End(next)
            BY <2>2, FramesOfIs
        <3>2. /\ \A x : x \in FramesOf(next) <=> x \in Int /\ next.start <= x /\ x < End(next)
              /\ next.start < End(next) /\ End(next) \in Nat
              /\ FramesOf(next) \subseteq FramesIn(list)
            BY <1>1, <1>4, <1>5, <2>1
        <3> HIDE DEF next
        <3>3. \A x : x \in FramesOf(r) <=> x \in FramesOf(next) \/ x = f
            BY <2>1, <3>1, <3>2
        <3> QED  BY <2>5, <3>2, <3>3
    <2>7. ASSUME InOrder(list), Merged(list)
          PROVE  InOrder(new) /\ Merged(new)
        <3>1. k > 1 => /\ End(list[k - 1]) <= r.start
                       /\ End(list[k - 1]) = r.start => r.start = list[k].start
            BY <1>6, <1>9, <2>2 DEF TouchesPrevious
        <3>2. k < Len(list) => /\ End(r) <= list[k + 1].start
                               /\ End(r) = list[k + 1].start =>
                                      DescriptorAt(list[k + 1].start)
            BY <1>0, <1>3, <2>1, <2>2, <2>7 DEF Merged
        <3> QED  BY <2>1, <2>2, <2>3, <2>7, <3>1, <3>2, ReplacedOrder
    <2>8. Len(new) <= Len(list)
        BY <1>0, <2>5
    <2> QED  BY <2>5, <2>6, <2>7, <2>8 DEF new
<1>10. CASE ~ TouchesPrevious(list, f, k) /\ ~ TouchesNext(list, f, k)
    <2> DEFINE r == [start |-> f, frames |-> 1]
    <2>1. r \in FreeRange /\ r.start = f /\ End(r) = f + 1
        BY NewRun
    <2>2. new = InsertRange(list, k, r)
        BY <1>10 DEF Released
    <2> HIDE DEF r, new
    <2>3. \A j \in 1 .. Len(list) : RunsApart(list[j], r)
        BY <1>1, <2>1 DEF RunsApart
    <2>4. /\ new \in Lists /\ Len(new) = Len(list) + 1 /\ Apart(new)
          /\ FramesIn(new) = FramesIn(list) \cup FramesOf(r)
        BY <1>0, <2>1, <2>2, <2>3, InsertRangeIs, InsertRangeFrames
    <2>5. \A x : x \in FramesOf(r) <=> x = f
        BY <2>1, FramesOfIs
    <2>6. ASSUME InOrder(list), Merged(list)
          PROVE  InOrder(new) /\ Merged(new)
        <3>1. k > 1 => End(list[k - 1]) < r.start
            <4>1. k > 1 => End(prev) # f /\ End(prev) \in Nat
                BY <1>0, <1>1, <1>10 DEF TouchesPrevious
            <4> QED  BY <1>6, <2>1, <4>1
        <3>2. k <= Len(list) => End(r) < list[k].start
            <4>1. k <= Len(list) => f + 1 # next.start /\ next.start \in Nat
                BY <1>0, <1>1, <1>10 DEF TouchesNext
            <4> QED  BY <1>6, <2>1, <4>1
        <3> QED  BY <1>0, <2>1, <2>2, <2>6, <3>1, <3>2, InsertRangeOrder
    <2> QED  BY <1>10, <2>4, <2>5, <2>6 DEF new
<1> QED  BY <1>7, <1>8, <1>9, <1>10

------------------------------------------------------------------------------
(* AllocatorInv is inductive.                                              *)

\* What the lists of usable memory are.
LEMMA ManagedIs ==
    ASSUME managed \in UsableLists
    PROVE  managed \in Lists /\ Len(managed) <= MAX_FREE_RANGES /\ Disjoint(managed)
BY UsableListsAssumption DEF Lists

\* Frames are numbers.
LEMMA FramesAreNumbers ==
    ASSUME NEW list \in Lists
    PROVE  FramesIn(list) \subseteq Nat
<1> SUFFICES ASSUME NEW x \in FramesIn(list) PROVE x \in Nat
    OBVIOUS
<1>1. PICK k \in 1 .. Len(list) : x \in Int /\ list[k].start <= x
    BY FramesInIs
<1>2. list[k].start \in Nat
    BY ListIs, RunIs
<1> QED  BY <1>1, <1>2

\* FrameAllocator::new establishes the invariant.
LEMMA InitIsSound == Init => AllocatorInv
<1> SUFFICES ASSUME Init PROVE AllocatorInv
    OBVIOUS
<1>1. /\ managed \in UsableLists /\ ranges = managed
      /\ free_frames = Cardinality(FramesIn(managed))
      /\ owned = {} /\ granted = {} /\ lost = {}
    BY DEF Init
<1>2. managed \in Lists /\ Len(managed) <= MAX_FREE_RANGES /\ Disjoint(managed)
    BY <1>1, ManagedIs
<1>3. free_frames \in Nat
    BY <1>1, <1>2, FramesAreFinite, FS_CardinalityType
<1>4. TypeOK
    BY <1>1, <1>2, <1>3 DEF TypeOK, Lists
<1>5. EveryFrameHasOneOwner
    BY <1>1, <1>2 DEF EveryFrameHasOneOwner, FreeFrames
<1>6. Merged(managed)
    BY <1>2, ListIs DEF Merged, DescriptorAt
<1> QED  BY <1>1, <1>4, <1>5, <1>6 DEF AllocatorInv, FreeListIsOrdered

\* n frames taken from the front of run k: what both allocations share.
LEMMA TakeIsSound ==
    ASSUME AllocatorInv, NEW k \in 1 .. Len(ranges), NEW n \in Nat \ {0},
           n <= ranges[k].frames,
           ranges' = TakeFront(ranges, k, n), free_frames' = free_frames - n,
           managed' = managed
    PROVE  LET taken == ranges[k].start .. ranges[k].start + n - 1
           IN  /\ ranges' \in Seq(FreeRange) /\ Len(ranges') <= MAX_FREE_RANGES
               /\ free_frames' \in Nat /\ free_frames' = Cardinality(FreeFrames')
               /\ Disjoint(ranges') /\ FreeListIsOrdered'
               /\ FreeFrames' = FreeFrames \ taken /\ taken \subseteq FreeFrames
<1> DEFINE new == TakeFront(ranges, k, n)
           taken == ranges[k].start .. ranges[k].start + n - 1
<1>1. /\ ranges \in Lists /\ Len(ranges) <= MAX_FREE_RANGES /\ Disjoint(ranges)
      /\ free_frames \in Nat /\ free_frames = Cardinality(FramesIn(ranges))
      /\ FreeListIsOrdered
    BY DEF AllocatorInv, TypeOK, EveryFrameHasOneOwner, Lists, FreeFrames
<1>2. Apart(ranges)
    BY <1>1, DisjointIsApart
<1>3. /\ new \in Lists /\ Len(new) <= Len(ranges) /\ Apart(new)
      /\ FramesIn(new) = FramesIn(ranges) \ taken
      /\ taken \subseteq FramesIn(ranges)
      /\ InOrder(ranges) /\ Merged(ranges) => InOrder(new) /\ Merged(new)
    BY <1>1, <1>2, TakeFrontIs
<1>4. Disjoint(new)
    BY <1>3, DisjointIsApart
<1>5. Cardinality(taken) = n
    <2>1. ranges[k].start \in Nat
        BY <1>1, ListIs, RunIs
    <2>2. /\ ranges[k].start \in Int /\ ranges[k].start + n - 1 \in Int
          /\ ~ (ranges[k].start > ranges[k].start + n - 1)
          /\ (ranges[k].start + n - 1) - ranges[k].start + 1 = n
        BY <2>1
    <2> QED  BY <2>2, FS_Interval
<1> HIDE DEF taken, new
<1>6. free_frames - n \in Nat /\ free_frames - n = Cardinality(FramesIn(new))
    <2>1. IsFiniteSet(FramesIn(ranges)) /\ FramesIn(ranges) \cap taken = taken
        BY <1>1, <1>3, FramesAreFinite
    <2>2. Cardinality(FramesIn(new)) = Cardinality(FramesIn(ranges)) - Cardinality(taken)
        BY <1>3, <2>1, FS_Difference
    <2>3. Cardinality(FramesIn(new)) \in Nat
        BY <1>3, FramesAreFinite, FS_CardinalityType
    <2> QED  BY <1>1, <1>5, <2>2, <2>3
<1>7. Len(new) <= MAX_FREE_RANGES
    BY <1>1, <1>3, ListIs, MaxFreeRangesAssumption
<1>8. FreeListIsOrdered'
    BY <1>1, <1>3 DEF FreeListIsOrdered, Merged, DescriptorAt, new
<1> QED  BY <1>1, <1>3, <1>4, <1>6, <1>7, <1>8 DEF FreeFrames, Lists, new, taken

\* allocate keeps the invariant.
LEMMA AllocateIsSound ==
    ASSUME AllocatorInv, Allocate
    PROVE  AllocatorInv'
<1>1. /\ Len(ranges) > 0 /\ ranges' = TakeFront(ranges, 1, 1)
      /\ free_frames' = free_frames - 1 /\ owned' = owned \cup {ranges[1].start}
      /\ managed' = managed /\ granted' = granted /\ lost' = lost
    BY DEF Allocate
<1>2. ranges \in Lists
    BY DEF AllocatorInv, TypeOK, Lists
<1>3. 1 \in 1 .. Len(ranges) /\ ranges[1] \in FreeRange
    BY <1>1, <1>2, ListIs
<1>4. 1 \in Nat \ {0} /\ 1 <= ranges[1].frames
    BY <1>3, RunIs
<1>5. /\ ranges' \in Seq(FreeRange) /\ Len(ranges') <= MAX_FREE_RANGES
      /\ free_frames' \in Nat /\ free_frames' = Cardinality(FreeFrames')
      /\ Disjoint(ranges') /\ FreeListIsOrdered'
      /\ FreeFrames' = FreeFrames \ (ranges[1].start .. ranges[1].start + 1 - 1)
      /\ ranges[1].start .. ranges[1].start + 1 - 1 \subseteq FreeFrames
    BY <1>1, <1>3, <1>4, TakeIsSound
<1>6. ranges[1].start .. ranges[1].start + 1 - 1 = {ranges[1].start}
    BY <1>3, RunIs
<1>7. /\ managed \in UsableLists /\ owned \subseteq FramesIn(managed)
      /\ granted \subseteq FramesIn(managed) /\ lost \subseteq FramesIn(managed)
      /\ FreeFrames \cap (owned \cup granted \cup lost) = {}
      /\ owned \cap granted = {} /\ owned \cap lost = {} /\ granted \cap lost = {}
      /\ FreeFrames \cup owned \cup granted \cup lost = FramesIn(managed)
    BY DEF AllocatorInv, TypeOK, EveryFrameHasOneOwner
<1> DEFINE f == ranges[1].start
<1>8. /\ FreeFrames' = FreeFrames \ {f} /\ f \in FreeFrames /\ owned' = owned \cup {f}
    BY <1>1, <1>5, <1>6
<1> HIDE DEF f
<1>9. TypeOK'
    BY <1>1, <1>5, <1>7, <1>8 DEF TypeOK
<1>10. EveryFrameHasOneOwner'
    BY <1>1, <1>5, <1>7, <1>8 DEF EveryFrameHasOneOwner
<1> QED  BY <1>5, <1>9, <1>10 DEF AllocatorInv

\* allocate_contiguous keeps the invariant.
LEMMA AllocateContiguousIsSound ==
    ASSUME AllocatorInv, NEW n \in Requests, NEW k \in DOMAIN ranges,
           AllocateContiguous(n, k)
    PROVE  AllocatorInv'
<1> DEFINE taken == ranges[k].start .. ranges[k].start + n - 1
<1>1. /\ ranges[k].frames >= n /\ ranges' = TakeFront(ranges, k, n)
      /\ free_frames' = free_frames - n /\ granted' = granted \cup taken
      /\ managed' = managed /\ owned' = owned /\ lost' = lost
    BY DEF AllocateContiguous, Largest
<1>2. ranges \in Lists
    BY DEF AllocatorInv, TypeOK, Lists
<1>3. k \in 1 .. Len(ranges) /\ ranges[k] \in FreeRange /\ n \in Nat \ {0}
    BY <1>2, ListIs, RequestsAssumption
<1>4. n <= ranges[k].frames
    BY <1>1, <1>3, RunIs
<1>5. /\ ranges' \in Seq(FreeRange) /\ Len(ranges') <= MAX_FREE_RANGES
      /\ free_frames' \in Nat /\ free_frames' = Cardinality(FreeFrames')
      /\ Disjoint(ranges') /\ FreeListIsOrdered'
      /\ FreeFrames' = FreeFrames \ taken /\ taken \subseteq FreeFrames
    BY <1>1, <1>3, <1>4, TakeIsSound
<1>6. /\ managed \in UsableLists /\ owned \subseteq FramesIn(managed)
      /\ granted \subseteq FramesIn(managed) /\ lost \subseteq FramesIn(managed)
      /\ FreeFrames \cap (owned \cup granted \cup lost) = {}
      /\ owned \cap granted = {} /\ owned \cap lost = {} /\ granted \cap lost = {}
      /\ FreeFrames \cup owned \cup granted \cup lost = FramesIn(managed)
    BY DEF AllocatorInv, TypeOK, EveryFrameHasOneOwner
<1> HIDE DEF taken
<1>7. TypeOK'
    BY <1>1, <1>5, <1>6 DEF TypeOK
<1>8. EveryFrameHasOneOwner'
    BY <1>1, <1>5, <1>6 DEF EveryFrameHasOneOwner
<1> QED  BY <1>5, <1>7, <1>8 DEF AllocatorInv

\* release keeps the invariant when it puts the frame back.
LEMMA ReleaseIsSound ==
    ASSUME AllocatorInv, NEW f \in owned, NEW k, Release(f, k)
    PROVE  AllocatorInv'
<1> DEFINE new == Released(ranges, f, k)
<1>1. /\ ScanStops(ranges, f, k) /\ ~ Overlaps(ranges, f, k)
      /\ ~ StorageFull(ranges, f, k) /\ ranges' = new
      /\ free_frames' = free_frames + 1 /\ owned' = owned \ {f}
      /\ managed' = managed /\ granted' = granted /\ lost' = lost
    BY DEF Release, Accepts
<1>2. /\ ranges \in Lists /\ Len(ranges) <= MAX_FREE_RANGES /\ Disjoint(ranges)
      /\ free_frames \in Nat /\ free_frames = Cardinality(FramesIn(ranges))
      /\ FreeListIsOrdered
    BY DEF AllocatorInv, TypeOK, EveryFrameHasOneOwner, Lists, FreeFrames
<1>3. /\ managed \in UsableLists /\ owned \subseteq FramesIn(managed)
      /\ granted \subseteq FramesIn(managed) /\ lost \subseteq FramesIn(managed)
      /\ FreeFrames \cap (owned \cup granted \cup lost) = {}
      /\ owned \cap granted = {} /\ owned \cap lost = {} /\ granted \cap lost = {}
      /\ FreeFrames \cup owned \cup granted \cup lost = FramesIn(managed)
    BY DEF AllocatorInv, TypeOK, EveryFrameHasOneOwner
<1>4. f \in Nat /\ f \notin FramesIn(ranges) /\ Apart(ranges)
    BY <1>2, <1>3, ManagedIs, FramesAreNumbers, DisjointIsApart DEF FreeFrames
<1>5. /\ new \in Lists /\ Apart(new)
      /\ FramesIn(new) = FramesIn(ranges) \cup {f}
      /\ InOrder(ranges) /\ Merged(ranges) => InOrder(new) /\ Merged(new)
      /\ \/ Len(new) <= Len(ranges)
         \/ /\ ~ TouchesPrevious(ranges, f, k) /\ ~ TouchesNext(ranges, f, k)
            /\ Len(new) = Len(ranges) + 1
    BY <1>1, <1>2, <1>4, ReleasedIs
<1> HIDE DEF new
<1>6. Len(new) <= MAX_FREE_RANGES
    <2>1. Len(new) \in Nat /\ Len(ranges) \in Nat
        BY <1>2, <1>5, ListIs
    <2>2. CASE Len(new) <= Len(ranges)
        BY <1>2, <2>1, <2>2, MaxFreeRangesAssumption
    <2>3. CASE /\ ~ TouchesPrevious(ranges, f, k) /\ ~ TouchesNext(ranges, f, k)
               /\ Len(new) = Len(ranges) + 1
        <3>1. Len(ranges) # MAX_FREE_RANGES
            BY <1>1, <2>3 DEF StorageFull
        <3> QED  BY <1>2, <2>1, <2>3, <3>1, MaxFreeRangesAssumption
    <2> QED  BY <1>5, <2>2, <2>3
<1>7. free_frames + 1 = Cardinality(FramesIn(new))
    <2>1. IsFiniteSet(FramesIn(ranges))
        BY <1>2, FramesAreFinite
    <2>2. Cardinality(FramesIn(ranges) \cup {f}) = Cardinality(FramesIn(ranges)) + 1
        BY <1>4, <2>1, FS_AddElement
    <2> QED  BY <1>2, <1>5, <2>2
<1>8. Disjoint(new)
    BY <1>5, DisjointIsApart
<1>9. FreeListIsOrdered'
    BY <1>1, <1>2, <1>5 DEF FreeListIsOrdered, Merged, DescriptorAt
<1>10. FreeFrames' = FreeFrames \cup {f}
    BY <1>1, <1>5 DEF FreeFrames
<1>11. /\ free_frames' \in Nat /\ free_frames' = Cardinality(FreeFrames')
       /\ Disjoint(ranges') /\ ranges' \in Seq(FreeRange)
       /\ Len(ranges') <= MAX_FREE_RANGES
    BY <1>1, <1>2, <1>5, <1>6, <1>7, <1>8 DEF FreeFrames, Lists
<1>12. TypeOK'
    BY <1>1, <1>3, <1>11 DEF TypeOK
<1>13. EveryFrameHasOneOwner'
    BY <1>1, <1>3, <1>10, <1>11 DEF EveryFrameHasOneOwner
<1> QED  BY <1>9, <1>12, <1>13 DEF AllocatorInv

\* A release that finds the table full loses the frame, and keeps the
\* invariant.
LEMMA ReleaseFailsIsSound ==
    ASSUME AllocatorInv, NEW f \in owned, NEW k, ReleaseFails(f, k)
    PROVE  AllocatorInv'
<1>1. /\ owned' = owned \ {f} /\ lost' = lost \cup {f}
      /\ ranges' = ranges /\ managed' = managed
      /\ free_frames' = free_frames /\ granted' = granted
    BY DEF ReleaseFails
<1>2. FreeFrames' = FreeFrames /\ FreeListIsOrdered'
    BY <1>1 DEF FreeFrames, AllocatorInv, FreeListIsOrdered, Merged, DescriptorAt
<1>3. TypeOK'
    BY <1>1 DEF AllocatorInv, TypeOK
<1>4. EveryFrameHasOneOwner'
    BY <1>1, <1>2 DEF AllocatorInv, EveryFrameHasOneOwner
<1> QED  BY <1>2, <1>3, <1>4 DEF AllocatorInv

\* AllocatorInv holds in every reachable state.
LEMMA AllocatorIsSound == Spec => []AllocatorInv
<1>1. Init => AllocatorInv
    BY InitIsSound
<1>2. AllocatorInv /\ [Next]_vars => AllocatorInv'
    <2> SUFFICES ASSUME AllocatorInv, [Next]_vars PROVE AllocatorInv'
        OBVIOUS
    <2>1. CASE Allocate
        BY <2>1, AllocateIsSound
    <2>2. CASE \E n \in Requests : \E k \in DOMAIN ranges : AllocateContiguous(n, k)
        BY <2>2, AllocateContiguousIsSound
    <2>3. CASE \E f \in owned : \E k \in 1 .. Len(ranges) + 1 : Release(f, k)
        BY <2>3, ReleaseIsSound
    <2>4. CASE \E f \in owned : \E k \in 1 .. Len(ranges) + 1 : ReleaseFails(f, k)
        BY <2>4, ReleaseFailsIsSound
    <2>5. CASE UNCHANGED vars
        BY <2>5 DEF AllocatorInv, TypeOK, EveryFrameHasOneOwner, FreeFrames,
                    FreeListIsOrdered, Merged, DescriptorAt, vars
    <2> QED  BY <2>1, <2>2, <2>3, <2>4, <2>5 DEF Next
<1> QED  BY <1>1, <1>2, PTL DEF Spec

------------------------------------------------------------------------------
(* The theorems.                                                           *)

\* Every frame of usable memory has exactly one owner - the free list, a
\* handle, a contiguous grant or a failed release - and stats() counts the free
\* ones, for every list of usable runs, in any order, and every table size.
THEOREM FramesHaveOneOwner == Spec => []EveryFrameHasOneOwner
BY AllocatorIsSound, PTL DEF AllocatorInv

\* release of a frame that a handle holds is never refused with InvalidAddress,
\* even when the firmware's order makes its scan stop early.
THEOREM HoldersMayRelease == Spec => []OwnerMayRelease
<1>1. ASSUME AllocatorInv PROVE OwnerMayRelease
    <2> SUFFICES ASSUME NEW f \in owned
                 PROVE  \E k \in 1 .. Len(ranges) + 1 : Accepts(ranges, f, k)
        BY DEF OwnerMayRelease
    <2>1. /\ ranges \in Lists /\ managed \in UsableLists /\ owned \subseteq FramesIn(managed)
          /\ f \notin FramesIn(ranges)
        BY <1>1 DEF AllocatorInv, TypeOK, EveryFrameHasOneOwner, FreeFrames, Lists
    <2>2. f \in Nat /\ f \in FramesIn(managed)
        BY <2>1, ManagedIs, FramesAreNumbers
    <2>3. Len(ranges) \in Nat /\ \A j \in 1 .. Len(ranges) :
              /\ ranges[j].start \in Nat /\ End(ranges[j]) \in Nat
              /\ f < ranges[j].start \/ End(ranges[j]) <= f
        BY <2>1, <2>2, ListIs, RunIs, FramesInIs
    <2> DEFINE S == {k \in 1 .. Len(ranges) + 1 :
                        k = Len(ranges) + 1 \/ ranges[k].start >= f}
    <2>4. S \in SUBSET Nat /\ Len(ranges) + 1 \in S
        BY <2>3
    <2>5. PICK k \in S : \A j \in S : k <= j
        BY <2>4, LeastElement
    <2>6. k \in 1 .. Len(ranges) + 1 /\ (k <= Len(ranges) => ranges[k].start >= f)
        BY <2>3
    <2>7. \A j \in 1 .. k - 1 : ranges[j].start < f
        <3> SUFFICES ASSUME NEW j \in 1 .. k - 1 PROVE ranges[j].start < f
            OBVIOUS
        <3>1. j \in 1 .. Len(ranges) /\ j \notin S
            BY <2>3, <2>5, <2>6
        <3> QED  BY <2>2, <2>3, <3>1
    <2> HIDE DEF S
    <2>8. ScanStops(ranges, f, k)
        BY <2>6, <2>7 DEF ScanStops
    <2>9. ~ Overlaps(ranges, f, k)
        <3>1. k > 1 => ~ (End(ranges[k - 1]) > f)
            <4> SUFFICES ASSUME k > 1 PROVE ~ (End(ranges[k - 1]) > f)
                OBVIOUS
            <4>1. k - 1 \in 1 .. Len(ranges) /\ k - 1 \in 1 .. k - 1
                BY <2>3, <2>6
            <4>2. ranges[k - 1].start < f
                BY <2>7, <4>1
            <4> QED  BY <2>2, <2>3, <4>1, <4>2
        <3>2. k <= Len(ranges) => ~ (f + 1 > ranges[k].start)
            <4> SUFFICES ASSUME k <= Len(ranges) PROVE ~ (f + 1 > ranges[k].start)
                OBVIOUS
            <4>1. k \in 1 .. Len(ranges) /\ ranges[k].start >= f
                BY <2>3, <2>6
            <4>2. ranges[k] \in FreeRange
                BY <2>1, <4>1, ListIs
            <4>3. ranges[k].start < End(ranges[k])
                BY <4>2, RunIs
            <4> QED  BY <2>2, <2>3, <4>1, <4>3
        <3> QED  BY <3>1, <3>2 DEF Overlaps
    <2> QED  BY <2>2, <2>6, <2>8, <2>9 DEF Accepts
<1> QED  BY <1>1, AllocatorIsSound, PTL

\* If the firmware lists usable memory in address order, the free list stays in
\* order and merged, and release refuses every frame that is already free.
THEOREM FreeListStaysSound == Spec => []FreeListIsSound
<1>1. ASSUME AllocatorInv PROVE FreeListIsSound
    <2> SUFFICES ASSUME InOrder(managed)
                 PROVE  /\ InOrder(ranges)
                        /\ \A k \in 1 .. Len(ranges) - 1 :
                              End(ranges[k]) = ranges[k + 1].start =>
                                  \E m \in DOMAIN managed :
                                      managed[m].start = ranges[k + 1].start
                        /\ \A f \in FreeFrames : \A k \in 1 .. Len(ranges) + 1 :
                              ~ Accepts(ranges, f, k)
        BY DEF FreeListIsSound
    <2>1. ranges \in Lists /\ InOrder(ranges) /\ Merged(ranges)
        BY <1>1 DEF AllocatorInv, TypeOK, FreeListIsOrdered, Lists
    <2>2. ASSUME NEW f \in FreeFrames, NEW k \in 1 .. Len(ranges) + 1,
                 ScanStops(ranges, f, k)
          PROVE  Overlaps(ranges, f, k)
        <3>1. PICK j \in 1 .. Len(ranges) :
                  f \in Int /\ ranges[j].start <= f /\ f < End(ranges[j])
            BY <2>1, FramesInIs DEF FreeFrames
        <3>2. /\ Len(ranges) \in Nat
              /\ \A i \in 1 .. Len(ranges) :
                    ranges[i].start \in Nat /\ End(ranges[i]) \in Nat
              /\ \A i, m \in 1 .. Len(ranges) : i < m => End(ranges[i]) <= ranges[m].start
            BY <2>1, ListIs, RunIs, InOrderIs
        <3>3. /\ \A i \in 1 .. k - 1 : ranges[i].start < f
              /\ k <= Len(ranges) => ranges[k].start >= f
            BY <2>2 DEF ScanStops
        <3>4. ~ (j > k)
            <4> SUFFICES ASSUME j > k PROVE FALSE
                OBVIOUS
            <4>1. k \in 1 .. Len(ranges) /\ ranges[k] \in FreeRange
                BY <2>1, <3>2, ListIs
            <4>2. ranges[k].start < End(ranges[k]) /\ End(ranges[k]) <= ranges[j].start
                BY <3>2, <4>1, RunIs
            <4> QED  BY <3>1, <3>2, <3>3, <4>1, <4>2
        <3>5. ~ (j < k - 1)
            <4> SUFFICES ASSUME j < k - 1 PROVE FALSE
                OBVIOUS
            <4>1. k - 1 \in 1 .. Len(ranges) /\ k - 1 \in 1 .. k - 1
                BY <3>2
            <4>2. End(ranges[j]) <= ranges[k - 1].start /\ ranges[k - 1].start < f
                BY <3>2, <3>3, <4>1
            <4> QED  BY <3>1, <3>2, <4>1, <4>2
        <3>6. CASE j = k
            BY <3>1, <3>2, <3>6 DEF Overlaps
        <3>7. CASE j = k - 1
            BY <3>1, <3>2, <3>7 DEF Overlaps
        <3> QED  BY <3>2, <3>4, <3>5, <3>6, <3>7
    <2> QED  BY <2>1, <2>2 DEF Accepts, Merged, DescriptorAt
<1> QED  BY <1>1, AllocatorIsSound, PTL

==============================================================================
